-------------------------------- MODULE MCRtp --------------------------------
(***************************************************************************)
(* The RTP model on small instances: files of three to five packets,       *)
(* sequence numbers modulo 10, packet counts modulo 5.                     *)
(***************************************************************************)
EXTENDS RtpInvariant

\* init_seq_num such that the run starts at 0, wraps inside the file, or
\* asks for init_seq_num + 1 = MAX_SEQ_NUM.
AnyInitSeq == {1, MaxSeqNum - 3, MaxSeqNum - 1}

\* No wrap before the closing handshake.
LowInitSeq == {1}
==============================================================================
