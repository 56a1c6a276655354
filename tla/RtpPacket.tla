------------------------------ MODULE RtpPacket ------------------------------
(***************************************************************************)
(* What the sender and the receiver of the RTP lab agree on: the packet    *)
(* kinds of rtp.h, the sequence-number arithmetic modulo MAX_SEQ_NUM, how  *)
(* a file is cut into chunks, and the command line of a run.               *)
(*                                                                         *)
(* A payload is the number of the chunk of the file it carries, or NoData  *)
(* when the packet's length field is 0.  A datagram that the length or the *)
(* checksum test would refuse is the packet Junk, whatever it carries.     *)
(***************************************************************************)
EXTENDS Integers, Sequences

CONSTANTS
  MaxSeqNum,        \* MAX_SEQ_NUM, 2^30 in rtp.h
  U16,              \* 2^16, the range of a uint16_t
  PayloadMax,       \* PAYLOAD_MAX, the bytes of a full packet
  FileSize,         \* bytes of the file to send
  SenderWindowArg,  \* "window size" on the sender's command line (uint32_t)
  ReceiverWindowArg,\* "window size" on the receiver's (stored in a uint16_t)
  ResendMax,        \* RESEND_SYN_MAX, 50 in the code
  FdLimit,          \* descriptors the receiver process may leave open
  Modes,            \* modes a run may be started in
  InitSeqNums       \* values the sender's rand() % MAX_SEQ_NUM may return

ASSUME SeqAssumption ==
  /\ MaxSeqNum \in Nat /\ U16 \in Nat \ {0}
  /\ 2 * U16 <= MaxSeqNum

ASSUME FileAssumption ==
  PayloadMax \in Nat \ {0} /\ FileSize \in Nat

ASSUME WindowAssumption ==
  /\ SenderWindowArg \in Nat \ {0}
  /\ ReceiverWindowArg \in Nat \ {0}
  /\ SenderWindowArg + U16 <= MaxSeqNum

ASSUME RunAssumption ==
  /\ ResendMax \in Nat \ {0}
  /\ FdLimit \in Nat
  /\ Modes \subseteq {"RBN", "SR"}
  /\ InitSeqNums \subseteq 0 .. MaxSeqNum - 1

------------------------------------------------------------------------------
(* Sequence numbers. *)

SeqNums == 0 .. MaxSeqNum - 1

\* The values of a u_int32_t: MAX_SEQ_NUM is 2^30.
Uint32 == 0 .. 4 * MaxSeqNum - 1

SeqAdd(s, k) == (s + k) % MaxSeqNum

\* How many steps lead from s to q around the circle.
Offset(s, q) == IF q >= s THEN q - s ELSE q + MaxSeqNum - s

\* The n consecutive sequence numbers that start at s.
Window(s, n) == {SeqAdd(s, i) : i \in 0 .. n - 1}

Lesser(a, b) == IF a <= b THEN a ELSE b

------------------------------------------------------------------------------
(* The file. *)

NoData == -1

\* The packets the file is cut into: the last one is empty when the size is
\* a multiple of PAYLOAD_MAX.
ChunksInFile == FileSize \div PayloadMax + 1

\* num_packets is a uint16_t.
NumPackets == ChunksInFile % U16

\* What the i-th fread of PAYLOAD_MAX bytes returns: nothing past the end.
Chunk(i) == IF i * PayloadMax < FileSize THEN i ELSE NoData

Payloads == Nat \cup {NoData}

\* The receiver's window_size is a uint16_t.
ReceiverWindow == ReceiverWindowArg % U16

------------------------------------------------------------------------------
(* Packets. SYNACK and FINACK are the flag combinations SYN|ACK, FIN|ACK.
   Only FIN may carry a number of MAX_SEQ_NUM or more (see SAckBase). *)

Junk == [flags |-> "BAD", seq |-> 0, payload |-> NoData]

Syn(s)       == [flags |-> "SYN",    seq |-> s, payload |-> NoData]
SynAck(s)    == [flags |-> "SYNACK", seq |-> s, payload |-> NoData]
Ack(s)       == [flags |-> "ACK",    seq |-> s, payload |-> NoData]
Data(s, d)   == [flags |-> "DATA",   seq |-> s, payload |-> d]
Fin(s)       == [flags |-> "FIN",    seq |-> s, payload |-> NoData]
FinAck(s)    == [flags |-> "FINACK", seq |-> s, payload |-> NoData]

Packets ==
  [flags : {"BAD", "SYN", "SYNACK", "ACK", "DATA", "FIN", "FINACK"},
   seq : Nat, payload : Payloads]

\* The length field is 0: all that the tests made before the data phase ask.
IsControl(p) == p.payload = NoData /\ p.flags # "BAD"
==============================================================================
