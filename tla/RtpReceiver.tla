----------------------------- MODULE RtpReceiver -----------------------------
(***************************************************************************)
(* receiver.cpp: the answering side of the handshake, the data loop and    *)
(* the closing handshake.  rPhase names the select() it is blocked in:     *)
(*   listen    5 s for the first SYN                                       *)
(*   synrcvd   SYNACK sent, 100 ms for the ACK                             *)
(*   data      5 s for a packet                                            *)
(*   finack    FINACK sent, 2 s for a repeated FIN                         *)
(*   done      "File received successfully", exit                          *)
(*   refused   exit without a connection                                   *)
(*   crashed   LOG_FATAL, or a write through the NULL of a failed fopen    *)
(***************************************************************************)
EXTENDS RtpNetwork

VARIABLES
  rCount,   \* send_iter_count: SYNACKs sent
  rSyn,     \* received_syn_header->seq_num
  rBase,    \* base and exp_seq_num, which start equal and advance together
  rWindow,  \* window: packet received
  rData,    \* data: payloads received ahead of base; an absent key reads as ""
  written,  \* the payloads written to the output file, in order
  rOpen     \* descriptors of the output file that were never closed

receiverVars == <<rCount, rSyn, rBase, rWindow, rData, written, rOpen>>
fileVars == <<rBase, rWindow, rData, written, rOpen>>

ReceiverInit ==
  /\ rPhase = "listen"
  /\ rCount = 0
  /\ rSyn = 0
  /\ rBase = 0
  /\ rWindow = [q \in {} |-> FALSE]
  /\ rData = [q \in SeqNums |-> NoData]
  /\ written = <<>>
  /\ rOpen = 0

Silent == UNCHANGED toSender

------------------------------------------------------------------------------
(* Connecting. *)

RListenTimeout ==
  /\ rPhase = "listen" /\ LongTimeout(~SenderExited)
  /\ rPhase' = "refused"
  /\ UNCHANGED <<runVars, netVars, sPhase, receiverVars>>

\* The first intact datagram without payload decides: a SYN opens the
\* connection, anything else ends the process; the rest is waited out.
RListenReceive ==
  /\ rPhase = "listen"
  /\ UNCHANGED <<runVars, faults, sPhase, fileVars>>
  /\ \E p \in toReceiver :
       /\ Receive(p)
       /\ \/ /\ ~IsControl(p)
             /\ Silent /\ UNCHANGED <<rPhase, rCount, rSyn>>
          \/ /\ p.flags = "SYN"
             /\ rPhase' = "synrcvd"
             /\ rSyn' = p.seq
             /\ rCount' = 1
             /\ Reply(SynAck(SeqAdd(p.seq, 1)))
          \/ /\ IsControl(p) /\ p.flags # "SYN"
             /\ rPhase' = "refused"
             /\ Silent /\ UNCHANGED <<rCount, rSyn>>

\* Back to the head of the loop: another SYNACK, or give up.
RetrySynAck ==
  /\ UNCHANGED <<rSyn, fileVars>>
  /\ IF rCount < ResendMax
     THEN /\ Reply(SynAck(SeqAdd(rSyn, 1)))
          /\ rCount' = rCount + 1
          /\ UNCHANGED rPhase
     ELSE /\ rPhase' = "refused"
          /\ Silent /\ UNCHANGED rCount

RSynTimeout ==
  /\ rPhase = "synrcvd" /\ ShortTimeout
  /\ RetrySynAck
  /\ UNCHANGED <<runVars, toReceiver, faults, sPhase>>

\* The window of the data loop is set up when the ACK arrives.
RConnect ==
  /\ rPhase' = "data"
  /\ rBase' = SeqAdd(rSyn, 1)
  /\ rWindow' = [q \in Window(SeqAdd(rSyn, 1), ReceiverWindow) |-> FALSE]
  /\ Silent /\ UNCHANGED <<rCount, rSyn, rData, written, rOpen>>

\* The ACK must carry seq_num + 1, not reduced.
RSynReceive ==
  /\ rPhase = "synrcvd"
  /\ UNCHANGED <<runVars, faults, sPhase>>
  /\ \E p \in toReceiver :
       /\ Receive(p)
       /\ IF p = Ack(rSyn + 1) THEN RConnect ELSE RetrySynAck

------------------------------------------------------------------------------
(* Receiving the file. *)

\* 5 s of silence end the data loop like a FIN does.
RDataTimeout ==
  /\ rPhase = "data" /\ LongTimeout(~SenderExited)
  /\ rPhase' = "done"
  /\ UNCHANGED <<runVars, netVars, sPhase, receiverVars>>

\* Mutant of AckFor: RBN acknowledges what has just arrived.
AckForArrived(q, expected) == Ack(IF mode = "RBN" THEN SeqAdd(q, 1) ELSE q)

\* RBN acknowledges the next number expected, SR the number received.
AckFor(q, expected) == Ack(IF mode = "RBN" THEN expected ELSE q)

\* Mutant of RDuplicate: the file is opened before the window is looked at.
RDuplicateOpens(q) ==
  /\ rWindow[q] /\ rOpen < FdLimit
  /\ rOpen' = rOpen + 1
  /\ Reply(AckFor(q, rBase))
  /\ UNCHANGED <<rPhase, rCount, rSyn, rBase, rWindow, rData, written>>

\* A packet of the window seen before is only acknowledged again.
RDuplicate(q) ==
  /\ rWindow[q]
  /\ Reply(AckFor(q, rBase))
  /\ UNCHANGED <<rPhase, receiverVars>>

\* Mutant of ReceivedRun: no break at the first packet that is missing.
ReceivedRunWhole(marks, n) == n = ReceiverWindow

\* The n packets from base on have been received, and no more of the window.
ReceivedRun(marks, n) ==
  /\ \A i \in 0 .. n - 1 : marks[SeqAdd(rBase, i)]
  /\ n < ReceiverWindow => ~marks[SeqAdd(rBase, n)]

\* Mutant of RoomFor: the run at base goes through the descriptor just opened.
RoomForOne(q) == rOpen < FdLimit

\* The descriptors that storing a packet takes: one to append it, and at base
\* another, closed again, to write the run.
RoomFor(q) == rOpen + (IF q = rBase THEN 2 ELSE 1) <= FdLimit

\* A new packet of the window.  Every one opens the file and leaves it open;
\* the run at base is written through further, closed, descriptors.
RStore(q, payload) ==
  LET marks  == [rWindow EXCEPT ![q] = TRUE]
      stored == [rData EXCEPT ![q] = payload]
  IN
  /\ ~rWindow[q]
  /\ RoomFor(q)
  /\ rOpen' = rOpen + 1
  /\ UNCHANGED <<rPhase, rCount, rSyn>>
  /\ \E n \in 0 .. ReceiverWindow :
       /\ IF q = rBase THEN n > 0 /\ ReceivedRun(marks, n) ELSE n = 0
       /\ rBase' = SeqAdd(rBase, n)
       /\ rWindow' = [k \in Window(SeqAdd(rBase, n), ReceiverWindow) |->
                        k \in DOMAIN marks /\ marks[k]]
       /\ rData' = [k \in SeqNums |-> IF Offset(rBase, k) < n THEN NoData ELSE stored[k]]
       /\ written' = written \o [i \in 1 .. n |-> stored[SeqAdd(rBase, i - 1)]]
       /\ Reply(AckFor(q, SeqAdd(rBase, n)))

\* fopen returns NULL: LOG_FATAL, or the process dies in fwrite / fclose.
RStoreFails(q) ==
  /\ ~rWindow[q]
  /\ ~RoomFor(q)
  /\ rPhase' = "crashed"
  /\ Silent /\ UNCHANGED receiverVars

\* Mutant of RFin: the FINACK carries the FIN's number plus one, as a SYNACK
\* does.
RFinNext ==
  /\ rPhase' = "finack"
  /\ Reply(FinAck(SeqAdd(rBase, 1)))
  /\ UNCHANGED receiverVars

\* The FIN counts when it carries the next number expected.
RFin ==
  /\ rPhase' = "finack"
  /\ Reply(FinAck(rBase))
  /\ UNCHANGED receiverVars

RDataReceive ==
  /\ rPhase = "data"
  /\ UNCHANGED <<runVars, faults, sPhase>>
  /\ \E p \in toReceiver :
       /\ Receive(p)
       /\ LET q == p.seq % MaxSeqNum IN
            CASE p.flags = "FIN" /\ q = rBase -> RFin
              [] p.flags = "DATA" /\ q \in DOMAIN rWindow ->
                   RDuplicate(q) \/ RStore(q, p.payload) \/ RStoreFails(q)
              [] OTHER -> Silent /\ UNCHANGED <<rPhase, receiverVars>>

------------------------------------------------------------------------------
(* Closing. *)

\* Whatever arrives in the 2 s wait, the FINACK is sent again.
RFinReceive ==
  /\ rPhase = "finack"
  /\ \E p \in toReceiver : Receive(p)
  /\ Reply(FinAck(rBase))
  /\ UNCHANGED <<runVars, faults, sPhase, rPhase, receiverVars>>

RFinTimeout ==
  /\ rPhase = "finack" /\ LongTimeout(sPhase = "fin")
  /\ rPhase' = "done"
  /\ UNCHANGED <<runVars, netVars, sPhase, receiverVars>>

------------------------------------------------------------------------------
ReceiverNext ==
  \/ RListenTimeout \/ RListenReceive
  \/ RSynTimeout \/ RSynReceive
  \/ RDataTimeout \/ RDataReceive
  \/ RFinTimeout \/ RFinReceive
==============================================================================
