------------------------------ MODULE RtpSender ------------------------------
(***************************************************************************)
(* sender.cpp: the three-way handshake, the data loop of both modes (RBN,  *)
(* go-back-N, and SR, selective repeat) and the closing handshake.         *)
(*                                                                         *)
(* sPhase names the select() the process is blocked in:                    *)
(*   start     main has not sent its first SYN                             *)
(*   syn       SYN sent, 100 ms for the SYNACK                             *)
(*   synwait   SYNACK received and acknowledged, 2 s for a repeated one    *)
(*   data      100 ms for an ACK                                           *)
(*   fin       FIN sent, 100 ms for the FINACK                             *)
(*   finwait   FINACK received, 2 s for a repeated one                     *)
(*   done      "File sent successfully", exit                              *)
(*   failed    LOG_FATAL                                                   *)
(***************************************************************************)
EXTENDS RtpNetwork

VARIABLES
  sCount,      \* send_iter_count in phase syn, counter in fin and finwait
  sBase,       \* base
  sWindow,     \* window: RBN packet sent, SR packet acknowledged
  sData,       \* data: the stored payloads; an absent key reads as ""
  sNext,       \* chunks read from the file so far (the FILE position)
  sRemaining,  \* num_packets, counted down as packets are acknowledged
  sLast        \* last_seq_num

senderVars == <<sCount, sBase, sWindow, sData, sNext, sRemaining, sLast>>
transferVars == <<sBase, sWindow, sData, sNext, sRemaining, sLast>>

\* base before anything is acknowledged.
First == SeqAdd(initSeq, 1)

\* window_size: RBN shrinks it to the number of packets.
SenderWindow ==
  IF mode = "RBN" THEN Lesser(NumPackets, SenderWindowArg) ELSE SenderWindowArg

\* Mutant of SenderKeys: RBN's loop stops at i < window_size.
SenderKeysNoEdge(b) == Window(b, SenderWindow)

\* The keys of window when base is b: RBN keeps one key past the window.
SenderKeys(b) == Window(b, IF mode = "RBN" THEN SenderWindow + 1 ELSE SenderWindow)

SenderInit ==
  /\ sPhase = "start"
  /\ sCount = 0
  /\ sBase = First
  /\ sWindow = [q \in SenderKeys(First) |-> FALSE]
  /\ sData = [q \in SeqNums |-> NoData]
  /\ sNext = 0
  /\ sRemaining = NumPackets
  /\ sLast = 0

------------------------------------------------------------------------------
(* Sending. *)

\* n calls of send_packet_rbn / send_packet_sr on consecutive numbers from s.
NewPackets(s, n) == {Data(SeqAdd(s, i), Chunk(sNext + i)) : i \in 0 .. n - 1}

ReadChunks(s, n) ==
  /\ sNext' = sNext + n
  /\ sData' = [q \in SeqNums |-> IF Offset(s, q) < n
                                 THEN Chunk(sNext + Offset(s, q)) ELSE sData[q]]

\* Mutant of ResendFlag: both modes resend what is not marked.
ResendFlagSwapped == FALSE

\* The flag that asks for a resend: RBN resends what was sent, SR what was
\* not acknowledged.
ResendFlag == mode = "RBN"

\* Mutant of ToResend: the loop stops one short of the window.
ToResendShort ==
  {q \in Window(sBase, SenderWindow - 1) :
     sWindow[q] = ResendFlag /\ sData[q] # NoData}

\* The numbers the data loop sends again after a timeout.
ToResend ==
  {q \in Window(sBase, SenderWindow) : sWindow[q] = ResendFlag /\ sData[q] # NoData}

\* The loop of send_stored_data over the window.
StoredPackets == {Data(q, sData[q]) : q \in ToResend}

------------------------------------------------------------------------------
(* Connecting. *)

SStart ==
  /\ sPhase = "start"
  /\ sPhase' = "syn"
  /\ Send({Syn(initSeq)})
  /\ UNCHANGED <<runVars, toSender, faults, rPhase, senderVars>>

\* Mutant of RetrySyn: the repetition is not counted.
RetrySynUncounted ==
  /\ sPhase' = "syn" /\ Send({Syn(initSeq)})
  /\ UNCHANGED senderVars

\* count++ and continue: the loop sends the SYN again or gives up.
RetrySyn ==
  /\ sCount' = sCount + 1
  /\ IF sCount + 1 < ResendMax
     THEN sPhase' = "syn" /\ Send({Syn(initSeq)})
     ELSE sPhase' = "failed" /\ Send({})
  /\ UNCHANGED transferVars

SSynTimeout ==
  /\ sPhase = "syn" /\ ShortTimeout
  /\ RetrySyn
  /\ UNCHANGED <<runVars, toSender, faults, rPhase>>

\* The SYNACK must carry init_seq_num + 1, which is not reduced here.
SSynReceive ==
  /\ sPhase = "syn"
  /\ UNCHANGED <<runVars, faults, rPhase>>
  /\ \E i \in Deliverable :
       /\ TakeReply(i)
       /\ LET p == toSender[i] IN
            \/ /\ ~IsControl(p)
               /\ RetrySyn
            \/ /\ IsControl(p)
               /\ ~(p.flags = "SYNACK" /\ p.seq = initSeq + 1)
               /\ Send({Syn(initSeq)})
               /\ UNCHANGED <<sPhase, senderVars>>
            \/ /\ p.flags = "SYNACK" /\ p.seq = initSeq + 1
               /\ sPhase' = "synwait"
               /\ Send({Ack(initSeq + 1)})
               /\ UNCHANGED senderVars

\* Whatever arrives in the 2 s wait, the ACK is sent again.
SSynWaitReceive ==
  /\ sPhase = "synwait"
  /\ \E i \in Deliverable : TakeReply(i)
  /\ Send({Ack(initSeq + 1)})
  /\ UNCHANGED <<runVars, faults, sPhase, rPhase, senderVars>>

------------------------------------------------------------------------------
(* Sending the file. *)

\* The first window, then the first burst of the data loop, which repeats
\* those packets at once.  SR stops at num_packets, RBN's window is that small.
FirstSends == Lesser(NumPackets, SenderWindow)

OpenWindow ==
  /\ sPhase' = "data"
  /\ ReadChunks(sBase, FirstSends)
  /\ Send(NewPackets(sBase, FirstSends))
  /\ sWindow' = [q \in SenderKeys(sBase) |->
                   mode = "RBN" /\ Offset(sBase, q) < FirstSends]
  /\ UNCHANGED <<sCount, sBase, sRemaining, sLast>>

\* num_packets wrapped to 0: the loop is left before last_seq_num is set,
\* so the FIN carries whatever the uninitialised variable holds.
SkipFile ==
  /\ sPhase' = "fin"
  /\ sCount' = 0
  /\ \E garbage \in Uint32 : sLast' = garbage /\ Send({Fin(garbage)})
  /\ UNCHANGED <<sBase, sWindow, sData, sNext, sRemaining>>

\* 2 s without a repeated SYNACK: connected, the file is opened and measured;
\* a missing or empty file is LOG_FATAL.
SSynWaitTimeout ==
  /\ sPhase = "synwait" /\ LongTimeout(rPhase = "synrcvd")
  /\ UNCHANGED <<runVars, toSender, faults, rPhase>>
  /\ \/ /\ FileSize = 0 \/ "nofile" \in Faults
        /\ sPhase' = "failed"
        /\ UNCHANGED <<toReceiver, senderVars>>
     \/ /\ FileSize > 0 /\ NumPackets > 0
        /\ OpenWindow
     \/ /\ FileSize > 0 /\ NumPackets = 0
        /\ SkipFile

\* 100 ms without an ACK: everything the window asks for is sent again.
SDataTimeout ==
  /\ sPhase = "data" /\ ShortTimeout
  /\ Send(StoredPackets)
  /\ UNCHANGED <<runVars, toSender, faults, sPhase, rPhase, senderVars>>

\* Mutant of Fresh: each step reads and sends a packet.
FreshUnguarded(n) == n

\* How many of the n packets that enter the window are read and sent: those
\* for which num_packets >= window_size after the step.
Fresh(n) == Lesser(n, sRemaining - Lesser(sRemaining, SenderWindow))

\* The window moves n packets on; marks says which of its keys are set.  When
\* num_packets reaches 0 the data loop is left for the closing handshake,
\* whose FIN carries last.
Slide(n, marks, last) ==
  LET fresh   == Fresh(n)
      newBase == SeqAdd(sBase, n)
      edge    == SeqAdd(sBase, SenderWindow)
  IN
  /\ sBase' = newBase
  /\ sRemaining' = sRemaining - n
  /\ ReadChunks(edge, fresh)
  /\ sWindow' = [q \in SenderKeys(newBase) |->
                   IF Offset(edge, q) < fresh THEN mode = "RBN"
                   ELSE q \in DOMAIN marks /\ marks[q]]
  /\ IF n = sRemaining
     THEN /\ sPhase' = "fin" /\ sCount' = 0 /\ sLast' = last
          /\ Send(NewPackets(edge, fresh) \cup {Fin(last)})
     ELSE /\ Send(NewPackets(edge, fresh))
          /\ UNCHANGED <<sPhase, sCount, sLast>>

\* Mutant of RbnSteps: while (base <= seq_num).
RbnStepsPast(seq) == IF sBase <= seq THEN Lesser(seq - sBase + 1, sRemaining) ELSE 0

\* while (base < seq_num), a comparison of the numbers themselves.
RbnSteps(seq) == IF sBase < seq THEN Lesser(seq - sBase, sRemaining) ELSE 0

\* RBN: a cumulative acknowledgement; one out of the window is LOG_FATAL.
SAckRbn(p) ==
  /\ mode = "RBN"
  /\ \/ /\ p.seq \notin DOMAIN sWindow
        /\ sPhase' = "failed"
        /\ UNCHANGED <<toReceiver, senderVars>>
     \/ /\ p.seq \in DOMAIN sWindow
        /\ Slide(RbnSteps(p.seq), sWindow, p.seq)

\* Mutant of AckedRun: the whole window leaves, acknowledged or not.
AckedRunAll(marks, n) == n = Lesser(SenderWindow, sRemaining)

\* The loop while (window[base]) runs n times.
AckedRun(marks, n) ==
  LET room == Lesser(SenderWindow, sRemaining) IN
  /\ \A i \in 0 .. n - 1 : marks[SeqAdd(sBase, i)]
  /\ n < room => ~marks[SeqAdd(sBase, n)]

\* SR, base acknowledged: the run of acknowledged packets leaves the window.
\* The last sequence number, seq_num + 1 + counter, is not reduced.
SAckBase(p) ==
  LET marks == [sWindow EXCEPT ![p.seq] = TRUE] IN
  /\ p.seq = sBase
  /\ \E n \in 1 .. Lesser(SenderWindow, sRemaining) :
       AckedRun(marks, n) /\ Slide(n, marks, p.seq + n)

\* Mutant of SAckMark: the mark goes to base.
SAckMarkBase(p) ==
  /\ p.seq # sBase
  /\ sWindow' = [sWindow EXCEPT ![sBase] = TRUE]
  /\ UNCHANGED <<toReceiver, sPhase, sCount, sBase, sData, sNext, sRemaining, sLast>>

\* SR: another packet of the window is marked; anything else is ignored.
SAckMark(p) ==
  /\ p.seq # sBase
  /\ sWindow' = [sWindow EXCEPT ![p.seq] = TRUE]
  /\ UNCHANGED <<toReceiver, sPhase, sCount, sBase, sData, sNext, sRemaining, sLast>>

SAckSr(p) ==
  /\ mode = "SR"
  /\ IF p.seq \in DOMAIN sWindow /\ ~sWindow[p.seq]
     THEN SAckBase(p) \/ SAckMark(p)
     ELSE UNCHANGED <<toReceiver, sPhase, senderVars>>

SDataReceive ==
  /\ sPhase = "data"
  /\ UNCHANGED <<runVars, faults, rPhase>>
  /\ \E i \in Deliverable :
       /\ TakeReply(i)
       /\ LET p == toSender[i] IN
            IF p.flags = "ACK" THEN SAckRbn(p) \/ SAckSr(p)
            ELSE UNCHANGED <<toReceiver, sPhase, senderVars>>

------------------------------------------------------------------------------
(* Closing. *)

\* counter++ and continue: the loop sends the FIN again or is left.
RetryFin ==
  /\ sCount' = sCount + 1
  /\ sPhase' = IF sCount + 1 < ResendMax THEN "fin" ELSE "done"
  /\ UNCHANGED transferVars

\* The timeout branch sends a FIN of its own before the loop sends the next.
SFinTimeout ==
  /\ sPhase = "fin" /\ ShortTimeout
  /\ RetryFin
  /\ Send({Fin(sLast)})
  /\ UNCHANGED <<runVars, toSender, faults, rPhase>>

RetryFinSend ==
  /\ RetryFin
  /\ Send(IF sCount + 1 < ResendMax THEN {Fin(sLast)} ELSE {})

\* Mutant of FinAcked: the flags are not tested.
FinAckedAnyFlags(p) == IsControl(p) /\ p.seq = sLast

\* The datagram passes every test the closing loop makes.
FinAcked(p) == p = FinAck(sLast)

SFinReceive ==
  /\ sPhase = "fin"
  /\ UNCHANGED <<runVars, faults, rPhase>>
  /\ \E i \in Deliverable :
       /\ TakeReply(i)
       /\ IF FinAcked(toSender[i])
          THEN sPhase' = "finwait" /\ UNCHANGED <<toReceiver, senderVars>>
          ELSE RetryFinSend

SFinWaitReceive ==
  /\ sPhase = "finwait"
  /\ \E i \in Deliverable : TakeReply(i)
  /\ RetryFinSend
  /\ UNCHANGED <<runVars, faults, rPhase>>

SFinWaitTimeout ==
  /\ sPhase = "finwait" /\ LongTimeout(FALSE)
  /\ sPhase' = "done"
  /\ UNCHANGED <<runVars, netVars, rPhase, senderVars>>

------------------------------------------------------------------------------
SenderNext ==
  \/ SStart \/ SSynTimeout \/ SSynReceive
  \/ SSynWaitReceive \/ SSynWaitTimeout
  \/ SDataTimeout \/ SDataReceive
  \/ SFinTimeout \/ SFinReceive \/ SFinWaitReceive \/ SFinWaitTimeout
==============================================================================
