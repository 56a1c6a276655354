---------------------------- MODULE RtpOrderProofs ----------------------------
(***************************************************************************)
(* RBN on a network that keeps replies in order: the acknowledgements in   *)
(* flight never step back, so the sender's data loop never meets one that  *)
(* its window does not hold and never ends in LOG_FATAL (sender.cpp:402).  *)
(*                                                                         *)
(* The argument: the receiver acknowledges what it has written, a number   *)
(* that only grows; the network removes replies or turns them into Junk,   *)
(* and the sender takes the first one and counts off no more than it says. *)
(***************************************************************************)
EXTENDS RtpProofs

\* The network may swap replies only where RBN is not run.
Orderly == "reorder" \in Faults => "RBN" \notin Modes

------------------------------------------------------------------------------
(* The queue of replies keeps its order. *)

\* What is left of a sequence stands in the order it stood.
LEMMA RemoveAtOrder ==
  ASSUME NEW S, NEW s \in Seq(S), NEW i \in DOMAIN s
  PROVE  \E f \in [DOMAIN RemoveAt(s, i) -> DOMAIN s] :
           /\ \A j \in DOMAIN RemoveAt(s, i) : RemoveAt(s, i)[j] = s[f[j]] /\ f[j] # i
           /\ \A j, k \in DOMAIN RemoveAt(s, i) : j < k => f[j] < f[k]
<1>1. SubSeq(s, 1, i - 1) \in Seq(S) /\ SubSeq(s, i + 1, Len(s)) \in Seq(S)
  OBVIOUS
<1>2. PICK a \in Seq(S) : a = SubSeq(s, 1, i - 1)
  BY <1>1
<1>3. PICK b \in Seq(S) : b = SubSeq(s, i + 1, Len(s))
  BY <1>1
<1>4. PICK r : r = RemoveAt(s, i)
  OBVIOUS
<1>5. r = a \o b
  BY <1>2, <1>3, <1>4 DEF RemoveAt
<1>6. i \in 1 .. Len(s) /\ Len(s) \in Nat /\ DOMAIN s = 1 .. Len(s)
  OBVIOUS
<1>7. Len(a) = i - 1 /\ \A j \in 1 .. i - 1 : a[j] = s[j]
  BY <1>2, <1>6
<1>8. Len(b) = Len(s) - i /\ \A j \in 1 .. Len(s) - i : b[j] = s[i + j]
  <2>1. Len(b) = Len(s) - i
    BY <1>3, <1>6
  <2>2. ASSUME NEW j \in 1 .. Len(s) - i
        PROVE  b[j] = s[i + j]
    <3>1. j \in 1 .. Len(b) /\ i + 1 + j - 1 = i + j
      BY <1>6, <2>1
    <3>2. b[j] = s[i + 1 + j - 1]
      BY <1>3, <1>6, <2>1, <3>1
    <3>3. QED
      BY <3>1, <3>2
  <2>3. QED
    BY <2>1, <2>2
<1>9. DOMAIN r = 1 .. Len(s) - 1
  <2>1. r \in Seq(S) /\ Len(r) = Len(a) + Len(b)
    BY <1>5
  <2>2. Len(r) = Len(s) - 1
    BY <1>6, <1>7, <1>8, <2>1
  <2>3. QED
    BY <2>1, <2>2
<1>10. PICK f : f = [j \in DOMAIN r |-> IF j < i THEN j ELSE j + 1]
  OBVIOUS
<1>11. f \in [DOMAIN r -> DOMAIN s]
  BY <1>6, <1>9, <1>10
<1>12. ASSUME NEW j \in DOMAIN r
       PROVE  r[j] = s[f[j]] /\ f[j] # i
  <2>1. j \in 1 .. Len(s) - 1 /\ f[j] = IF j < i THEN j ELSE j + 1
    BY <1>9, <1>10
  <2>2. CASE j < i
    BY <1>5, <1>6, <1>7, <2>1, <2>2
  <2>3. CASE j >= i
    <3>1. j - (i - 1) \in 1 .. Len(s) - i /\ i + (j - (i - 1)) = j + 1
      BY <1>6, <2>1, <2>3
    <3>2. r[j] = b[j - (i - 1)]
      BY <1>5, <1>6, <1>7, <1>8, <2>1, <2>3
    <3>3. b[j - (i - 1)] = s[j + 1]
      BY <1>8, <3>1
    <3>4. f[j] = j + 1 /\ f[j] # i
      BY <1>6, <2>1, <2>3
    <3>5. QED
      BY <3>2, <3>3, <3>4
  <2>4. QED
    BY <1>6, <2>1, <2>2, <2>3
<1>13. \A j, k \in DOMAIN r : j < k => f[j] < f[k]
  BY <1>6, <1>9, <1>10
<1>14. QED
  BY <1>4, <1>11, <1>12, <1>13

\* A queue whose acknowledgements are some of those it held, in the same
\* order, and say no less than the new count, is in order.
LEMMA OrderKept ==
  ASSUME AcksInOrder, mode = "RBN", UNCHANGED runVars,
         toSender \in Seq(Packets), toSender' \in Seq(Packets),
         NEW f \in [DOMAIN toSender' -> DOMAIN toSender],
         \A j \in DOMAIN toSender' :
           toSender'[j] = toSender[f[j]] \/ toSender'[j].flags # "ACK",
         \A j, k \in DOMAIN toSender' : j < k => f[j] < f[k],
         \A j \in DOMAIN toSender' : \A n \in 0 .. NumPackets :
           Says(f[j], n) => Confirmed' <= n
  PROVE  AcksInOrder'
<1>1. mode' = mode /\ \A n : PacketSeq(n)' = PacketSeq(n)
  BY SameRun
<1>2. ASSUME NEW j \in DOMAIN toSender', NEW n \in 0 .. NumPackets, Says(j, n)'
      PROVE  f[j] \in DOMAIN toSender /\ Says(f[j], n)
  BY <1>1, <1>2 DEF Says
<1>3. ASSUME NEW i \in DOMAIN toSender', NEW n \in 0 .. NumPackets, Says(i, n)',
             NEW j \in 1 .. i - 1, NEW m \in 0 .. NumPackets, Says(j, m)'
      PROVE  m <= n
  <2>1. j \in DOMAIN toSender' /\ j < i
    BY <1>3
  <2>2. Says(f[i], n) /\ Says(f[j], m) /\ f[i] \in DOMAIN toSender
    BY <1>2, <1>3, <2>1
  <2>3. f[j] \in 1 .. f[i] - 1
    BY <1>3, <2>1
  <2>4. QED
    BY <2>2, <2>3 DEF AcksInOrder
<1>4. ASSUME NEW i \in DOMAIN toSender', NEW n \in 0 .. NumPackets, Says(i, n)'
      PROVE  Confirmed' <= n
  BY <1>2, <1>4
<1>5. QED
  BY <1>3, <1>4 DEF AcksInOrder

\* Nothing in the queue says more than the receiver has written.
LEMMA SaysWritten ==
  ASSUME IInv, mode = "RBN", NEW i \in DOMAIN toSender, NEW n \in 0 .. NumPackets,
         Says(i, n)
  PROVE  n <= Delivered
<1>1. ReplyOK(toSender[i])
  BY DEF IInv, MessagesOK, ToSet
<1>2. PICK m \in 0 .. NumPackets : toSender[i].seq = PacketSeq(m) /\ m <= Delivered
  BY <1>1 DEF ReplyOK, Says
<1>3. TypeOK /\ n \in 0 .. MaxSeqNum - 1 /\ m \in 0 .. MaxSeqNum - 1
  BY CountTypes DEF IInv
<1>4. QED
  BY <1>2, <1>3, PacketSeqInjective DEF Says

\* A reply that says at least what is written may join the queue.
LEMMA ReplyInOrder ==
  ASSUME IInv, AcksInOrder, mode = "RBN", UNCHANGED runVars, Confirmed' = Confirmed,
         NEW p \in Packets, Reply(p),
         \A n \in 0 .. NumPackets : p.flags = "ACK" /\ p.seq = PacketSeq(n) => Delivered <= n
  PROVE  AcksInOrder'
<1>1. toSender \in Seq(Packets) /\ Confirmed <= Delivered /\ Delivered \in Nat
      /\ NumPackets \in Nat /\ Confirmed \in Nat
  <2>1. TypeOK /\ Confirmed <= Delivered
    BY DEF IInv, SenderOK
  <2>2. QED
    BY <2>1, CountTypes, SenderWindowType DEF TypeOK, Delivered
<1>2. mode' = mode /\ \A n : PacketSeq(n)' = PacketSeq(n)
  BY SameRun
<1>3. CASE toSender' = toSender
  BY <1>2, <1>3 DEF AcksInOrder, Says
<1>4. CASE toSender' = Append(toSender, p)
  <2>1. /\ DOMAIN toSender' = 1 .. Len(toSender) + 1 /\ Len(toSender) \in Nat
        /\ \A j \in DOMAIN toSender : toSender'[j] = toSender[j]
        /\ toSender'[Len(toSender) + 1] = p
    BY <1>1, <1>4
  <2>2. ASSUME NEW i \in DOMAIN toSender', NEW n \in 0 .. NumPackets, Says(i, n)'
        PROVE  \/ i \in DOMAIN toSender /\ Says(i, n)
               \/ i = Len(toSender) + 1 /\ Delivered <= n
    <3>1. CASE i \in DOMAIN toSender
      BY <1>2, <2>1, <2>2, <3>1 DEF Says
    <3>2. CASE i = Len(toSender) + 1
      BY <1>2, <2>1, <2>2, <3>2 DEF Says
    <3>3. QED
      BY <1>1, <2>1, <3>1, <3>2
  <2>3. ASSUME NEW i \in DOMAIN toSender', NEW n \in 0 .. NumPackets, Says(i, n)'
        PROVE  Confirmed' <= n
    BY <1>1, <2>2, <2>3 DEF AcksInOrder
  <2>4. ASSUME NEW i \in DOMAIN toSender', NEW n \in 0 .. NumPackets, Says(i, n)',
               NEW j \in 1 .. i - 1, NEW m \in 0 .. NumPackets, Says(j, m)'
        PROVE  m <= n
    <3>1. j \in DOMAIN toSender' /\ j \in DOMAIN toSender
      BY <1>1, <2>1, <2>4
    <3>2. Says(j, m)
      BY <2>1, <2>2, <2>4, <3>1
    <3>3. CASE i \in DOMAIN toSender /\ Says(i, n)
      BY <2>4, <3>2, <3>3 DEF AcksInOrder
    <3>4. CASE Delivered <= n
      <4>1. m <= Delivered
        BY <3>1, <3>2, SaysWritten
      <4>2. QED
        BY <1>1, <3>4, <4>1
    <3>5. QED
      BY <2>2, <2>4, <3>3, <3>4
  <2>5. QED
    BY <2>3, <2>4 DEF AcksInOrder
<1>5. QED
  BY <1>3, <1>4 DEF Reply

------------------------------------------------------------------------------
(* The sender. *)

\* Taking the first reply leaves the others in order; the count may have
\* gone up to what the reply taken said.
LEMMA TakeInOrder ==
  ASSUME IInv, AcksInOrder, mode = "RBN", UNCHANGED runVars, "reorder" \notin Faults,
         NEW i \in Deliverable, TakeReply(i),
         \/ Confirmed' = Confirmed
         \/ \E n \in 0 .. NumPackets :
              Says(i, n) /\ Confirmed' <= n /\ Confirmed' \in Nat
  PROVE  AcksInOrder'
<1>1. TypeOK /\ toSender \in Seq(Packets) /\ i \in DOMAIN toSender /\ i = 1
  BY DEF IInv, TypeOK, Deliverable
<1>2. toSender' = RemoveAt(toSender, i)
  BY NetworkAssumption DEF TakeReply
<1>3. toSender' \in Seq(Packets)
  BY <1>1, TakeReplySubset
<1>4. PICK f \in [DOMAIN toSender' -> DOMAIN toSender] :
        /\ \A j \in DOMAIN toSender' : toSender'[j] = toSender[f[j]] /\ f[j] # i
        /\ \A j, k \in DOMAIN toSender' : j < k => f[j] < f[k]
  BY <1>1, <1>2, RemoveAtOrder
<1>5. ASSUME NEW j \in DOMAIN toSender', NEW n \in 0 .. NumPackets, Says(f[j], n)
      PROVE  Confirmed' <= n
  <2>1. f[j] \in DOMAIN toSender /\ i \in 1 .. f[j] - 1
    BY <1>1, <1>4
  <2>2. Confirmed <= n
    BY <1>5, <2>1 DEF AcksInOrder
  <2>3. CASE \E m \in 0 .. NumPackets :
               Says(i, m) /\ Confirmed' <= m /\ Confirmed' \in Nat
    <3>1. PICK m \in 0 .. NumPackets :
            Says(i, m) /\ Confirmed' <= m /\ Confirmed' \in Nat
      BY <2>3
    <3>2. m <= n
      BY <1>5, <2>1, <3>1 DEF AcksInOrder
    <3>3. NumPackets \in Nat
      BY CountTypes
    <3>4. QED
      BY <3>1, <3>2, <3>3
  <2>4. QED
    BY <2>2, <2>3
<1>6. QED
  BY <1>1, <1>3, <1>4, <1>5, OrderKept

\* RBN's sender finds every acknowledgement in its window: none says less
\* than its base, and none says more than the packets it has read.
LEMMA AckInWindow ==
  ASSUME IInv, AcksInOrder, mode = "RBN", sPhase = "data",
         NEW i \in DOMAIN toSender, toSender[i].flags = "ACK"
  PROVE  \E n \in 0 .. NumPackets : Says(i, n) /\ PacketSeq(n) \in DOMAIN sWindow
<1>1. ReplyOK(toSender[i])
  BY DEF IInv, MessagesOK, ToSet
<1>2. PICK n \in 0 .. NumPackets : toSender[i].seq = PacketSeq(n) /\ n <= Delivered
  BY <1>1 DEF ReplyOK
<1>3. Says(i, n) /\ Confirmed <= n
  BY <1>2 DEF Says, AcksInOrder
<1>4. /\ TypeOK /\ Delivered <= sNext /\ Delivered \in Nat
      /\ sNext = Lesser(NumPackets, Confirmed + SenderWindow)
  BY DEF IInv, SenderOK, ReceiverOK, TypeOK, Delivered
<1>5. NumPackets \in Nat /\ Confirmed \in Nat /\ SenderWindow \in Nat
  BY <1>4, CountTypes, SenderWindowType
<1>6. n <= Confirmed + SenderWindow
  BY <1>2, <1>4, <1>5 DEF Lesser
<1>7. QED
  BY <1>3, <1>6, InSenderWindow

\* What a step of the data loop does to the count, and where it leads.
LEMMA AckTaken ==
  ASSUME IInv, AcksInOrder, mode = "RBN", SDataReceive
  PROVE  /\ sPhase' # "failed"
         /\ \E i \in Deliverable :
              /\ TakeReply(i)
              /\ \/ Confirmed' = Confirmed
                 \/ \E n \in 0 .. NumPackets :
                      Says(i, n) /\ Confirmed' <= n /\ Confirmed' \in Nat
<1>1. TypeOK /\ sPhase = "data"
  BY DEF IInv, SDataReceive
<1>2. PICK i \in Deliverable :
        /\ TakeReply(i)
        /\ IF toSender[i].flags = "ACK" THEN SAckRbn(toSender[i]) \/ SAckSr(toSender[i])
           ELSE UNCHANGED <<toReceiver, sPhase, senderVars>>
  BY DEF SDataReceive
<1>3. CASE toSender[i].flags # "ACK"
  BY <1>1, <1>2, <1>3 DEF senderVars, Confirmed
<1>4. CASE toSender[i].flags = "ACK"
  <2>1. i \in DOMAIN toSender
    BY DEF Deliverable
  <2>2. PICK n \in 0 .. NumPackets : Says(i, n) /\ PacketSeq(n) \in DOMAIN sWindow
    BY <1>1, <1>4, <2>1, AckInWindow
  <2>3. toSender[i].seq = PacketSeq(n)
    BY <2>2 DEF Says
  <2>4. \E marks, last : Slide(RbnSteps(PacketSeq(n)), marks, last)
    BY <1>2, <1>4, <2>2, <2>3 DEF SAckRbn, SAckSr
  <2>5. sRemaining' = sRemaining - RbnSteps(PacketSeq(n)) /\ sPhase' \in {"fin", sPhase}
    BY <2>4 DEF Slide
  <2>6. /\ RbnSteps(PacketSeq(n)) \in 0 .. sRemaining
        /\ Confirmed + RbnSteps(PacketSeq(n)) <= n
    BY <2>2, RbnStepsReach
  <2>7. /\ NumPackets \in Nat /\ Confirmed \in Nat /\ sRemaining \in Nat
        /\ Confirmed = NumPackets - sRemaining
    <3>1. sRemaining \in 0 .. NumPackets /\ NumPackets \in Nat
      BY <1>1, CountTypes DEF TypeOK
    <3>2. QED
      BY <3>1 DEF Confirmed
  <2>8. Confirmed' = Confirmed + RbnSteps(PacketSeq(n))
    <3>1. Confirmed' = NumPackets - sRemaining'
      BY DEF Confirmed
    <3>2. QED
      BY <2>5, <2>6, <2>7, <3>1
  <2>9. Confirmed' <= n /\ Confirmed' \in Nat
    BY <2>6, <2>7, <2>8
  <2>10. QED
    BY <1>1, <1>2, <2>2, <2>5, <2>9
<1>5. QED
  BY <1>3, <1>4

\* No step of the sender disturbs the order of what is left in its queue.
LEMMA SenderInOrder ==
  ASSUME IInv, AcksInOrder, mode = "RBN", "reorder" \notin Faults, Sender
  PROVE  AcksInOrder'
<1>1. UNCHANGED runVars
  BY DEF Sender, SenderNext, SStart, SSynTimeout, SSynReceive, SSynWaitReceive,
         SSynWaitTimeout, SDataTimeout, SDataReceive, SFinTimeout, SFinReceive,
         SFinWaitReceive, SFinWaitTimeout
<1>2. CASE toSender' = toSender /\ Confirmed' = Confirmed
  <2>1. mode' = mode /\ \A n : PacketSeq(n)' = PacketSeq(n)
    BY <1>1, SameRun
  <2>2. QED
    BY <1>2, <2>1 DEF AcksInOrder, Says
<1>3. CASE SStart \/ SSynTimeout \/ SDataTimeout
  BY <1>2, <1>3 DEF SStart, SSynTimeout, SDataTimeout, RetrySyn, senderVars, transferVars,
                    Confirmed
<1>4. CASE SSynWaitTimeout
  BY <1>2, <1>4 DEF SSynWaitTimeout, OpenWindow, SkipFile, senderVars, Confirmed
<1>5. CASE SFinTimeout \/ SFinWaitTimeout
  BY <1>2, <1>5 DEF SFinTimeout, SFinWaitTimeout, RetryFin, senderVars, transferVars,
                    netVars, Confirmed
<1>6. CASE SSynReceive \/ SSynWaitReceive \/ SFinReceive \/ SFinWaitReceive
  <2>1. PICK i \in Deliverable : TakeReply(i)
    BY <1>6 DEF SSynReceive, SSynWaitReceive, SFinReceive, SFinWaitReceive
  <2>2. sRemaining' = sRemaining
    BY <1>6 DEF SSynReceive, SSynWaitReceive, SFinReceive, SFinWaitReceive, RetrySyn,
                RetryFinSend, RetryFin, senderVars, transferVars
  <2>3. Confirmed' = Confirmed
    BY <2>2 DEF Confirmed
  <2>4. QED
    BY <1>1, <2>1, <2>3, TakeInOrder
<1>7. CASE SDataReceive
  BY <1>1, <1>7, AckTaken, TakeInOrder
<1>8. QED
  BY <1>3, <1>4, <1>5, <1>6, <1>7 DEF Sender, SenderNext

------------------------------------------------------------------------------
(* The receiver and the network. *)

\* RBN's receiver sends no reply, or one that names what it has then written.
LEMMA ReceiverSays ==
  ASSUME IInv, IInv', mode = "RBN", Receiver
  PROVE  \/ toSender' = toSender
         \/ \E p \in Packets : Reply(p) /\ (p.flags = "ACK" => p.seq = PacketSeq(Delivered)')
<1>1. TypeOK /\ TypeOK'
  BY DEF IInv
<1>2. ASSUME NEW s \in Nat
      PROVE  /\ SynAck(s) \in Packets /\ SynAck(s).flags # "ACK"
             /\ FinAck(s) \in Packets /\ FinAck(s).flags # "ACK"
             /\ Ack(s) \in Packets /\ Ack(s).seq = s
  BY PacketTypes DEF SynAck, FinAck, Ack
<1>3. rBase \in Nat /\ rBase' \in Nat /\ rSyn \in Nat
  BY <1>1 DEF TypeOK, SeqNums
<1>4. ASSUME NEW s \in Nat
      PROVE  SeqAdd(s, 1) \in Nat
  BY SeqAddType DEF SeqNums
<1>5. CASE RListenTimeout \/ RDataTimeout \/ RFinTimeout
  BY <1>5 DEF RListenTimeout, RDataTimeout, RFinTimeout, netVars
<1>6. CASE RListenReceive
  <2>1. PICK p \in toReceiver : Silent \/ Reply(SynAck(SeqAdd(p.seq, 1)))
    BY <1>6 DEF RListenReceive
  <2>2. p.seq \in Nat
    BY <1>1 DEF TypeOK, Packets
  <2>3. QED
    BY <1>2, <1>4, <2>1, <2>2 DEF Silent
<1>7. CASE RSynTimeout \/ RSynReceive
  <2>1. Silent \/ Reply(SynAck(SeqAdd(rSyn, 1)))
    BY <1>7 DEF RSynTimeout, RSynReceive, RetrySynAck, RConnect
  <2>2. QED
    BY <1>2, <1>3, <1>4, <2>1 DEF Silent
<1>8. CASE RFinReceive
  BY <1>2, <1>3, <1>8 DEF RFinReceive
<1>9. CASE RDataReceive
  <2>1. rPhase = "data"
    BY <1>9 DEF RDataReceive
  <2>2. PICK p \in toReceiver :
         LET q == p.seq % MaxSeqNum IN
           CASE p.flags = "FIN" /\ q = rBase -> RFin
             [] p.flags = "DATA" /\ q \in DOMAIN rWindow ->
                  RDuplicate(q) \/ RStore(q, p.payload) \/ RStoreFails(q)
             [] OTHER -> Silent /\ UNCHANGED <<rPhase, receiverVars>>
    BY <1>9 DEF RDataReceive
  <2>3. PICK q : q = p.seq % MaxSeqNum
    OBVIOUS
  <2>4. \/ RFin \/ RDuplicate(q) \/ RStore(q, p.payload) \/ Silent
    BY <2>2, <2>3 DEF RStoreFails
  <2>5. CASE RFin
    BY <1>2, <1>3, <2>5 DEF RFin
  <2>6. CASE RDuplicate(q) \/ RStore(q, p.payload)
    <3>1. rPhase' = "data"
      BY <2>1, <2>6 DEF RDuplicate, RStore
    <3>2. rBase' = PacketSeq(Delivered)'
      BY <3>1 DEF IInv, ReceiverOK, Connected
    <3>3. Reply(AckFor(q, rBase'))
      <4>1. CASE RDuplicate(q)
        BY <4>1 DEF RDuplicate, receiverVars
      <4>2. CASE RStore(q, p.payload)
        <5>1. PICK n \in 0 .. ReceiverWindow :
                rBase' = SeqAdd(rBase, n) /\ Reply(AckFor(q, SeqAdd(rBase, n)))
          BY <4>2 DEF RStore
        <5>2. QED
          BY <5>1
      <4>3. QED
        BY <2>6, <4>1, <4>2
    <3>4. AckFor(q, rBase') = Ack(rBase')
      BY DEF AckFor
    <3>5. QED
      BY <1>2, <1>3, <3>2, <3>3, <3>4
  <2>7. QED
    BY <2>4, <2>5, <2>6 DEF Silent
<1>10. QED
  BY <1>5, <1>6, <1>7, <1>8, <1>9 DEF Receiver, ReceiverNext

LEMMA ReceiverInOrder ==
  ASSUME IInv, IInv', AcksInOrder, mode = "RBN", Receiver
  PROVE  AcksInOrder'
<1>1. UNCHANGED runVars
  BY DEF Receiver, ReceiverNext, RListenTimeout, RListenReceive, RSynTimeout,
         RSynReceive, RDataTimeout, RDataReceive, RFinTimeout, RFinReceive
<1>2. Confirmed' = Confirmed
  BY DEF Receiver, senderVars, Confirmed
<1>3. mode' = mode /\ \A n : PacketSeq(n)' = PacketSeq(n)
  BY <1>1, SameRun
<1>4. CASE toSender' = toSender
  BY <1>2, <1>3, <1>4 DEF AcksInOrder, Says
<1>5. CASE \E p \in Packets :
             Reply(p) /\ (p.flags = "ACK" => p.seq = PacketSeq(Delivered)')
  <2>1. PICK p \in Packets :
          Reply(p) /\ (p.flags = "ACK" => p.seq = PacketSeq(Delivered)')
    BY <1>5
  <2>2. PICK d : d = Delivered'
    OBVIOUS
  <2>3. d \in Nat /\ Delivered <= d /\ d <= sNext' /\ sNext' \in 0 .. NumPackets
    BY <2>2, ReceiverProgress DEF IInv, TypeOK, ReceiverOK
  <2>4. TypeOK /\ Delivered \in Nat /\ NumPackets \in Nat /\ MaxSeqNum \in Nat
        /\ NumPackets < MaxSeqNum
    <3>1. TypeOK /\ Delivered \in Nat
      BY DEF IInv, TypeOK, Delivered
    <3>2. QED
      BY <3>1, CountTypes
  <2>5. PacketSeq(Delivered)' = PacketSeq(d)
    <3>1. First' = First
      BY <1>1, SameRun
    <3>2. QED
      BY <2>2, <3>1 DEF PacketSeq
  <2>6. ASSUME NEW n \in 0 .. NumPackets, p.flags = "ACK", p.seq = PacketSeq(n)
        PROVE  Delivered <= n
    <3>1. PacketSeq(n) = PacketSeq(d)
      BY <2>1, <2>5, <2>6
    <3>2. n \in 0 .. MaxSeqNum - 1 /\ d \in 0 .. MaxSeqNum - 1
      BY <2>3, <2>4
    <3>3. n = d
      BY <2>4, <3>1, <3>2, PacketSeqInjective
    <3>4. QED
      BY <2>3, <3>3
  <2>7. QED
    BY <1>1, <1>2, <2>1, <2>6, ReplyInOrder
<1>6. QED
  BY <1>4, <1>5, ReceiverSays

LEMMA NetworkInOrder ==
  ASSUME IInv, IInv', AcksInOrder, mode = "RBN", Network
  PROVE  AcksInOrder'
<1>1. UNCHANGED runVars /\ Confirmed' = Confirmed
  BY DEF Network, NetworkFault, LoseDatagram, CorruptDatagram, LoseReply, CorruptReply,
         Fault, senderVars, Confirmed
<1>2. mode' = mode /\ \A n : PacketSeq(n)' = PacketSeq(n)
  BY <1>1, SameRun
<1>3. toSender \in Seq(Packets) /\ toSender' \in Seq(Packets)
  BY DEF IInv, TypeOK
<1>4. \A j \in DOMAIN toSender : \A n \in 0 .. NumPackets : Says(j, n) => Confirmed' <= n
  BY <1>1 DEF AcksInOrder
<1>5. CASE LoseDatagram \/ CorruptDatagram
  <2>1. toSender' = toSender
    BY <1>5 DEF LoseDatagram, CorruptDatagram
  <2>2. QED
    BY <1>1, <1>2, <2>1 DEF AcksInOrder, Says
<1>6. CASE LoseReply
  <2>1. PICK i \in DOMAIN toSender : toSender' = RemoveAt(toSender, i)
    BY <1>6 DEF LoseReply
  <2>2. PICK f \in [DOMAIN toSender' -> DOMAIN toSender] :
          /\ \A j \in DOMAIN toSender' : toSender'[j] = toSender[f[j]]
          /\ \A j, k \in DOMAIN toSender' : j < k => f[j] < f[k]
    BY <1>3, <2>1, RemoveAtOrder
  <2>3. QED
    BY <1>1, <1>3, <1>4, <2>2, OrderKept
<1>7. CASE CorruptReply
  <2>1. PICK i \in DOMAIN toSender : toSender' = [toSender EXCEPT ![i] = Junk]
    BY <1>7 DEF CorruptReply
  <2>2. PICK f \in [DOMAIN toSender' -> DOMAIN toSender] :
          f = [j \in DOMAIN toSender' |-> j]
    BY <2>1
  <2>3. ASSUME NEW j \in DOMAIN toSender'
        PROVE  toSender'[j] = toSender[f[j]] \/ toSender'[j].flags # "ACK"
    BY <2>1, <2>2 DEF Junk
  <2>4. \A j, k \in DOMAIN toSender' : j < k => f[j] < f[k]
    BY <2>2
  <2>5. QED
    BY <1>1, <1>3, <1>4, <2>3, <2>4, OrderKept
<1>8. QED
  BY <1>5, <1>6, <1>7 DEF Network, NetworkFault

------------------------------------------------------------------------------
(* The theorems. *)

LEMMA OrderStep ==
  ASSUME Orderly, IInv, IInv', AcksInOrder, [Next]_vars
  PROVE  AcksInOrder'
<1>1. CASE UNCHANGED vars
  <2>1. UNCHANGED <<runVars, toSender, senderVars>>
    BY <1>1 DEF vars, netVars
  <2>2. mode' = mode /\ (\A n : PacketSeq(n)' = PacketSeq(n)) /\ Confirmed' = Confirmed
    BY <2>1, SameRun DEF senderVars, Confirmed
  <2>3. QED
    BY <2>1, <2>2 DEF AcksInOrder, Says
<1>2. CASE mode # "RBN"
  <2>1. UNCHANGED runVars
    <3>1. CASE Sender
      BY <3>1 DEF Sender, SenderNext, SStart, SSynTimeout, SSynReceive, SSynWaitReceive,
         SSynWaitTimeout, SDataTimeout, SDataReceive, SFinTimeout, SFinReceive,
         SFinWaitReceive, SFinWaitTimeout
    <3>2. CASE Receiver
      BY <3>2 DEF Receiver, ReceiverNext, RListenTimeout, RListenReceive, RSynTimeout,
         RSynReceive, RDataTimeout, RDataReceive, RFinTimeout, RFinReceive
    <3>3. CASE Network
      BY <3>3 DEF Network, NetworkFault, LoseDatagram, CorruptDatagram, LoseReply,
         CorruptReply, Fault
    <3>4. CASE UNCHANGED vars
      BY <3>4 DEF vars
    <3>5. QED
      BY <3>1, <3>2, <3>3, <3>4 DEF Next, Finished
  <2>2. QED
    BY <1>2, <2>1 DEF runVars, AcksInOrder
<1>3. CASE mode = "RBN" /\ ~UNCHANGED vars
  <2>1. "reorder" \notin Faults
    BY <1>3 DEF Orderly, IInv, TypeOK
  <2>2. QED
    BY <1>3, <2>1, SenderInOrder, ReceiverInOrder, NetworkInOrder DEF Next, Finished
<1>4. QED
  BY <1>1, <1>2, <1>3

\* Where replies are not swapped, RBN's acknowledgements (receiver.cpp:426)
\* reach the sender in the order of what they say, and say no less than it
\* has counted off, whatever is lost or corrupted and whenever timers fire.
THEOREM OrderTheorem == Orderly /\ Spec => []AcksInOrder
<1> DEFINE J == Orderly /\ AcksInOrder
<1>1. Orderly /\ Init => J
  BY DEF Init, NetworkInit, AcksInOrder
<1>2. J /\ IInv /\ IInv' /\ [Next]_vars => J'
  BY OrderStep DEF Orderly
<1>3. J => AcksInOrder
  OBVIOUS
<1> HIDE DEF J
<1>4. QED
  BY <1>1, <1>2, <1>3, Invariance, PTL DEF Spec

\* There a sender in its data loop never meets LOG_FATAL (sender.cpp:402).
THEOREM NoAbortTheorem == Orderly /\ Spec => NoAbort
<1> DEFINE A == sPhase = "data" => sPhase' # "failed"
<1>1. IInv /\ AcksInOrder /\ [Next]_vars => [A]_vars
  <2>1. SUFFICES ASSUME IInv, AcksInOrder, Next, sPhase = "data"
                 PROVE  sPhase' # "failed"
    OBVIOUS
  <2>2. CASE Receiver \/ Network \/ Finished
    BY <2>1, <2>2 DEF Receiver, ReceiverNext, RListenTimeout, RListenReceive, RSynTimeout,
       RSynReceive, RDataTimeout, RDataReceive, RFinTimeout, RFinReceive, Network,
       NetworkFault, LoseDatagram, CorruptDatagram, LoseReply, CorruptReply, Fault,
       Finished, vars
  <2>3. CASE Sender /\ ~SDataReceive
    BY <2>1, <2>3 DEF Sender, SenderNext, SStart, SSynTimeout, SSynReceive, SSynWaitReceive,
       SSynWaitTimeout, SDataTimeout, SFinTimeout, SFinReceive, SFinWaitReceive,
       SFinWaitTimeout
  <2>4. CASE SDataReceive /\ mode = "RBN"
    BY <2>1, <2>4, AckTaken
  <2>5. CASE SDataReceive /\ mode # "RBN"
    BY <2>1, <2>5 DEF SDataReceive, SAckRbn, SAckSr, SAckBase, SAckMark, Slide
  <2>6. QED
    BY <2>1, <2>2, <2>3, <2>4, <2>5 DEF Next
<1>2. QED
  BY <1>1, Invariance, OrderTheorem, PTL DEF Spec, NoAbort

==============================================================================
