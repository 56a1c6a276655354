------------------------------ MODULE RtpProofs ------------------------------
(***************************************************************************)
(* The safety theorems of the RTP model, for every file, every window,     *)
(* both modes and every network the constants describe.                    *)
(*                                                                         *)
(* The argument: IInv (RtpInvariant) holds initially and is preserved by   *)
(* each step.  Most steps of a process leave its windows and files alone   *)
(* and only move packets; SenderFrame and ReceiverFrame treat all of those *)
(* at once.  What is left is the opening of the sender's window, its       *)
(* sliding on an acknowledgement, and the receiver's connecting and        *)
(* storing of a packet.  The descriptors the receiver has left open are    *)
(* then counted by the packets it has stored, and the numbers of the       *)
(* closing handshake found by FinInv on top of IInv.                       *)
(***************************************************************************)
EXTENDS RtpInvariant, RtpArithmetic, FiniteSetTheorems

------------------------------------------------------------------------------
(* Packet numbers. *)

\* The first packet's number, and every other's, is a sequence number.
LEMMA PacketSeqType ==
  ASSUME TypeOK
  PROVE  /\ First \in SeqNums
         /\ \A n \in Nat : PacketSeq(n) \in SeqNums
         /\ PacketSeq(0) = First
<1>1. initSeq \in Nat
  BY RunAssumption DEF TypeOK
<1>2. First \in SeqNums
  BY <1>1, SeqAddType DEF First
<1>3. First \in Nat
  BY <1>2 DEF SeqNums
<1>4. QED
  BY <1>2, <1>3, SeqAddType, SeqAddZero DEF PacketSeq

\* Different packets within a lap have different numbers.
LEMMA PacketSeqInjective ==
  ASSUME TypeOK, NEW a \in 0 .. MaxSeqNum - 1, NEW b \in 0 .. MaxSeqNum - 1,
         PacketSeq(a) = PacketSeq(b)
  PROVE  a = b
BY PacketSeqType, SeqAddInjective DEF PacketSeq

LEMMA PacketSeqSum ==
  ASSUME TypeOK, NEW a \in Nat, NEW b \in Nat, a + b <= MaxSeqNum
  PROVE  SeqAdd(PacketSeq(a), b) = PacketSeq(a + b)
BY PacketSeqType, SeqAddSum DEF PacketSeq

\* Every sequence number is the number of some packet within a lap.
LEMMA PacketSeqOnto ==
  ASSUME TypeOK, NEW q \in SeqNums
  PROVE  \E n \in 0 .. MaxSeqNum - 1 : q = PacketSeq(n)
BY PacketSeqType, SurjectiveSeqAdd DEF PacketSeq

LEMMA PacketInWindow ==
  ASSUME TypeOK, NEW e \in Nat, NEW w \in Nat, e + w <= MaxSeqNum,
         NEW n \in 0 .. MaxSeqNum - 1
  PROVE  PacketSeq(n) \in Window(PacketSeq(e), w) <=> e <= n /\ n < e + w
BY PacketSeqType, WindowMember DEF PacketSeq

LEMMA PacketInBlock ==
  ASSUME TypeOK, NEW e \in 0 .. MaxSeqNum - 1, NEW m \in Nat,
         e + m <= MaxSeqNum, NEW n \in 0 .. MaxSeqNum - 1
  PROVE  /\ Offset(PacketSeq(e), PacketSeq(n)) < m <=> e <= n /\ n < e + m
         /\ e <= n => Offset(PacketSeq(e), PacketSeq(n)) = n - e
BY PacketSeqType, OffsetInBlock DEF PacketSeq

\* The sender's window is at least one packet wide when there are packets,
\* and fits, with a packet to spare, ahead of any packet of the file.
LEMMA SenderWindowType ==
  ASSUME TypeOK
  PROVE  /\ SenderWindow \in Nat
         /\ SenderWindow + U16 <= MaxSeqNum
         /\ NumPackets > 0 => SenderWindow > 0
         /\ Confirmed \in 0 .. NumPackets /\ NumPackets \in 0 .. U16 - 1
         /\ Confirmed + sRemaining = NumPackets
<1>1. /\ NumPackets \in 0 .. U16 - 1 /\ U16 \in Nat /\ MaxSeqNum \in Nat
      /\ 2 * U16 <= MaxSeqNum
  BY CountTypes, SeqAssumption
<1>2. SenderWindowArg \in Nat \ {0} /\ SenderWindowArg + U16 <= MaxSeqNum
  BY WindowAssumption
<1>3. SenderWindow \in {Lesser(NumPackets, SenderWindowArg), SenderWindowArg}
  BY DEF SenderWindow
<1>4. sRemaining \in 0 .. NumPackets
  BY DEF TypeOK
<1>5. QED
  BY <1>1, <1>2, <1>3, <1>4 DEF Lesser, Confirmed

------------------------------------------------------------------------------
(* The queue of replies. *)

LEMMA RemoveAtSubset ==
  ASSUME NEW S, NEW s \in Seq(S), NEW i \in DOMAIN s
  PROVE  RemoveAt(s, i) \in Seq(S) /\ ToSet(RemoveAt(s, i)) \subseteq ToSet(s)
<1>1. SubSeq(s, 1, i - 1) \in Seq(S) /\ SubSeq(s, i + 1, Len(s)) \in Seq(S)
  OBVIOUS
<1>2. RemoveAt(s, i) \in Seq(S)
  BY <1>1 DEF RemoveAt
<1>3. ASSUME NEW j \in DOMAIN RemoveAt(s, i)
      PROVE  \E k \in DOMAIN s : RemoveAt(s, i)[j] = s[k]
  <2>1. CASE j < i
    <3>1. RemoveAt(s, i)[j] = s[j] /\ j \in DOMAIN s
      BY <1>1, <2>1 DEF RemoveAt
    <3>2. QED
      BY <3>1
  <2>2. CASE j >= i
    <3>1. RemoveAt(s, i)[j] = s[j + 1] /\ j + 1 \in DOMAIN s
      BY <1>1, <2>2 DEF RemoveAt
    <3>2. QED
      BY <3>1
  <2>3. QED
    BY <1>2, <2>1, <2>2
<1>4. QED
  BY <1>2, <1>3 DEF ToSet

\* Taking a reply leaves replies that were there.
LEMMA TakeReplySubset ==
  ASSUME TypeOK, NEW i \in Deliverable, TakeReply(i)
  PROVE  /\ toSender' \in Seq(Packets)
         /\ ToSet(toSender)' \subseteq ToSet(toSender)
         /\ toSender[i] \in ToSet(toSender) /\ toSender[i] \in Packets
<1>1. toSender \in Seq(Packets) /\ i \in DOMAIN toSender
  BY DEF TypeOK, Deliverable
<1>2. ToSet(toSender)' = ToSet(toSender')
  OBVIOUS
<1>3. toSender' = toSender \/ toSender' = RemoveAt(toSender, i)
  BY DEF TakeReply
<1>4. toSender[i] \in ToSet(toSender)
  BY <1>1 DEF ToSet
<1>5. QED
  BY <1>1, <1>2, <1>3, <1>4, RemoveAtSubset

\* A reply adds at most itself.
LEMMA ReplySubset ==
  ASSUME TypeOK, NEW p \in Packets, Reply(p)
  PROVE  /\ toSender' \in Seq(Packets)
         /\ ToSet(toSender)' \subseteq ToSet(toSender) \cup {p}
<1>1. toSender \in Seq(Packets)
  BY DEF TypeOK
<1>2. CASE toSender' = toSender
  BY <1>1, <1>2 DEF ToSet
<1>3. CASE toSender' = Append(toSender, p)
  <2>1. \A j \in DOMAIN toSender' : toSender'[j] \in ToSet(toSender) \cup {p}
    BY <1>1, <1>3 DEF ToSet
  <2>2. QED
    BY <1>1, <1>3, <2>1 DEF ToSet
<1>4. QED
  BY <1>2, <1>3 DEF Reply

------------------------------------------------------------------------------
(* The run: what stays the same when the command line does. *)

LEMMA SameRun ==
  ASSUME UNCHANGED runVars
  PROVE  /\ mode' = mode /\ initSeq' = initSeq
         /\ First' = First
         /\ \A n : PacketSeq(n)' = PacketSeq(n)
         /\ SenderWindow' = SenderWindow
         /\ \A b : SenderKeys(b)' = SenderKeys(b)
BY DEF runVars, First, PacketSeq, SenderWindow, SenderKeys

LEMMA SameFile ==
  ASSUME UNCHANGED runVars, UNCHANGED receiverVars
  PROVE  /\ Delivered' = Delivered
         /\ \A n : Stored(n)' <=> Stored(n)
BY SameRun DEF receiverVars, Delivered, Stored

\* The kinds of packet the processes send are packets.
LEMMA PacketTypes ==
  /\ Junk \in Packets
  /\ \A s \in Nat : /\ Syn(s) \in Packets /\ SynAck(s) \in Packets
                    /\ Ack(s) \in Packets /\ Fin(s) \in Packets
                    /\ FinAck(s) \in Packets
  /\ \A s \in Nat : \A d \in Payloads : Data(s, d) \in Packets
BY DEF Junk, Syn, SynAck, Ack, Fin, FinAck, Data, Packets, Payloads, NoData

\* What is said of a datagram stays true as the sender goes on.
LEMMA DatagramStable ==
  ASSUME UNCHANGED runVars, sNext \in Nat, sNext' \in Nat, sNext <= sNext',
         SenderClosing => SenderClosing',
         NEW p, DatagramOK(p)
  PROVE  DatagramOK(p)'
<1>1. initSeq' = initSeq /\ \A n : PacketSeq(n)' = PacketSeq(n)
  BY SameRun
<1>2. \A n \in 0 .. NumPackets : n < sNext => n < sNext'
  BY CountTypes
<1>3. QED
  BY <1>1, <1>2 DEF DatagramOK

\* What is said of a reply stays true as the receiver goes on.
LEMMA ReplyStable ==
  ASSUME UNCHANGED runVars,
         Delivered \in Nat, Delivered' \in Nat, Delivered <= Delivered',
         \A n \in 0 .. MaxSeqNum - 1 : Stored(n) => Stored(n)',
         rPhase \in {"finack", "done"} => rPhase' \in {"finack", "done"},
         NEW p, ReplyOK(p)
  PROVE  ReplyOK(p)'
<1>1. mode' = mode /\ \A n : PacketSeq(n)' = PacketSeq(n)
  BY SameRun
<1>2. \A n \in 0 .. NumPackets : n \in Nat /\ n \in 0 .. MaxSeqNum - 1
  BY CountTypes
<1>3. ASSUME p.flags = "ACK"
      PROVE  \E n \in 0 .. NumPackets :
               /\ p.seq = PacketSeq(n)'
               /\ IF mode' = "RBN" THEN n <= Delivered' ELSE Stored(n)'
  <2>1. PICK n \in 0 .. NumPackets :
          p.seq = PacketSeq(n) /\ IF mode = "RBN" THEN n <= Delivered ELSE Stored(n)
    BY <1>3 DEF ReplyOK
  <2>2. IF mode' = "RBN" THEN n <= Delivered' ELSE Stored(n)'
    BY <1>1, <1>2, <2>1
  <2>3. QED
    BY <1>1, <2>1, <2>2
<1>4. QED
  BY <1>3 DEF ReplyOK

\* A datagram that is none of SYN, DATA and FIN claims nothing, nor does a
\* reply that is neither ACK nor FINACK.
LEMMA JunkOK == DatagramOK(Junk) /\ ReplyOK(Junk)
BY DEF DatagramOK, ReplyOK, Junk

------------------------------------------------------------------------------
(* Steps of the sender that leave the transfer alone. *)

\* The sender may pick its last sequence number and turn to closing when
\* there is nothing left to send.
LEMMA SenderFrameClosing ==
  ASSUME IInv, NEW ps \in SUBSET Packets,
         UNCHANGED <<runVars, faults, rPhase, receiverVars>>,
         UNCHANGED <<sBase, sWindow, sData, sNext, sRemaining>>,
         sLast' \in Nat,
         sCount' \in 0 .. ResendMax,
         sPhase' \in {"start", "syn", "synwait", "data", "fin", "finwait", "done", "failed"},
         sPhase' \in {"start", "syn", "synwait"} => sPhase \in {"start", "syn", "synwait"},
         sPhase' = "data" => sPhase = "data",
         SenderClosing => SenderClosing',
         SenderClosing' => SenderClosing \/ sRemaining = 0,
         ~SenderExited' => sCount' < ResendMax,
         sPhase' = "finwait" => rPhase \in {"finack", "done"},
         toReceiver' = toReceiver \cup ps,
         \A p \in ps : DatagramOK(p) \/ DatagramOK(p)',
         toSender' \in Seq(Packets), ToSet(toSender)' \subseteq ToSet(toSender)
  PROVE  IInv'
<1>1. UNCHANGED runVars /\ UNCHANGED receiverVars /\ UNCHANGED <<faults, rPhase>>
  OBVIOUS
<1>2. TypeOK'
  BY <1>1, SameRun DEF IInv, TypeOK, receiverVars
<1>3. Confirmed' = Confirmed /\ Delivered' = Delivered /\ sNext \in Nat
      /\ Delivered \in Nat
  BY <1>1, SameFile DEF Confirmed, Delivered, IInv, TypeOK
<1>4. MessagesOK'
  <2>1. \A p \in toReceiver' : DatagramOK(p)'
    BY <1>1, <1>3, DatagramStable DEF IInv, MessagesOK
  <2>2. \A p \in ToSet(toSender)' : ReplyOK(p)'
    <3>1. \A p \in ToSet(toSender)' : ReplyOK(p)
      BY DEF IInv, MessagesOK
    <3>2. QED
      BY <1>1, <1>3, <3>1, SameFile, ReplyStable
  <2>3. QED
    BY <2>1, <2>2 DEF MessagesOK
<1>5. SenderOK'
  BY <1>1, <1>3, SameRun, SameFile DEF IInv, SenderOK
<1>6. ReceiverOK'
  BY <1>1, <1>3, SameRun DEF IInv, ReceiverOK, receiverVars, PrefixWritten, Connected
<1>7. QED
  BY <1>2, <1>4, <1>5, <1>6 DEF IInv

LEMMA SenderFrame ==
  ASSUME IInv, NEW ps \in SUBSET Packets,
         UNCHANGED <<runVars, faults, rPhase, receiverVars, transferVars>>,
         sCount' \in 0 .. ResendMax,
         sPhase' \in {"start", "syn", "synwait", "data", "fin", "finwait", "done", "failed"},
         sPhase' \in {"start", "syn", "synwait"} => sPhase \in {"start", "syn", "synwait"},
         sPhase' = "data" => sPhase = "data",
         SenderClosing' <=> SenderClosing,
         ~SenderExited' => sCount' < ResendMax,
         sPhase' = "finwait" => rPhase \in {"finack", "done"},
         toReceiver' = toReceiver \cup ps,
         \A p \in ps : DatagramOK(p),
         toSender' \in Seq(Packets), ToSet(toSender)' \subseteq ToSet(toSender)
  PROVE  IInv'
<1>1. UNCHANGED <<sBase, sWindow, sData, sNext, sRemaining>> /\ sLast' \in Nat
  BY DEF transferVars, IInv, TypeOK
<1>2. QED
  BY <1>1, SenderFrameClosing

\* What sent packets are, for the packets that carry no data.
LEMMA ControlOK ==
  /\ \A s : DatagramOK(Ack(s)) /\ DatagramOK(Syn(initSeq))
  /\ \A s : SenderClosing => DatagramOK(Fin(s))
BY DEF DatagramOK, Ack, Syn, Fin

LEMMA CountedOnce ==
  ASSUME NEW c \in 0 .. ResendMax, c < ResendMax
  PROVE  c + 1 \in 0 .. ResendMax /\ (c + 1 < ResendMax \/ c + 1 = ResendMax)
BY RunAssumption

LEMMA RetrySynOK ==
  ASSUME IInv, sPhase = "syn", RetrySyn,
         UNCHANGED <<runVars, faults, rPhase, receiverVars>>,
         toSender' \in Seq(Packets), ToSet(toSender)' \subseteq ToSet(toSender)
  PROVE  IInv'
<1>1. sCount \in 0 .. ResendMax /\ sCount < ResendMax
  BY DEF IInv, TypeOK, SenderOK, SenderExited
<1>2. sCount' = sCount + 1 /\ sCount' \in 0 .. ResendMax
  BY <1>1, CountedOnce DEF RetrySyn
<1>3. initSeq \in Nat
  BY RunAssumption DEF IInv, TypeOK
<1>4. CASE sCount + 1 < ResendMax
  <2>1. {Syn(initSeq)} \in SUBSET Packets /\ \A p \in {Syn(initSeq)} : DatagramOK(p)
    BY <1>3, PacketTypes, ControlOK
  <2>2. sPhase' = "syn" /\ toReceiver' = toReceiver \cup {Syn(initSeq)}
        /\ UNCHANGED transferVars /\ sCount' < ResendMax
    BY <1>2, <1>4 DEF RetrySyn, Send
  <2>3. ~SenderClosing /\ ~SenderClosing'
    BY <2>2 DEF SenderClosing
  <2>4. QED
    BY <1>2, <2>1, <2>2, <2>3, SenderFrame
<1>5. CASE ~(sCount + 1 < ResendMax)
  <2>1. sPhase' = "failed" /\ toReceiver' = toReceiver \cup {}
        /\ UNCHANGED transferVars
    BY <1>5 DEF RetrySyn, Send
  <2>2. ~SenderClosing /\ ~SenderClosing' /\ SenderExited'
    BY <2>1 DEF SenderClosing, SenderExited
  <2>3. {} \in SUBSET Packets /\ \A p \in {} : DatagramOK(p)
    OBVIOUS
  <2>4. QED
    BY <1>2, <2>1, <2>2, <2>3, SenderFrame
<1>6. QED
  BY <1>4, <1>5

LEMMA StartOK ==
  ASSUME IInv, SStart, UNCHANGED receiverVars
  PROVE  IInv'
<1>1. initSeq \in Nat /\ sCount \in 0 .. ResendMax /\ toSender \in Seq(Packets)
  BY RunAssumption DEF IInv, TypeOK
<1>2. {Syn(initSeq)} \in SUBSET Packets /\ \A p \in {Syn(initSeq)} : DatagramOK(p)
  BY <1>1, PacketTypes, ControlOK
<1>3. sPhase = "start" /\ sPhase' = "syn" /\ toReceiver' = toReceiver \cup {Syn(initSeq)}
      /\ UNCHANGED <<runVars, toSender, faults, rPhase, transferVars>> /\ sCount' = sCount
  BY DEF SStart, Send, senderVars, transferVars
<1>4. sCount < ResendMax /\ ~SenderClosing /\ ~SenderClosing'
  BY <1>3 DEF IInv, SenderOK, SenderExited, SenderClosing
<1>5. toSender' \in Seq(Packets) /\ ToSet(toSender)' \subseteq ToSet(toSender)
  BY <1>1, <1>3
<1>6. QED
  BY <1>1, <1>2, <1>3, <1>4, <1>5, SenderFrame

LEMMA SynTimeoutOK ==
  ASSUME IInv, SSynTimeout, UNCHANGED receiverVars
  PROVE  IInv'
<1>1. toSender' \in Seq(Packets) /\ ToSet(toSender)' \subseteq ToSet(toSender)
  BY DEF IInv, TypeOK, SSynTimeout
<1>2. QED
  BY <1>1, RetrySynOK DEF SSynTimeout

LEMMA SynReceiveOK ==
  ASSUME IInv, SSynReceive, UNCHANGED receiverVars
  PROVE  IInv'
<1>1. TypeOK /\ sPhase = "syn" /\ UNCHANGED <<runVars, faults, rPhase>>
  BY DEF IInv, SSynReceive
<1>2. PICK i \in Deliverable :
        /\ TakeReply(i)
        /\ LET p == toSender[i] IN
             \/ /\ ~IsControl(p)
                /\ RetrySyn
             \/ /\ IsControl(p)
                /\ ~(p.flags = "SYNACK" /\ p.seq = initSeq + 1)
                /\ Send({Syn(initSeq)})
                /\ UNCHANGED <<sPhase, senderVars>>
             \/ /\ p.flags = "SYNACK" /\ p.seq = initSeq + 1
                /\ sPhase' = "synwait"
                /\ Send({Ack(initSeq + 1)})
                /\ UNCHANGED senderVars
  BY DEF SSynReceive
<1>3. toSender' \in Seq(Packets) /\ ToSet(toSender)' \subseteq ToSet(toSender)
  BY <1>1, <1>2, TakeReplySubset
<1>4. initSeq \in Nat /\ initSeq + 1 \in Nat /\ sCount \in 0 .. ResendMax /\ sCount < ResendMax
  BY <1>1, RunAssumption DEF IInv, TypeOK, SenderOK, SenderExited
<1>5. ~SenderClosing
  BY <1>1 DEF SenderClosing
<1>6. CASE RetrySyn
  BY <1>1, <1>3, <1>6, RetrySynOK
<1>7. CASE Send({Syn(initSeq)}) /\ UNCHANGED <<sPhase, senderVars>>
  <2>1. {Syn(initSeq)} \in SUBSET Packets /\ \A p \in {Syn(initSeq)} : DatagramOK(p)
    BY <1>4, PacketTypes, ControlOK
  <2>2. toReceiver' = toReceiver \cup {Syn(initSeq)} /\ sPhase' = "syn"
        /\ sCount' = sCount /\ UNCHANGED transferVars
    BY <1>1, <1>7 DEF Send, senderVars, transferVars
  <2>3. ~SenderClosing'
    BY <2>2 DEF SenderClosing
  <2>4. QED
    BY <1>1, <1>3, <1>4, <1>5, <2>1, <2>2, <2>3, SenderFrame
<1>8. CASE sPhase' = "synwait" /\ Send({Ack(initSeq + 1)}) /\ UNCHANGED senderVars
  <2>1. {Ack(initSeq + 1)} \in SUBSET Packets
        /\ \A p \in {Ack(initSeq + 1)} : DatagramOK(p)
    BY <1>4, PacketTypes, ControlOK
  <2>2. toReceiver' = toReceiver \cup {Ack(initSeq + 1)} /\ sPhase' = "synwait"
        /\ sCount' = sCount /\ UNCHANGED transferVars
    BY <1>8 DEF Send, senderVars, transferVars
  <2>3. ~SenderClosing'
    BY <2>2 DEF SenderClosing
  <2>4. QED
    BY <1>1, <1>3, <1>4, <1>5, <2>1, <2>2, <2>3, SenderFrame
<1>9. QED
  BY <1>2, <1>6, <1>7, <1>8

LEMMA SynWaitReceiveOK ==
  ASSUME IInv, SSynWaitReceive, UNCHANGED receiverVars
  PROVE  IInv'
<1>1. TypeOK /\ sPhase = "synwait"
      /\ UNCHANGED <<runVars, faults, sPhase, rPhase, transferVars>> /\ sCount' = sCount
      /\ toReceiver' = toReceiver \cup {Ack(initSeq + 1)}
  BY DEF IInv, SSynWaitReceive, Send, senderVars, transferVars
<1>2. toSender' \in Seq(Packets) /\ ToSet(toSender)' \subseteq ToSet(toSender)
  BY <1>1, TakeReplySubset DEF SSynWaitReceive
<1>3. initSeq + 1 \in Nat /\ sCount \in 0 .. ResendMax /\ sCount < ResendMax
  BY <1>1, RunAssumption DEF IInv, TypeOK, SenderOK, SenderExited
<1>4. {Ack(initSeq + 1)} \in SUBSET Packets
      /\ \A p \in {Ack(initSeq + 1)} : DatagramOK(p)
  BY <1>3, PacketTypes, ControlOK
<1>5. ~SenderClosing /\ ~SenderClosing'
  BY <1>1 DEF SenderClosing
<1>6. QED
  BY <1>1, <1>2, <1>3, <1>4, <1>5, SenderFrame

\* What the data loop sends again are chunks under their own numbers.
LEMMA StoredPacketsOK ==
  ASSUME IInv
  PROVE  StoredPackets \in SUBSET Packets /\ \A p \in StoredPackets : DatagramOK(p)
<1>1. TypeOK
  BY DEF IInv
<1>2. SUFFICES ASSUME NEW q \in ToResend
               PROVE  Data(q, sData[q]) \in Packets /\ DatagramOK(Data(q, sData[q]))
  BY DEF StoredPackets
<1>3. q \in SeqNums /\ sData[q] # NoData
  BY <1>1, WindowSubset, SenderWindowType DEF ToResend, TypeOK
<1>4. PICK n \in 0 .. MaxSeqNum - 1 : q = PacketSeq(n)
  BY <1>1, <1>3, PacketSeqOnto
<1>5. n < sNext /\ sData[q] = Chunk(n) /\ n \in 0 .. NumPackets
  <2>1. n < sNext /\ sData[q] = Chunk(n)
    BY <1>3, <1>4 DEF IInv, SenderOK
  <2>2. sNext \in 0 .. NumPackets /\ NumPackets \in Nat /\ MaxSeqNum \in Nat
    BY <1>1, CountTypes DEF TypeOK
  <2>3. QED
    BY <2>1, <2>2
<1>6. sData[q] \in Payloads /\ q \in Nat
  BY <1>1, <1>3 DEF TypeOK, SeqNums
<1>7. QED
  BY <1>4, <1>5, <1>6, PacketTypes DEF DatagramOK, Data

LEMMA DataTimeoutOK ==
  ASSUME IInv, SDataTimeout, UNCHANGED receiverVars
  PROVE  IInv'
<1>1. sPhase = "data" /\ toReceiver' = toReceiver \cup StoredPackets
      /\ UNCHANGED <<runVars, toSender, faults, sPhase, rPhase, transferVars>>
      /\ sCount' = sCount
  BY DEF SDataTimeout, Send, senderVars, transferVars
<1>2. toSender' \in Seq(Packets) /\ ToSet(toSender)' \subseteq ToSet(toSender)
      /\ sCount' \in 0 .. ResendMax /\ sCount' < ResendMax
  BY <1>1 DEF IInv, TypeOK, SenderOK, SenderExited
<1>3. ~SenderClosing /\ ~SenderClosing'
  BY <1>1 DEF SenderClosing
<1>4. QED
  BY <1>1, <1>2, <1>3, StoredPacketsOK, SenderFrame

LEMMA RetryFinOK ==
  ASSUME IInv, sPhase \in {"fin", "finwait"}, RetryFin,
         NEW ps \in SUBSET {Fin(sLast)}, toReceiver' = toReceiver \cup ps,
         UNCHANGED <<runVars, faults, rPhase, receiverVars>>,
         toSender' \in Seq(Packets), ToSet(toSender)' \subseteq ToSet(toSender)
  PROVE  IInv'
<1>1. sCount \in 0 .. ResendMax /\ sCount < ResendMax /\ sLast \in Nat
  BY DEF IInv, TypeOK, SenderOK, SenderExited
<1>2. sCount' = sCount + 1 /\ sCount' \in 0 .. ResendMax /\ UNCHANGED transferVars
      /\ sPhase' = IF sCount + 1 < ResendMax THEN "fin" ELSE "done"
  BY <1>1, CountedOnce DEF RetryFin
<1>3. SenderClosing /\ SenderClosing' /\ (~SenderExited' => sCount' < ResendMax)
  BY <1>2 DEF SenderClosing, SenderExited
<1>4. ps \in SUBSET Packets /\ \A p \in ps : DatagramOK(p)
  BY <1>1, <1>3, PacketTypes, ControlOK
<1>5. sPhase' \in {"fin", "done"}
  BY <1>2
<1>6. QED
  BY <1>2, <1>3, <1>4, <1>5, SenderFrame

LEMMA FinTimeoutOK ==
  ASSUME IInv, SFinTimeout, UNCHANGED receiverVars
  PROVE  IInv'
<1>1. toSender' \in Seq(Packets) /\ ToSet(toSender)' \subseteq ToSet(toSender)
  BY DEF IInv, TypeOK, SFinTimeout
<1>2. QED
  BY <1>1, RetryFinOK DEF SFinTimeout, Send

LEMMA RetryFinSendOK ==
  ASSUME IInv, sPhase \in {"fin", "finwait"}, RetryFinSend,
         UNCHANGED <<runVars, faults, rPhase, receiverVars>>,
         toSender' \in Seq(Packets), ToSet(toSender)' \subseteq ToSet(toSender)
  PROVE  IInv'
<1>1. PICK ps \in SUBSET {Fin(sLast)} : RetryFin /\ toReceiver' = toReceiver \cup ps
  BY DEF RetryFinSend, Send
<1>2. QED
  BY <1>1, RetryFinOK

LEMMA FinReceiveOK ==
  ASSUME IInv, SFinReceive, UNCHANGED receiverVars
  PROVE  IInv'
<1>1. TypeOK /\ sPhase = "fin" /\ UNCHANGED <<runVars, faults, rPhase>>
  BY DEF IInv, SFinReceive
<1>2. PICK i \in Deliverable :
        /\ TakeReply(i)
        /\ IF FinAcked(toSender[i])
           THEN sPhase' = "finwait" /\ UNCHANGED <<toReceiver, senderVars>>
           ELSE RetryFinSend
  BY DEF SFinReceive
<1>3. toSender' \in Seq(Packets) /\ ToSet(toSender)' \subseteq ToSet(toSender)
      /\ toSender[i] \in ToSet(toSender)
  BY <1>1, <1>2, TakeReplySubset
<1>4. CASE FinAcked(toSender[i])
  <2>1. toSender[i].flags = "FINACK" /\ ReplyOK(toSender[i])
    BY <1>3, <1>4 DEF FinAcked, FinAck, IInv, MessagesOK
  <2>2. rPhase \in {"finack", "done"}
    BY <2>1 DEF ReplyOK
  <2>3. sPhase' = "finwait" /\ toReceiver' = toReceiver \cup {} /\ sCount' = sCount
        /\ UNCHANGED transferVars
    BY <1>2, <1>4 DEF senderVars, transferVars
  <2>4. SenderClosing /\ SenderClosing' /\ sCount' \in 0 .. ResendMax /\ sCount' < ResendMax
    BY <1>1, <2>3 DEF SenderClosing, IInv, TypeOK, SenderOK, SenderExited
  <2>5. {} \in SUBSET Packets /\ \A p \in {} : DatagramOK(p)
    OBVIOUS
  <2>6. QED
    BY <1>1, <1>3, <2>2, <2>3, <2>4, <2>5, SenderFrame
<1>5. CASE ~FinAcked(toSender[i])
  BY <1>1, <1>2, <1>3, <1>5, RetryFinSendOK
<1>6. QED
  BY <1>4, <1>5

LEMMA FinWaitReceiveOK ==
  ASSUME IInv, SFinWaitReceive, UNCHANGED receiverVars
  PROVE  IInv'
<1>1. TypeOK /\ sPhase = "finwait" /\ UNCHANGED <<runVars, faults, rPhase>> /\ RetryFinSend
  BY DEF IInv, SFinWaitReceive
<1>2. toSender' \in Seq(Packets) /\ ToSet(toSender)' \subseteq ToSet(toSender)
  BY <1>1, TakeReplySubset DEF SFinWaitReceive
<1>3. QED
  BY <1>1, <1>2, RetryFinSendOK

LEMMA FinWaitTimeoutOK ==
  ASSUME IInv, SFinWaitTimeout, UNCHANGED receiverVars
  PROVE  IInv'
<1>1. sPhase = "finwait" /\ sPhase' = "done" /\ toReceiver' = toReceiver \cup {}
      /\ UNCHANGED <<runVars, toSender, faults, rPhase, transferVars>> /\ sCount' = sCount
  BY DEF SFinWaitTimeout, netVars, senderVars, transferVars
<1>2. toSender' \in Seq(Packets) /\ ToSet(toSender)' \subseteq ToSet(toSender)
      /\ sCount' \in 0 .. ResendMax
  BY <1>1 DEF IInv, TypeOK
<1>3. SenderClosing /\ SenderClosing' /\ SenderExited'
  BY <1>1 DEF SenderClosing, SenderExited
<1>4. {} \in SUBSET Packets /\ \A p \in {} : DatagramOK(p)
  OBVIOUS
<1>5. QED
  BY <1>1, <1>2, <1>3, <1>4, SenderFrame

------------------------------------------------------------------------------
(* The end of the connecting phase. *)

\* Nothing to send: the FIN goes out with the number the variable holds.
LEMMA SkipFileOK ==
  ASSUME IInv, sPhase = "synwait", NumPackets = 0, SkipFile,
         UNCHANGED <<runVars, toSender, faults, rPhase, receiverVars>>
  PROVE  IInv'
<1>1. PICK g \in Uint32 : sLast' = g /\ toReceiver' = toReceiver \cup {Fin(g)}
  BY DEF SkipFile, Send
<1>2. sPhase' = "fin" /\ sCount' = 0 /\ UNCHANGED <<sBase, sWindow, sData, sNext, sRemaining>>
  BY DEF SkipFile
<1>3. sRemaining = 0 /\ toSender' \in Seq(Packets)
      /\ ToSet(toSender)' \subseteq ToSet(toSender)
  BY DEF IInv, TypeOK
<1>4. g \in Nat /\ 0 \in 0 .. ResendMax /\ 0 < ResendMax
  BY <1>1, RunAssumption, SeqAssumption DEF Uint32
<1>5. ~SenderClosing /\ SenderClosing' /\ ~SenderExited'
  BY <1>2 DEF SenderClosing, SenderExited
<1>6. {Fin(g)} \in SUBSET Packets /\ \A p \in {Fin(g)} : DatagramOK(p)'
  BY <1>4, <1>5, PacketTypes DEF DatagramOK, Fin
<1>7. sCount' \in 0 .. ResendMax /\ sCount' < ResendMax /\ sLast' \in Nat
  BY <1>1, <1>2, <1>4
<1>8. QED
  BY <1>1, <1>2, <1>3, <1>5, <1>6, <1>7, SenderFrameClosing

LEMMA NoFileOK ==
  ASSUME IInv, sPhase = "synwait", sPhase' = "failed",
         UNCHANGED <<toReceiver, senderVars>>,
         UNCHANGED <<runVars, toSender, faults, rPhase, receiverVars>>
  PROVE  IInv'
<1>1. toReceiver' = toReceiver \cup {} /\ UNCHANGED transferVars /\ sCount' = sCount
  BY DEF senderVars, transferVars
<1>2. sCount' \in 0 .. ResendMax /\ toSender' \in Seq(Packets)
      /\ ToSet(toSender)' \subseteq ToSet(toSender)
  BY <1>1 DEF IInv, TypeOK
<1>3. ~SenderClosing /\ ~SenderClosing' /\ SenderExited'
  BY DEF SenderClosing, SenderExited
<1>4. {} \in SUBSET Packets /\ \A p \in {} : DatagramOK(p)
  OBVIOUS
<1>5. QED
  BY <1>1, <1>2, <1>3, <1>4, SenderFrame

------------------------------------------------------------------------------
(* Reading chunks and sending them. *)

LEMMA CounterTypes ==
  ASSUME TypeOK
  PROVE  sNext \in Nat /\ NumPackets \in Nat /\ MaxSeqNum \in Nat
<1>1. NumPackets \in Nat /\ MaxSeqNum \in Nat
  BY CountTypes
<1>2. sNext \in 0 .. NumPackets
  BY DEF TypeOK
<1>3. QED
  BY <1>1, <1>2

\* m freads in a row give the next m chunks the next m numbers.
LEMMA ReadChunksOK ==
  ASSUME IInv, NEW e \in 0 .. MaxSeqNum - 1, NEW m \in Nat, e + m <= MaxSeqNum,
         m > 0 => e = sNext,
         sNext + m <= NumPackets,
         ReadChunks(PacketSeq(e), m), UNCHANGED runVars
  PROVE  /\ sNext' = sNext + m /\ sNext' \in 0 .. NumPackets /\ sNext <= sNext'
         /\ sData' \in [SeqNums -> Payloads]
         /\ \A n \in 0 .. MaxSeqNum - 1 :
              sData'[PacketSeq(n)] = IF n < sNext' THEN Chunk(n) ELSE NoData
<1>1. TypeOK /\ sNext \in Nat /\ NumPackets \in Nat /\ MaxSeqNum \in Nat
  BY CounterTypes DEF IInv
<1>2. sNext' = sNext + m /\ sNext + m \in 0 .. NumPackets /\ sNext <= sNext + m
  BY <1>1 DEF ReadChunks
<1>3. ASSUME NEW q \in SeqNums
      PROVE  sData'[q] = (IF Offset(PacketSeq(e), q) < m
                          THEN Chunk(sNext + Offset(PacketSeq(e), q)) ELSE sData[q])
             /\ sData'[q] \in Payloads
  <2>1. sData'[q] = IF Offset(PacketSeq(e), q) < m
                    THEN Chunk(sNext + Offset(PacketSeq(e), q)) ELSE sData[q]
    BY DEF ReadChunks
  <2>2. Offset(PacketSeq(e), q) \in Nat
    BY <1>1, PacketSeqType, OffsetType
  <2>3. sNext + Offset(PacketSeq(e), q) \in Nat
    BY <1>1, <2>2
  <2>4. sData[q] \in Payloads
    BY <1>1 DEF TypeOK
  <2>5. QED
    BY <2>1, <2>3, <2>4, ChunkType
<1>4. sData' \in [SeqNums -> Payloads]
  BY <1>3 DEF ReadChunks
<1>5. ASSUME NEW n \in 0 .. MaxSeqNum - 1
      PROVE  sData'[PacketSeq(n)] = IF n < sNext + m THEN Chunk(n) ELSE NoData
  <2>1. PacketSeq(n) \in SeqNums /\ n \in Nat
    BY <1>1, PacketSeqType
  <2>2. sData[PacketSeq(n)] = IF n < sNext THEN Chunk(n) ELSE NoData
    BY DEF IInv, SenderOK
  <2>3. /\ Offset(PacketSeq(e), PacketSeq(n)) < m <=> e <= n /\ n < e + m
        /\ e <= n => Offset(PacketSeq(e), PacketSeq(n)) = n - e
    BY <1>1, PacketInBlock
  <2>4. CASE e <= n /\ n < e + m
    <3>1. e = sNext /\ sNext + (n - e) = n /\ n < sNext + m
      BY <1>1, <2>1, <2>4
    <3>2. QED
      BY <1>3, <2>1, <2>3, <2>4, <3>1
  <2>5. CASE ~(e <= n /\ n < e + m)
    <3>1. n < sNext + m <=> n < sNext
      BY <1>1, <2>1, <2>5
    <3>2. QED
      BY <1>3, <2>1, <2>2, <2>3, <2>5, <3>1
  <2>6. QED
    BY <2>4, <2>5
<1>6. QED
  BY <1>2, <1>4, <1>5

\* The packets that carry them are what DatagramOK asks for.
LEMMA NewPacketsOK ==
  ASSUME IInv, NEW e \in 0 .. MaxSeqNum - 1, NEW m \in Nat, e + m <= MaxSeqNum,
         m > 0 => e = sNext,
         sNext + m <= NumPackets,
         sNext' = sNext + m, UNCHANGED runVars
  PROVE  /\ NewPackets(PacketSeq(e), m) \in SUBSET Packets
         /\ \A p \in NewPackets(PacketSeq(e), m) : DatagramOK(p)'
<1>1. TypeOK /\ sNext \in Nat /\ MaxSeqNum \in Nat
  BY CounterTypes DEF IInv
<1>2. sNext' = sNext + m
  OBVIOUS
<1>3. ASSUME NEW p \in NewPackets(PacketSeq(e), m)
      PROVE  p \in Packets /\ DatagramOK(p)'
  <2>1. PICK i \in 0 .. m - 1 : p = Data(SeqAdd(PacketSeq(e), i), Chunk(sNext + i))
    BY DEF NewPackets
  <2>2. i \in Nat /\ e + i \in Nat /\ e + i <= MaxSeqNum /\ sNext + i < sNext + m
        /\ e = sNext /\ sNext + i \in Nat
    BY <1>1
  <2>3. SeqAdd(PacketSeq(e), i) = PacketSeq(sNext + i)
    BY <1>1, <2>2, PacketSeqSum
  <2>4. PacketSeq(sNext + i) \in Nat /\ Chunk(sNext + i) \in Payloads
    BY <1>1, <2>2, PacketSeqType, ChunkType DEF SeqNums
  <2>5. p \in Packets
    BY <2>1, <2>3, <2>4, PacketTypes
  <2>6. PICK n \in 0 .. NumPackets : n = sNext + i
    <3>1. NumPackets \in Nat /\ sNext + i \in 0 .. NumPackets
      BY <1>1, <2>2, CounterTypes
    <3>2. QED
      BY <3>1
  <2>7. n < sNext'
    BY <1>2, <2>2, <2>6
  <2>8. p.flags = "DATA" /\ p.seq = PacketSeq(n) /\ p.payload = Chunk(n)
    BY <2>1, <2>3, <2>6 DEF Data
  <2>9. PacketSeq(n)' = PacketSeq(n)
    BY SameRun
  <2>10. QED
    BY <2>5, <2>7, <2>8, <2>9 DEF DatagramOK
<1>4. QED
  BY <1>3

\* A step that moves the sender's window, or opens it, keeps the invariant
\* when the new values fit together.
LEMMA SenderAdvance ==
  ASSUME IInv, sPhase \in {"synwait", "data"}, sPhase' \in {"data", "fin"},
         UNCHANGED <<runVars, faults, rPhase, receiverVars>>,
         sNext' \in 0 .. NumPackets, sNext' \in Nat, sNext <= sNext',
         sData' \in [SeqNums -> Payloads],
         \A n \in 0 .. MaxSeqNum - 1 :
           sData'[PacketSeq(n)] = IF n < sNext' THEN Chunk(n) ELSE NoData,
         NEW c \in 0 .. NumPackets, Confirmed' = c, c <= Delivered,
         sRemaining' \in 0 .. NumPackets,
         sBase' = PacketSeq(c),
         sWindow' \in [SenderKeys(sBase') -> BOOLEAN],
         mode = "SR" =>
           \A n \in 0 .. MaxSeqNum - 1 :
             PacketSeq(n) \in DOMAIN sWindow' /\ sWindow'[PacketSeq(n)] => Stored(n),
         mode = "RBN" /\ sPhase' = "data" =>
           \A n \in 0 .. MaxSeqNum - 1 :
             c <= n /\ n < sNext' => sWindow'[PacketSeq(n)],
         sPhase' = "data" => sNext' = Lesser(NumPackets, c + SenderWindow),
         sPhase' = "fin" => sRemaining' = 0,
         sCount' \in 0 .. ResendMax, sCount' < ResendMax, sLast' \in Nat,
         NEW ps \in SUBSET Packets, toReceiver' = toReceiver \cup ps,
         \A p \in ps : DatagramOK(p) \/ DatagramOK(p)',
         toSender' \in Seq(Packets), ToSet(toSender)' \subseteq ToSet(toSender)
  PROVE  IInv'
<1>1. UNCHANGED runVars /\ UNCHANGED receiverVars /\ UNCHANGED <<faults, rPhase>>
      /\ TypeOK
  BY DEF IInv
<1>2. c \in Nat /\ c \in 0 .. MaxSeqNum - 1
  BY CountTypes
<1>3. sBase' \in SeqNums
  BY <1>1, <1>2, PacketSeqType
<1>4. \A b : SenderKeys(b)' = SenderKeys(b)
  BY SameRun
<1>5. SenderKeys(sBase)' = SenderKeys(sBase')
  BY <1>1 DEF runVars, SenderKeys, SenderWindow
<1>6. TypeOK'
  BY <1>1, <1>3, <1>5 DEF TypeOK, runVars, receiverVars
<1>7. Delivered' = Delivered /\ sNext \in Nat /\ Delivered \in Nat
  BY <1>1, SameFile, CounterTypes DEF Delivered, TypeOK
<1>8. ~SenderClosing
  BY DEF SenderClosing
<1>9. MessagesOK'
  <2>1. \A p \in toReceiver' : DatagramOK(p)'
    BY <1>1, <1>7, <1>8, DatagramStable DEF IInv, MessagesOK
  <2>2. \A p \in ToSet(toSender)' : ReplyOK(p)'
    <3>1. \A p \in ToSet(toSender)' : ReplyOK(p)
      BY DEF IInv, MessagesOK
    <3>2. QED
      BY <1>1, <1>7, <3>1, SameFile, ReplyStable
  <2>3. QED
    BY <2>1, <2>2 DEF MessagesOK
<1>10. SenderOK'
  BY <1>1, <1>7, SameRun, SameFile DEF SenderOK, SenderClosing
<1>11. ReceiverOK'
  <2>1. \A n \in Nat : n < sNext => n < sNext'
    BY <1>7
  <2>2. rPhase # "finack"
    BY <1>8 DEF IInv, ReceiverOK
  <2>3. Delivered <= sNext'
    BY <1>7 DEF IInv, ReceiverOK
  <2>4. \A n \in 0 .. MaxSeqNum - 1 :
          PacketSeq(n) \in DOMAIN rWindow /\ rWindow[PacketSeq(n)] =>
            n < sNext' /\ rData[PacketSeq(n)] = Chunk(n)
    BY <2>1 DEF IInv, ReceiverOK
  <2>5. QED
    BY <1>1, <1>7, <2>2, <2>3, <2>4, SameRun
    DEF IInv, ReceiverOK, receiverVars, PrefixWritten, Connected
<1>12. QED
  BY <1>6, <1>9, <1>10, <1>11 DEF IInv

LEMMA OpenWindowOK ==
  ASSUME IInv, sPhase = "synwait", NumPackets > 0, OpenWindow,
         UNCHANGED <<runVars, toSender, faults, rPhase, receiverVars>>
  PROVE  IInv'
<1>1. TypeOK /\ sNext = 0 /\ sRemaining = NumPackets /\ sCount < ResendMax
  BY DEF IInv, SenderOK, SenderExited
<1>2. /\ NumPackets \in 0 .. U16 - 1 /\ NumPackets \in Nat /\ MaxSeqNum \in Nat \ {0}
      /\ U16 \in Nat \ {0} /\ U16 <= MaxSeqNum
      /\ SenderWindow \in Nat /\ SenderWindow + U16 <= MaxSeqNum
  BY <1>1, CountTypes, SenderWindowType
<1>3. Confirmed = 0 /\ sBase = PacketSeq(0)
  <2>1. Confirmed = 0
    BY <1>1, <1>2 DEF Confirmed
  <2>2. QED
    BY <2>1 DEF IInv, SenderOK
<1>4. /\ FirstSends \in Nat /\ FirstSends <= NumPackets /\ 0 + FirstSends <= MaxSeqNum
      /\ sNext + FirstSends <= NumPackets /\ 0 \in 0 .. MaxSeqNum - 1
      /\ FirstSends = Lesser(NumPackets, 0 + SenderWindow)
  BY <1>1, <1>2 DEF FirstSends, Lesser
<1>5. /\ sPhase' = "data" /\ ReadChunks(PacketSeq(0), FirstSends)
      /\ toReceiver' = toReceiver \cup NewPackets(PacketSeq(0), FirstSends)
      /\ sWindow' = [q \in SenderKeys(sBase) |->
                       mode = "RBN" /\ Offset(sBase, q) < FirstSends]
      /\ UNCHANGED <<sCount, sBase, sRemaining, sLast>>
  BY <1>3 DEF OpenWindow, Send
<1>6. /\ sNext' = sNext + FirstSends /\ sNext' \in 0 .. NumPackets /\ sNext <= sNext'
      /\ sData' \in [SeqNums -> Payloads]
      /\ \A n \in 0 .. MaxSeqNum - 1 :
           sData'[PacketSeq(n)] = IF n < sNext' THEN Chunk(n) ELSE NoData
  BY <1>1, <1>4, <1>5, ReadChunksOK
<1>7. /\ NewPackets(PacketSeq(0), FirstSends) \in SUBSET Packets
      /\ \A p \in NewPackets(PacketSeq(0), FirstSends) : DatagramOK(p)'
  BY <1>1, <1>4, <1>6, NewPacketsOK
<1>8. Confirmed' = 0 /\ 0 <= Delivered /\ 0 \in 0 .. NumPackets
  BY <1>2, <1>3, <1>5 DEF Confirmed, IInv, SenderOK
<1>9. sBase' = PacketSeq(0) /\ sWindow' \in [SenderKeys(sBase') -> BOOLEAN]
  BY <1>3, <1>5
<1>10. mode = "SR" =>
         \A n \in 0 .. MaxSeqNum - 1 :
           PacketSeq(n) \in DOMAIN sWindow' /\ sWindow'[PacketSeq(n)] => Stored(n)
  BY <1>5
<1>11. sNext' = Lesser(NumPackets, 0 + SenderWindow) /\ sNext' \in Nat
  BY <1>1, <1>4, <1>6
<1>12. /\ sRemaining' \in 0 .. NumPackets /\ sCount' \in 0 .. ResendMax
       /\ sCount' < ResendMax /\ sLast' \in Nat
       /\ toSender' \in Seq(Packets) /\ ToSet(toSender)' \subseteq ToSet(toSender)
  BY <1>1, <1>5 DEF TypeOK
<1>13. ASSUME mode = "RBN", NEW n \in 0 .. MaxSeqNum - 1, n < sNext'
       PROVE  sWindow'[PacketSeq(n)]
  <2>1. n < FirstSends /\ n \in Nat /\ SenderWindow + 1 \in Nat /\ 0 \in Nat
        /\ 0 + (SenderWindow + 1) <= MaxSeqNum /\ 0 <= n /\ n < 0 + (SenderWindow + 1)
        /\ n < 0 + FirstSends
    BY <1>1, <1>2, <1>4, <1>6, <1>13 DEF Lesser
  <2>2. Offset(PacketSeq(0), PacketSeq(n)) < FirstSends
    BY <1>1, <1>4, <2>1, PacketInBlock
  <2>3. PacketSeq(n) \in Window(PacketSeq(0), SenderWindow + 1)
    BY <1>1, <2>1, PacketInWindow
  <2>4. PacketSeq(n) \in SenderKeys(sBase)
    BY <1>3, <1>13, <2>3 DEF SenderKeys
  <2>5. QED
    BY <1>3, <1>5, <1>13, <2>2, <2>4
<1>14. QED
  BY <1>5, <1>6, <1>7, <1>8, <1>9, <1>10, <1>11, <1>12, <1>13, SenderAdvance

LEMMA SynWaitTimeoutOK ==
  ASSUME IInv, SSynWaitTimeout, UNCHANGED receiverVars
  PROVE  IInv'
<1>1. sPhase = "synwait" /\ UNCHANGED <<runVars, toSender, faults, rPhase>>
  BY DEF SSynWaitTimeout
<1>2. CASE sPhase' = "failed" /\ UNCHANGED <<toReceiver, senderVars>>
  BY <1>1, <1>2, NoFileOK
<1>3. CASE NumPackets > 0 /\ OpenWindow
  BY <1>1, <1>3, OpenWindowOK
<1>4. CASE NumPackets = 0 /\ SkipFile
  BY <1>1, <1>4, SkipFileOK
<1>5. QED
  BY <1>2, <1>3, <1>4 DEF SSynWaitTimeout

------------------------------------------------------------------------------
(* Acknowledgements. *)

\* Where a packet of the file lies in the sender's window.
LEMMA InSenderWindow ==
  ASSUME IInv, NEW m \in 0 .. NumPackets
  PROVE  PacketSeq(m) \in DOMAIN sWindow <=>
           /\ Confirmed <= m
           /\ IF mode = "RBN" THEN m <= Confirmed + SenderWindow
                              ELSE m < Confirmed + SenderWindow
<1>1. /\ TypeOK /\ sBase = PacketSeq(Confirmed)
      /\ DOMAIN sWindow = SenderKeys(PacketSeq(Confirmed))
  BY DEF IInv, TypeOK, SenderOK
<1>2. /\ NumPackets \in 0 .. U16 - 1 /\ MaxSeqNum \in Nat \ {0}
      /\ U16 \in Nat \ {0} /\ U16 <= MaxSeqNum
      /\ SenderWindow \in Nat /\ SenderWindow + U16 <= MaxSeqNum
      /\ Confirmed \in 0 .. NumPackets
  BY <1>1, CountTypes, SenderWindowType
<1>3. /\ Confirmed \in Nat /\ SenderWindow + 1 \in Nat /\ m \in 0 .. MaxSeqNum - 1
      /\ Confirmed + SenderWindow <= MaxSeqNum
      /\ Confirmed + (SenderWindow + 1) <= MaxSeqNum
  BY <1>2
<1>4. CASE mode = "RBN"
  <2>1. PacketSeq(m) \in Window(PacketSeq(Confirmed), SenderWindow + 1)
          <=> Confirmed <= m /\ m < Confirmed + (SenderWindow + 1)
    BY <1>1, <1>3, PacketInWindow
  <2>2. m < Confirmed + (SenderWindow + 1) <=> m <= Confirmed + SenderWindow
    BY <1>2, <1>3
  <2>3. QED
    BY <1>1, <1>4, <2>1, <2>2 DEF SenderKeys
<1>5. CASE mode # "RBN"
  <2>1. PacketSeq(m) \in Window(PacketSeq(Confirmed), SenderWindow)
          <=> Confirmed <= m /\ m < Confirmed + SenderWindow
    BY <1>1, <1>2, <1>3, PacketInWindow
  <2>2. QED
    BY <1>1, <1>5, <2>1 DEF SenderKeys
<1>6. QED
  BY <1>4, <1>5

\* How many packets enter the window when it moves n on.
LEMMA FreshCount ==
  ASSUME TypeOK, sNext = Lesser(NumPackets, Confirmed + SenderWindow), NEW n \in 0 .. sRemaining
  PROVE  /\ Fresh(n) \in Nat /\ (Fresh(n) > 0 => Confirmed + SenderWindow = sNext)
         /\ sNext + Fresh(n) <= NumPackets
         /\ sNext + Fresh(n) = Lesser(NumPackets, Confirmed + n + SenderWindow)
         /\ Confirmed + SenderWindow \in 0 .. MaxSeqNum - 1
         /\ Confirmed + SenderWindow + Fresh(n) <= MaxSeqNum
         /\ Confirmed + n \in 0 .. NumPackets /\ Confirmed <= Confirmed + n
         /\ Confirmed + n \in Nat /\ Confirmed + n <= MaxSeqNum
         /\ Confirmed + SenderWindow <= MaxSeqNum
         /\ SenderWindow + 1 \in Nat /\ Confirmed + n + (SenderWindow + 1) <= MaxSeqNum
<1>1. /\ NumPackets \in 0 .. U16 - 1 /\ MaxSeqNum \in Nat \ {0}
      /\ U16 \in Nat \ {0} /\ U16 <= MaxSeqNum
      /\ SenderWindow \in Nat /\ SenderWindow + U16 <= MaxSeqNum
      /\ Confirmed \in 0 .. NumPackets /\ Confirmed + sRemaining = NumPackets
  BY CountTypes, SenderWindowType
<1>2. sRemaining \in Nat /\ Confirmed \in Nat /\ n \in Nat /\ n <= sRemaining
  <2>1. sRemaining \in 0 .. NumPackets
    BY DEF TypeOK
  <2>2. QED
    BY <1>1, <2>1
<1>3. CASE sRemaining <= SenderWindow
  <2>1. Fresh(n) = 0 /\ sNext = NumPackets
    BY <1>1, <1>2, <1>3 DEF Fresh, Lesser
  <2>2. QED
    BY <1>1, <1>2, <1>3, <2>1 DEF Lesser
<1>4. CASE sRemaining > SenderWindow
  <2>1. sNext = Confirmed + SenderWindow
    BY <1>1, <1>2, <1>4 DEF Lesser
  <2>2. CASE n <= sRemaining - SenderWindow
    <3>1. Fresh(n) = n
      BY <1>1, <1>2, <1>4, <2>2 DEF Fresh, Lesser
    <3>2. QED
      BY <1>1, <1>2, <1>4, <2>1, <2>2, <3>1 DEF Lesser
  <2>3. CASE n > sRemaining - SenderWindow
    <3>1. Fresh(n) = sRemaining - SenderWindow
      BY <1>1, <1>2, <1>4, <2>3 DEF Fresh, Lesser
    <3>2. QED
      BY <1>1, <1>2, <1>4, <2>1, <2>3, <3>1 DEF Lesser
  <2>4. QED
    BY <1>1, <1>2, <2>2, <2>3
<1>5. QED
  BY <1>1, <1>2, <1>3, <1>4

\* RBN: the packets from the c-th on that are read, or among the next ones to
\* be read, have keys in a window that starts there.
LEMMA RbnKeys ==
  ASSUME IInv, mode = "RBN", sPhase = "data", NEW c \in Nat, NEW fresh \in Nat,
         Confirmed <= c, c + (SenderWindow + 1) <= MaxSeqNum,
         sNext + fresh = Lesser(NumPackets, c + SenderWindow),
         NEW k \in 0 .. MaxSeqNum - 1, c <= k, k < sNext + fresh
  PROVE  /\ PacketSeq(k) \in SenderKeys(PacketSeq(c))
         /\ k < sNext => PacketSeq(k) \in DOMAIN sWindow /\ sWindow[PacketSeq(k)]
         /\ k >= sNext => fresh > 0 /\ Offset(PacketSeq(sNext), PacketSeq(k)) < fresh
<1>1. /\ TypeOK /\ sNext = Lesser(NumPackets, Confirmed + SenderWindow)
      /\ sNext \in Nat /\ NumPackets \in Nat
  BY CounterTypes DEF IInv, SenderOK
<1>2. /\ SenderWindow \in Nat /\ Confirmed \in Nat /\ NumPackets < MaxSeqNum
      /\ MaxSeqNum \in Nat \ {0} /\ k \in Nat
  BY <1>1, CountTypes, SenderWindowType
<1>3. /\ sNext <= Confirmed + SenderWindow /\ sNext <= NumPackets
      /\ sNext + fresh <= c + SenderWindow /\ sNext + fresh <= NumPackets
  BY <1>1, <1>2 DEF Lesser
<1>4. PacketSeq(k) \in SenderKeys(PacketSeq(c))
  <2>1. k < c + (SenderWindow + 1) /\ SenderWindow + 1 \in Nat
    BY <1>1, <1>2, <1>3
  <2>2. PacketSeq(k) \in Window(PacketSeq(c), SenderWindow + 1)
    BY <1>1, <2>1, PacketInWindow
  <2>3. QED
    BY <2>2 DEF SenderKeys
<1>5. ASSUME k < sNext
      PROVE  PacketSeq(k) \in DOMAIN sWindow /\ sWindow[PacketSeq(k)]
  <2>1. k \in 0 .. NumPackets /\ Confirmed <= k /\ k <= Confirmed + SenderWindow
    BY <1>1, <1>2, <1>3, <1>5
  <2>2. QED
    BY <1>5, <2>1, InSenderWindow DEF IInv, SenderOK
<1>6. ASSUME k >= sNext
      PROVE  fresh > 0 /\ Offset(PacketSeq(sNext), PacketSeq(k)) < fresh
  <2>1. fresh > 0 /\ sNext \in 0 .. MaxSeqNum - 1 /\ sNext + fresh <= MaxSeqNum
    BY <1>1, <1>2, <1>3, <1>6
  <2>2. QED
    BY <1>1, <1>6, <2>1, PacketInBlock
<1>7. QED
  BY <1>4, <1>5, <1>6

\* The window slides over packets the receiver has written.
LEMMA SlideOK ==
  ASSUME IInv, sPhase = "data", NEW n \in 0 .. sRemaining, NEW marks, NEW last \in Nat,
         Slide(n, marks, last),
         Confirmed + n <= Delivered,
         marks \in [DOMAIN sWindow -> BOOLEAN],
         mode = "SR" =>
           \A k \in 0 .. MaxSeqNum - 1 :
             PacketSeq(k) \in DOMAIN marks /\ marks[PacketSeq(k)] => Stored(k),
         mode = "RBN" => marks = sWindow,
         UNCHANGED <<runVars, faults, rPhase, receiverVars>>,
         toSender' \in Seq(Packets), ToSet(toSender)' \subseteq ToSet(toSender)
  PROVE  IInv'
<1> DEFINE fresh == Fresh(n)
           c     == Confirmed + n
           e     == Confirmed + SenderWindow
<1>1. /\ TypeOK /\ sNext = Lesser(NumPackets, Confirmed + SenderWindow)
      /\ sCount \in 0 .. ResendMax /\ sCount < ResendMax /\ sLast \in Nat
      /\ sBase = PacketSeq(Confirmed)
  BY DEF IInv, TypeOK, SenderOK, SenderExited
<1>2. /\ NumPackets \in 0 .. U16 - 1 /\ NumPackets \in Nat /\ MaxSeqNum \in Nat \ {0}
      /\ U16 \in Nat \ {0} /\ U16 <= MaxSeqNum /\ sNext \in Nat
      /\ SenderWindow \in Nat /\ SenderWindow + U16 <= MaxSeqNum
  BY <1>1, CountTypes, SenderWindowType, CounterTypes
<1>3. /\ Confirmed \in 0 .. NumPackets /\ Confirmed \in Nat
      /\ sRemaining \in Nat /\ Confirmed + sRemaining = NumPackets /\ n \in Nat
  <2>1. Confirmed \in 0 .. NumPackets /\ Confirmed + sRemaining = NumPackets
    BY <1>1, SenderWindowType
  <2>2. sRemaining \in 0 .. NumPackets
    BY <1>1 DEF TypeOK
  <2>3. QED
    BY <1>2, <2>1, <2>2
<1>4. /\ fresh \in Nat /\ (fresh > 0 => e = sNext)
      /\ sNext + fresh <= NumPackets
      /\ sNext + fresh = Lesser(NumPackets, c + SenderWindow)
      /\ e \in 0 .. MaxSeqNum - 1 /\ e + fresh <= MaxSeqNum /\ c \in 0 .. NumPackets
      /\ Confirmed <= c /\ SenderWindow + 1 \in Nat /\ c + (SenderWindow + 1) <= MaxSeqNum
      /\ c \in Nat /\ c <= MaxSeqNum /\ e <= MaxSeqNum
  BY <1>1, FreshCount
<1>5. SeqAdd(sBase, n) = PacketSeq(c) /\ SeqAdd(sBase, SenderWindow) = PacketSeq(e)
  BY <1>1, <1>2, <1>3, <1>4, PacketSeqSum
<1> HIDE DEF fresh, c, e
<1>6. /\ sBase' = PacketSeq(c) /\ sRemaining' = sRemaining - n
      /\ ReadChunks(PacketSeq(e), fresh)
      /\ sWindow' = [q \in SenderKeys(PacketSeq(c)) |->
                       IF Offset(PacketSeq(e), q) < fresh THEN mode = "RBN"
                       ELSE q \in DOMAIN marks /\ marks[q]]
      /\ IF n = sRemaining
         THEN /\ sPhase' = "fin" /\ sCount' = 0 /\ sLast' = last
              /\ toReceiver' = toReceiver \cup (NewPackets(PacketSeq(e), fresh) \cup {Fin(last)})
         ELSE /\ toReceiver' = toReceiver \cup NewPackets(PacketSeq(e), fresh)
              /\ UNCHANGED <<sPhase, sCount, sLast>>
  BY <1>5 DEF Slide, Send, fresh
<1>7. /\ sNext' = sNext + fresh /\ sNext' \in 0 .. NumPackets /\ sNext <= sNext'
      /\ sData' \in [SeqNums -> Payloads]
      /\ \A k \in 0 .. MaxSeqNum - 1 :
           sData'[PacketSeq(k)] = IF k < sNext' THEN Chunk(k) ELSE NoData
  BY <1>4, <1>6, ReadChunksOK
<1>8. /\ NewPackets(PacketSeq(e), fresh) \in SUBSET Packets
      /\ \A p \in NewPackets(PacketSeq(e), fresh) : DatagramOK(p)'
  BY <1>4, <1>7, NewPacketsOK
<1>9. Confirmed' = c /\ sRemaining' \in 0 .. NumPackets
  <2>1. NumPackets - (sRemaining - n) = c /\ sRemaining - n \in 0 .. NumPackets
    BY <1>2, <1>3 DEF c
  <2>2. QED
    BY <1>6, <2>1 DEF Confirmed
<1>10. c <= Delivered /\ sNext' = Lesser(NumPackets, c + SenderWindow) /\ sNext' \in Nat
  BY <1>2, <1>4, <1>7 DEF c
<1>11. sWindow' \in [SenderKeys(sBase') -> BOOLEAN]
  BY <1>6
<1>12. mode = "SR" =>
         \A k \in 0 .. MaxSeqNum - 1 :
           PacketSeq(k) \in DOMAIN sWindow' /\ sWindow'[PacketSeq(k)] => Stored(k)
  BY <1>6
<1>13. 0 \in 0 .. ResendMax /\ 0 < ResendMax
  BY RunAssumption
<1>14. sCount' \in 0 .. ResendMax /\ sCount' < ResendMax /\ sLast' \in Nat
       /\ sPhase' \in {"data", "fin"}
  BY <1>1, <1>6, <1>13
<1>15. sPhase' = "fin" => n = sRemaining
  BY <1>6
<1>16. sPhase' = "fin" => sRemaining' = 0
  BY <1>3, <1>6, <1>15
<1>17. PICK ps \in SUBSET Packets :
         toReceiver' = toReceiver \cup ps /\ \A p \in ps : DatagramOK(p)'
  <2>1. CASE n = sRemaining
    <3>1. SenderClosing'
      BY <1>6, <2>1 DEF SenderClosing
    <3>2. Fin(last) \in Packets /\ DatagramOK(Fin(last))'
      BY <3>1, PacketTypes DEF DatagramOK, Fin
    <3>3. QED
      BY <1>6, <1>8, <2>1, <3>2
  <2>2. CASE n # sRemaining
    BY <1>6, <1>8, <2>2
  <2>3. QED
    BY <2>1, <2>2
<1>18. ASSUME mode = "RBN", NEW k \in 0 .. MaxSeqNum - 1, c <= k, k < sNext'
       PROVE  sWindow'[PacketSeq(k)]
  <2>1. k < sNext + fresh
    BY <1>7, <1>18
  <2>2. /\ PacketSeq(k) \in SenderKeys(PacketSeq(c))
        /\ k < sNext => PacketSeq(k) \in DOMAIN sWindow /\ sWindow[PacketSeq(k)]
        /\ k >= sNext => fresh > 0 /\ Offset(PacketSeq(sNext), PacketSeq(k)) < fresh
    BY <1>4, <1>18, <2>1, RbnKeys
  <2>3. CASE k < sNext
    BY <1>6, <1>18, <2>2, <2>3
  <2>4. CASE k >= sNext
    <3>1. e = sNext /\ Offset(PacketSeq(e), PacketSeq(k)) < fresh
      BY <1>4, <2>2, <2>4
    <3>2. QED
      BY <1>6, <1>18, <2>2, <3>1
  <2>5. QED
    BY <1>2, <2>3, <2>4
<1>19. QED
  BY <1>4, <1>6, <1>7, <1>9, <1>10, <1>11, <1>12, <1>14, <1>16, <1>17, <1>18, SenderAdvance

\* A cumulative acknowledgement moves base no further than the packet it names.
LEMMA RbnStepsReach ==
  ASSUME IInv, NEW m \in 0 .. NumPackets, PacketSeq(m) \in DOMAIN sWindow
  PROVE  /\ RbnSteps(PacketSeq(m)) \in 0 .. sRemaining
         /\ Confirmed + RbnSteps(PacketSeq(m)) <= m
<1>1. Confirmed <= m
  BY InSenderWindow
<1>2. TypeOK /\ sBase = PacketSeq(Confirmed)
  BY DEF IInv, SenderOK
<1>3. /\ NumPackets \in Nat /\ MaxSeqNum \in Nat \ {0} /\ NumPackets < MaxSeqNum
      /\ Confirmed \in Nat /\ sRemaining \in Nat /\ Confirmed + sRemaining = NumPackets
  <2>1. NumPackets \in 0 .. U16 - 1 /\ MaxSeqNum \in Nat \ {0}
        /\ U16 \in Nat \ {0} /\ U16 <= MaxSeqNum
    BY CountTypes
  <2>2. Confirmed \in 0 .. NumPackets /\ Confirmed + sRemaining = NumPackets
    BY <1>2, SenderWindowType
  <2>3. sRemaining \in 0 .. NumPackets
    BY <1>2 DEF TypeOK
  <2>4. QED
    BY <2>1, <2>2, <2>3
<1>4. m - Confirmed \in 0 .. MaxSeqNum - 1 /\ Confirmed + (m - Confirmed) = m
      /\ Confirmed + (m - Confirmed) <= MaxSeqNum
  BY <1>1, <1>3
<1>5. /\ PacketSeq(m) = SeqAdd(sBase, m - Confirmed)
      /\ sBase \in SeqNums /\ PacketSeq(m) \in SeqNums
  BY <1>2, <1>3, <1>4, PacketSeqSum, PacketSeqType
<1>6. CASE sBase < PacketSeq(m)
  <2>1. PacketSeq(m) - sBase = m - Confirmed
    BY <1>4, <1>5, <1>6, GreaterIsAhead
  <2>2. RbnSteps(PacketSeq(m)) = Lesser(m - Confirmed, sRemaining)
    BY <1>6, <2>1 DEF RbnSteps
  <2>3. QED
    BY <1>1, <1>3, <2>2 DEF Lesser
<1>7. CASE ~(sBase < PacketSeq(m))
  BY <1>1, <1>3, <1>7 DEF RbnSteps
<1>8. QED
  BY <1>6, <1>7

\* A cumulative acknowledgement moves base no further than the packets written.
LEMMA RbnStepsOK ==
  ASSUME IInv, mode = "RBN", NEW p, ReplyOK(p), p.flags = "ACK", p.seq \in DOMAIN sWindow
  PROVE  /\ RbnSteps(p.seq) \in 0 .. sRemaining
         /\ Confirmed + RbnSteps(p.seq) <= Delivered
<1>1. PICK m \in 0 .. NumPackets : p.seq = PacketSeq(m) /\ m <= Delivered
  BY DEF ReplyOK
<1>2. RbnSteps(p.seq) \in 0 .. sRemaining /\ Confirmed + RbnSteps(p.seq) <= m
  BY <1>1, RbnStepsReach
<1>3. TypeOK /\ Delivered \in Nat /\ sRemaining \in 0 .. NumPackets
  BY DEF IInv, TypeOK, Delivered
<1>4. NumPackets \in Nat /\ Confirmed \in Nat
  BY <1>3, CountTypes, SenderWindowType
<1>5. QED
  BY <1>1, <1>2, <1>3, <1>4

\* A step that takes a reply and does nothing else, or ends the process.
LEMMA SenderIdleOK ==
  ASSUME IInv, sPhase = "data", sPhase' \in {"data", "failed"},
         UNCHANGED <<toReceiver, senderVars>>,
         UNCHANGED <<runVars, faults, rPhase, receiverVars>>,
         toSender' \in Seq(Packets), ToSet(toSender)' \subseteq ToSet(toSender)
  PROVE  IInv'
<1>1. toReceiver' = toReceiver \cup {} /\ UNCHANGED transferVars /\ sCount' = sCount
  BY DEF senderVars, transferVars
<1>2. sCount' \in 0 .. ResendMax /\ (~SenderExited' => sCount' < ResendMax)
  BY <1>1 DEF IInv, TypeOK, SenderOK, SenderExited
<1>3. ~SenderClosing /\ ~SenderClosing'
  BY DEF SenderClosing
<1>4. {} \in SUBSET Packets /\ \A p \in {} : DatagramOK(p)
  OBVIOUS
<1>5. QED
  BY <1>1, <1>2, <1>3, <1>4, SenderFrame

LEMMA AckRbnOK ==
  ASSUME IInv, sPhase = "data", NEW p \in Packets, ReplyOK(p), p.flags = "ACK", SAckRbn(p),
         UNCHANGED <<runVars, faults, rPhase, receiverVars>>,
         toSender' \in Seq(Packets), ToSet(toSender)' \subseteq ToSet(toSender)
  PROVE  IInv'
<1>1. mode = "RBN" /\ p.seq \in Nat
  BY DEF SAckRbn, Packets
<1>2. CASE sPhase' = "failed" /\ UNCHANGED <<toReceiver, senderVars>>
  BY <1>2, SenderIdleOK
<1>3. CASE p.seq \in DOMAIN sWindow /\ Slide(RbnSteps(p.seq), sWindow, p.seq)
  <2>1. /\ RbnSteps(p.seq) \in 0 .. sRemaining
        /\ Confirmed + RbnSteps(p.seq) <= Delivered
    BY <1>1, <1>3, RbnStepsOK
  <2>2. sWindow \in [DOMAIN sWindow -> BOOLEAN] /\ mode # "SR"
    BY <1>1 DEF IInv, TypeOK
  <2>3. QED
    BY <1>1, <1>3, <2>1, <2>2, SlideOK
<1>4. QED
  BY <1>2, <1>3 DEF SAckRbn

\* SR: what is marked after an acknowledgement the receiver holds.
LEMMA MarksOK ==
  ASSUME IInv, mode = "SR", NEW p, ReplyOK(p), p.flags = "ACK", p.seq \in DOMAIN sWindow,
         NEW marks, marks = [sWindow EXCEPT ![p.seq] = TRUE]
  PROVE  /\ marks \in [DOMAIN sWindow -> BOOLEAN]
         /\ \A k \in 0 .. MaxSeqNum - 1 :
              PacketSeq(k) \in DOMAIN marks /\ marks[PacketSeq(k)] => Stored(k)
<1>1. TypeOK /\ sWindow \in [DOMAIN sWindow -> BOOLEAN]
  BY DEF IInv, TypeOK
<1>2. marks \in [DOMAIN sWindow -> BOOLEAN]
  BY <1>1
<1>3. PICK m \in 0 .. NumPackets : p.seq = PacketSeq(m) /\ Stored(m)
  BY DEF ReplyOK
<1>4. m \in 0 .. MaxSeqNum - 1
  BY CountTypes
<1>5. ASSUME NEW k \in 0 .. MaxSeqNum - 1,
             PacketSeq(k) \in DOMAIN marks, marks[PacketSeq(k)]
      PROVE  Stored(k)
  <2>1. CASE PacketSeq(k) = p.seq
    BY <1>1, <1>3, <1>4, <2>1, PacketSeqInjective
  <2>2. CASE PacketSeq(k) # p.seq
    BY <1>1, <1>2, <1>5, <2>2 DEF IInv, SenderOK
  <2>3. QED
    BY <2>1, <2>2
<1>6. QED
  BY <1>2, <1>5

\* SR: a run of acknowledged packets at base has been written, because the
\* packet at the receiver's base is in none of its books.
LEMMA AckedRunOK ==
  ASSUME IInv, mode = "SR", NEW marks, marks \in [DOMAIN sWindow -> BOOLEAN],
         \A k \in 0 .. MaxSeqNum - 1 :
           PacketSeq(k) \in DOMAIN marks /\ marks[PacketSeq(k)] => Stored(k),
         NEW n \in 1 .. Lesser(SenderWindow, sRemaining), AckedRun(marks, n)
  PROVE  n \in 0 .. sRemaining /\ Confirmed + n <= Delivered
<1>1. /\ TypeOK /\ sBase = PacketSeq(Confirmed) /\ Confirmed <= Delivered
      /\ Delivered \in Nat
      /\ PacketSeq(Delivered) \in DOMAIN rWindow => ~rWindow[PacketSeq(Delivered)]
  BY DEF IInv, TypeOK, SenderOK, ReceiverOK, Delivered
<1>2. /\ NumPackets \in 0 .. U16 - 1 /\ MaxSeqNum \in Nat \ {0}
      /\ U16 \in Nat \ {0} /\ U16 <= MaxSeqNum
      /\ SenderWindow \in Nat /\ SenderWindow + U16 <= MaxSeqNum
      /\ Confirmed \in 0 .. NumPackets /\ Confirmed + sRemaining = NumPackets
  BY <1>1, CountTypes, SenderWindowType
<1>3. sRemaining \in Nat
  BY <1>1 DEF TypeOK
<1>4. n \in Nat /\ n <= SenderWindow /\ n <= sRemaining
  BY <1>2, <1>3 DEF Lesser
<1>5. ASSUME Confirmed + n > Delivered
      PROVE  FALSE
  <2>1. /\ Delivered - Confirmed \in 0 .. n - 1 /\ Delivered - Confirmed \in Nat
        /\ Confirmed + (Delivered - Confirmed) = Delivered
        /\ Confirmed + (Delivered - Confirmed) <= MaxSeqNum
        /\ Delivered \in 0 .. NumPackets /\ Delivered \in 0 .. MaxSeqNum - 1
        /\ Delivered < Confirmed + SenderWindow
    BY <1>1, <1>2, <1>3, <1>4, <1>5
  <2>2. marks[SeqAdd(sBase, Delivered - Confirmed)]
    BY <2>1 DEF AckedRun
  <2>3. SeqAdd(sBase, Delivered - Confirmed) = PacketSeq(Delivered)
    BY <1>1, <1>2, <2>1, PacketSeqSum
  <2>4. PacketSeq(Delivered) \in DOMAIN marks
    BY <1>1, <2>1, InSenderWindow
  <2>5. Stored(Delivered)
    BY <2>1, <2>2, <2>3, <2>4
  <2>6. QED
    BY <1>1, <2>5 DEF Stored
<1>6. QED
  BY <1>1, <1>2, <1>3, <1>4, <1>5

\* SR: a mark alone changes nothing else.
LEMMA AckMarkOK ==
  ASSUME IInv, sPhase = "data", mode = "SR", NEW marks, sWindow' = marks,
         marks \in [DOMAIN sWindow -> BOOLEAN],
         mode = "SR" =>
           \A k \in 0 .. MaxSeqNum - 1 :
             PacketSeq(k) \in DOMAIN marks /\ marks[PacketSeq(k)] => Stored(k),
         UNCHANGED <<toReceiver, sPhase, sCount, sBase, sData, sNext, sRemaining, sLast>>,
         UNCHANGED <<runVars, faults, rPhase, receiverVars>>,
         toSender' \in Seq(Packets), ToSet(toSender)' \subseteq ToSet(toSender)
  PROVE  IInv'
<1>1. /\ TypeOK /\ sBase = PacketSeq(Confirmed) /\ Confirmed <= Delivered
      /\ DOMAIN sWindow = SenderKeys(sBase)
      /\ sNext = Lesser(NumPackets, Confirmed + SenderWindow)
      /\ sCount < ResendMax
      /\ \A n \in 0 .. MaxSeqNum - 1 :
           sData[PacketSeq(n)] = IF n < sNext THEN Chunk(n) ELSE NoData
  BY DEF IInv, TypeOK, SenderOK, SenderExited
<1>2. Confirmed \in 0 .. NumPackets /\ sNext \in Nat
  BY <1>1, SenderWindowType, CounterTypes
<1>3. Confirmed' = Confirmed
  BY DEF Confirmed
<1>4. /\ sNext' \in 0 .. NumPackets /\ sNext' \in Nat /\ sNext <= sNext'
      /\ sData' \in [SeqNums -> Payloads] /\ sRemaining' \in 0 .. NumPackets
      /\ sCount' \in 0 .. ResendMax /\ sCount' < ResendMax /\ sLast' \in Nat
  BY <1>1, <1>2 DEF TypeOK
<1>5. \A n \in 0 .. MaxSeqNum - 1 :
        sData'[PacketSeq(n)] = IF n < sNext' THEN Chunk(n) ELSE NoData
  BY <1>1
<1>6. sBase' = PacketSeq(Confirmed) /\ sWindow' \in [SenderKeys(sBase') -> BOOLEAN]
  BY <1>1
<1>7. /\ sNext' = Lesser(NumPackets, Confirmed + SenderWindow) /\ sPhase' = "data"
      /\ toReceiver' = toReceiver \cup {}
  BY <1>1
<1>8. {} \in SUBSET Packets /\ \A p \in {} : DatagramOK(p)
  OBVIOUS
<1>9. QED
  BY <1>1, <1>2, <1>3, <1>4, <1>5, <1>6, <1>7, <1>8, SenderAdvance

LEMMA AckSrOK ==
  ASSUME IInv, sPhase = "data", NEW p \in Packets, ReplyOK(p), p.flags = "ACK", SAckSr(p),
         UNCHANGED <<runVars, faults, rPhase, receiverVars>>,
         toSender' \in Seq(Packets), ToSet(toSender)' \subseteq ToSet(toSender)
  PROVE  IInv'
<1>1. mode = "SR" /\ p.seq \in Nat
  BY DEF SAckSr, Packets
<1>2. CASE ~(p.seq \in DOMAIN sWindow /\ ~sWindow[p.seq])
  BY <1>2, SenderIdleOK DEF SAckSr
<1>3. CASE p.seq \in DOMAIN sWindow
  <2>1. PICK marks : marks = [sWindow EXCEPT ![p.seq] = TRUE]
    OBVIOUS
  <2>2. /\ marks \in [DOMAIN sWindow -> BOOLEAN]
        /\ \A k \in 0 .. MaxSeqNum - 1 :
             PacketSeq(k) \in DOMAIN marks /\ marks[PacketSeq(k)] => Stored(k)
    BY <1>1, <1>3, <2>1, MarksOK
  <2>3. CASE SAckBase(p)
    <3>1. PICK n \in 1 .. Lesser(SenderWindow, sRemaining) :
            AckedRun(marks, n) /\ Slide(n, marks, p.seq + n)
      BY <2>1, <2>3 DEF SAckBase
    <3>2. n \in 0 .. sRemaining /\ Confirmed + n <= Delivered
      BY <1>1, <2>2, <3>1, AckedRunOK
    <3>3. p.seq + n \in Nat
      BY <1>1, <3>1
    <3>4. QED
      BY <1>1, <2>2, <3>1, <3>2, <3>3, SlideOK
  <2>4. CASE SAckMark(p)
    BY <1>1, <2>1, <2>2, <2>4, AckMarkOK DEF SAckMark
  <2>5. CASE UNCHANGED <<toReceiver, sPhase, senderVars>>
    BY <2>5, SenderIdleOK
  <2>6. QED
    BY <2>3, <2>4, <2>5 DEF SAckSr
<1>4. QED
  BY <1>2, <1>3

LEMMA DataReceiveOK ==
  ASSUME IInv, SDataReceive, UNCHANGED receiverVars
  PROVE  IInv'
<1>1. TypeOK /\ sPhase = "data" /\ UNCHANGED <<runVars, faults, rPhase>>
  BY DEF IInv, SDataReceive
<1>2. PICK i \in Deliverable :
        /\ TakeReply(i)
        /\ IF toSender[i].flags = "ACK" THEN SAckRbn(toSender[i]) \/ SAckSr(toSender[i])
           ELSE UNCHANGED <<toReceiver, sPhase, senderVars>>
  BY DEF SDataReceive
<1>3. toSender' \in Seq(Packets) /\ ToSet(toSender)' \subseteq ToSet(toSender)
      /\ toSender[i] \in ToSet(toSender) /\ toSender[i] \in Packets
  BY <1>1, <1>2, TakeReplySubset
<1>4. ReplyOK(toSender[i])
  BY <1>3 DEF IInv, MessagesOK
<1>5. CASE toSender[i].flags = "ACK"
  BY <1>1, <1>2, <1>3, <1>4, <1>5, AckRbnOK, AckSrOK
<1>6. CASE toSender[i].flags # "ACK"
  BY <1>1, <1>2, <1>3, <1>6, SenderIdleOK
<1>7. QED
  BY <1>5, <1>6

LEMMA SenderStepOK ==
  ASSUME IInv, Sender
  PROVE  IInv'
<1>1. UNCHANGED receiverVars
  BY DEF Sender
<1>2. CASE SStart
  BY <1>1, <1>2, StartOK
<1>3. CASE SSynTimeout
  BY <1>1, <1>3, SynTimeoutOK
<1>4. CASE SSynReceive
  BY <1>1, <1>4, SynReceiveOK
<1>5. CASE SSynWaitReceive
  BY <1>1, <1>5, SynWaitReceiveOK
<1>6. CASE SSynWaitTimeout
  BY <1>1, <1>6, SynWaitTimeoutOK
<1>7. CASE SDataTimeout
  BY <1>1, <1>7, DataTimeoutOK
<1>8. CASE SDataReceive
  BY <1>1, <1>8, DataReceiveOK
<1>9. CASE SFinTimeout
  BY <1>1, <1>9, FinTimeoutOK
<1>10. CASE SFinReceive
  BY <1>1, <1>10, FinReceiveOK
<1>11. CASE SFinWaitReceive
  BY <1>1, <1>11, FinWaitReceiveOK
<1>12. CASE SFinWaitTimeout
  BY <1>1, <1>12, FinWaitTimeoutOK
<1>13. QED
  BY <1>2, <1>3, <1>4, <1>5, <1>6, <1>7, <1>8, <1>9, <1>10, <1>11, <1>12
  DEF Sender, SenderNext

------------------------------------------------------------------------------
(* Steps of the receiver that leave its file and its window alone. *)

LEMMA ReceiverFrame ==
  ASSUME IInv,
         UNCHANGED <<runVars, faults, sPhase, senderVars, fileVars>>,
         rCount' \in 0 .. ResendMax, rSyn' \in SeqNums,
         rPhase' \in {"listen", "synrcvd", "data", "finack", "done", "refused", "crashed"},
         Connected' <=> Connected,
         rPhase \in {"finack", "done"} => rPhase' \in {"finack", "done"},
         rPhase' = "synrcvd" => rSyn' = initSeq,
         rPhase' = "finack" => SenderClosing,
         toReceiver' \subseteq toReceiver,
         toSender' \in Seq(Packets),
         \A p \in ToSet(toSender)' : ReplyOK(p) \/ ReplyOK(p)'
  PROVE  IInv'
<1>1. /\ UNCHANGED runVars /\ UNCHANGED senderVars /\ UNCHANGED fileVars
      /\ faults' = faults /\ sPhase' = sPhase /\ TypeOK
  BY DEF IInv
<1>2. TypeOK'
  BY <1>1, SameRun DEF TypeOK, runVars, senderVars, fileVars
<1>3. Delivered' = Delivered /\ Delivered \in Nat /\ Confirmed' = Confirmed
      /\ (\A n : Stored(n)' <=> Stored(n)) /\ sNext \in Nat
  BY <1>1, SameRun, CounterTypes
  DEF fileVars, senderVars, Delivered, Confirmed, Stored, TypeOK
<1>4. SenderClosing' <=> SenderClosing
  BY <1>1 DEF SenderClosing
<1>5. MessagesOK'
  <2>1. \A p \in toReceiver' : DatagramOK(p)'
    <3>1. sNext' = sNext
      BY <1>1 DEF senderVars
    <3>2. QED
      BY <1>1, <1>3, <1>4, <3>1, DatagramStable DEF IInv, MessagesOK
  <2>2. \A p \in ToSet(toSender)' : ReplyOK(p)'
    BY <1>1, <1>3, ReplyStable
  <2>3. QED
    BY <2>1, <2>2 DEF MessagesOK
<1>6. SenderOK'
  BY <1>1, <1>3, <1>4, SameRun DEF IInv, SenderOK, senderVars, SenderExited
<1>7. ReceiverOK'
  BY <1>1, <1>3, <1>4, SameRun DEF IInv, ReceiverOK, PrefixWritten, senderVars, fileVars, runVars
<1>8. QED
  BY <1>2, <1>5, <1>6, <1>7 DEF IInv

\* Taking a datagram leaves datagrams that were there.
LEMMA ReceiveSubset ==
  ASSUME NEW p, Receive(p)
  PROVE  p \in toReceiver /\ toReceiver' \subseteq toReceiver
BY DEF Receive

\* A reply that is sound when it is sent keeps the queue sound.
LEMMA ReplyQueueOK ==
  ASSUME IInv, NEW p \in Packets, Reply(p), ReplyOK(p) \/ ReplyOK(p)'
  PROVE  /\ toSender' \in Seq(Packets)
         /\ \A r \in ToSet(toSender)' : ReplyOK(r) \/ ReplyOK(r)'
<1>1. TypeOK /\ \A r \in ToSet(toSender) : ReplyOK(r)
  BY DEF IInv, MessagesOK
<1>2. ToSet(toSender)' \subseteq ToSet(toSender) \cup {p} /\ toSender' \in Seq(Packets)
  BY <1>1, ReplySubset
<1>3. QED
  BY <1>1, <1>2

LEMMA SilentQueueOK ==
  ASSUME IInv, UNCHANGED toSender
  PROVE  /\ toSender' \in Seq(Packets)
         /\ \A r \in ToSet(toSender)' : ReplyOK(r) \/ ReplyOK(r)'
<1>1. ToSet(toSender)' = ToSet(toSender)
  OBVIOUS
<1>2. \A r \in ToSet(toSender) : ReplyOK(r)
  BY DEF IInv, MessagesOK
<1>3. QED
  BY <1>1, <1>2 DEF IInv, TypeOK

LEMMA SynAckOK ==
  ASSUME NEW s \in SeqNums
  PROVE  SynAck(SeqAdd(s, 1)) \in Packets /\ ReplyOK(SynAck(SeqAdd(s, 1)))
<1>1. s \in Nat
  BY DEF SeqNums
<1>2. SeqAdd(s, 1) \in SeqNums
  BY <1>1, SeqAddType
<1>3. SeqAdd(s, 1) \in Nat
  BY <1>2 DEF SeqNums
<1>4. QED
  BY <1>3, PacketTypes DEF ReplyOK, SynAck

LEMMA ListenTimeoutOK ==
  ASSUME IInv, RListenTimeout, UNCHANGED senderVars
  PROVE  IInv'
<1>1. rPhase = "listen" /\ rPhase' = "refused" /\ UNCHANGED <<toReceiver, toSender>>
      /\ UNCHANGED <<runVars, faults, sPhase, senderVars, fileVars>>
      /\ UNCHANGED <<rCount, rSyn>>
  BY DEF RListenTimeout, netVars, receiverVars, fileVars
<1>2. ~Connected /\ ~Connected'
  BY <1>1 DEF Connected
<1>3. rCount' \in 0 .. ResendMax /\ rSyn' \in SeqNums /\ toReceiver' \subseteq toReceiver
  BY <1>1 DEF IInv, TypeOK
<1>4. QED
  BY <1>1, <1>2, <1>3, SilentQueueOK, ReceiverFrame

LEMMA ListenReceiveOK ==
  ASSUME IInv, RListenReceive, UNCHANGED senderVars
  PROVE  IInv'
<1>1. /\ rPhase = "listen" /\ UNCHANGED <<runVars, faults, sPhase, senderVars, fileVars>>
      /\ rCount \in 0 .. ResendMax /\ rSyn \in SeqNums
  BY DEF RListenReceive, IInv, TypeOK
<1>2. PICK p \in toReceiver :
       /\ Receive(p)
       /\ \/ /\ ~IsControl(p)
             /\ Silent /\ UNCHANGED <<rPhase, rCount, rSyn>>
          \/ /\ p.flags = "SYN"
             /\ rPhase' = "synrcvd"
             /\ rSyn' = p.seq
             /\ rCount' = 1
             /\ Reply(SynAck(SeqAdd(p.seq, 1)))
          \/ /\ IsControl(p) /\ p.flags # "SYN"
             /\ rPhase' = "refused"
             /\ Silent /\ UNCHANGED <<rCount, rSyn>>
  BY DEF RListenReceive
<1>3. toReceiver' \subseteq toReceiver /\ DatagramOK(p)
  BY <1>2, ReceiveSubset DEF IInv, MessagesOK
<1>4. CASE Silent /\ UNCHANGED <<rPhase, rCount, rSyn>>
  <2>1. ~Connected /\ ~Connected'
    BY <1>1, <1>4 DEF Connected
  <2>2. QED
    BY <1>1, <1>3, <1>4, <2>1, SilentQueueOK, ReceiverFrame DEF Silent
<1>5. CASE p.flags = "SYN" /\ rPhase' = "synrcvd" /\ rSyn' = p.seq /\ rCount' = 1
           /\ Reply(SynAck(SeqAdd(p.seq, 1)))
  <2>1. p.seq = initSeq /\ initSeq \in SeqNums
    BY <1>3, <1>5, RunAssumption DEF DatagramOK, IInv, TypeOK, SeqNums
  <2>2. 1 \in 0 .. ResendMax
    BY RunAssumption
  <2>3. ~Connected /\ ~Connected'
    BY <1>1, <1>5 DEF Connected
  <2>4. /\ toSender' \in Seq(Packets)
        /\ \A r \in ToSet(toSender)' : ReplyOK(r) \/ ReplyOK(r)'
    BY <1>5, <2>1, SynAckOK, ReplyQueueOK
  <2>5. QED
    BY <1>1, <1>3, <1>5, <2>1, <2>2, <2>3, <2>4, ReceiverFrame
<1>6. CASE rPhase' = "refused" /\ Silent /\ UNCHANGED <<rCount, rSyn>>
  <2>1. ~Connected /\ ~Connected'
    BY <1>1, <1>6 DEF Connected
  <2>2. QED
    BY <1>1, <1>3, <1>6, <2>1, SilentQueueOK, ReceiverFrame DEF Silent
<1>7. QED
  BY <1>2, <1>4, <1>5, <1>6

LEMMA RetrySynAckOK ==
  ASSUME IInv, rPhase = "synrcvd", RetrySynAck, toReceiver' \subseteq toReceiver,
         UNCHANGED <<runVars, faults, sPhase, senderVars>>
  PROVE  IInv'
<1>1. /\ rCount \in 0 .. ResendMax /\ rSyn \in SeqNums /\ rSyn = initSeq
      /\ initSeq' = initSeq
  BY DEF IInv, TypeOK, ReceiverOK, runVars
<1>2. rSyn' = rSyn /\ UNCHANGED fileVars
  BY DEF RetrySynAck
<1>3. CASE rCount < ResendMax
  <2>1. rCount' = rCount + 1 /\ rPhase' = rPhase /\ Reply(SynAck(SeqAdd(rSyn, 1)))
    BY <1>3 DEF RetrySynAck
  <2>2. rCount' \in 0 .. ResendMax
    BY <1>1, <1>3, <2>1, CountedOnce
  <2>3. ~Connected /\ ~Connected'
    BY <2>1 DEF Connected
  <2>4. /\ toSender' \in Seq(Packets)
        /\ \A r \in ToSet(toSender)' : ReplyOK(r) \/ ReplyOK(r)'
    BY <1>1, <2>1, SynAckOK, ReplyQueueOK
  <2>5. QED
    BY <1>1, <1>2, <2>1, <2>2, <2>3, <2>4, ReceiverFrame
<1>4. CASE ~(rCount < ResendMax)
  <2>1. rPhase' = "refused" /\ UNCHANGED toSender /\ rCount' = rCount
    BY <1>4 DEF RetrySynAck, Silent
  <2>2. ~Connected /\ ~Connected'
    BY <2>1 DEF Connected
  <2>3. QED
    BY <1>1, <1>2, <2>1, <2>2, SilentQueueOK, ReceiverFrame
<1>5. QED
  BY <1>3, <1>4

LEMMA SynTimeoutReceiverOK ==
  ASSUME IInv, RSynTimeout, UNCHANGED senderVars
  PROVE  IInv'
BY RetrySynAckOK DEF RSynTimeout

------------------------------------------------------------------------------
(* Steps of the receiver that set up its window or write to the file. *)

\* A step to or in the data phase keeps the invariant when the d packets
\* then written and the window ahead of them fit together.
LEMMA ReceiverAdvance ==
  ASSUME IInv, rPhase \in {"synrcvd", "data"}, rPhase' = "data",
         UNCHANGED <<runVars, faults, sPhase, senderVars, rCount, rSyn>>,
         rOpen' \in 0 .. FdLimit, written' \in Seq(Payloads),
         rData' \in [SeqNums -> Payloads],
         NEW d \in Nat, Delivered' = d, Delivered <= d, d <= sNext,
         \A i \in 1 .. d : written'[i] = Chunk(i - 1),
         rBase' = PacketSeq(d),
         rWindow' \in [Window(PacketSeq(d), ReceiverWindow) -> BOOLEAN],
         PacketSeq(d) \in DOMAIN rWindow' => ~rWindow'[PacketSeq(d)],
         \A k \in 0 .. MaxSeqNum - 1 :
           PacketSeq(k) \in DOMAIN rWindow' /\ rWindow'[PacketSeq(k)] =>
             k < sNext /\ rData'[PacketSeq(k)] = Chunk(k),
         \A k \in 0 .. MaxSeqNum - 1 : Stored(k) => Stored(k)',
         toReceiver' \subseteq toReceiver,
         toSender' \in Seq(Packets),
         \A p \in ToSet(toSender)' : ReplyOK(p) \/ ReplyOK(p)'
  PROVE  IInv'
<1>1. /\ UNCHANGED runVars /\ UNCHANGED senderVars /\ UNCHANGED <<rCount, rSyn>>
      /\ faults' = faults /\ sPhase' = sPhase /\ TypeOK
  BY DEF IInv
<1>2. PacketSeq(d) \in SeqNums /\ Window(PacketSeq(d), ReceiverWindow) \subseteq SeqNums
  BY <1>1, CountTypes, PacketSeqType, WindowSubset
<1>3. TypeOK'
  BY <1>1, <1>2, SameRun DEF TypeOK, runVars, senderVars
<1>4. Delivered \in Nat /\ Confirmed' = Confirmed /\ sNext \in Nat /\ Confirmed \in Nat
      /\ Confirmed <= Delivered
  BY <1>1, CounterTypes, SenderWindowType
  DEF senderVars, Delivered, Confirmed, TypeOK, IInv, SenderOK
<1>5. SenderClosing' <=> SenderClosing
  BY <1>1 DEF SenderClosing
<1>6. sPhase # "finwait"
  BY DEF IInv, SenderOK
<1>7. MessagesOK'
  <2>1. \A p \in toReceiver' : DatagramOK(p)'
    <3>1. sNext' = sNext
      BY <1>1 DEF senderVars
    <3>2. QED
      BY <1>1, <1>4, <1>5, <3>1, DatagramStable DEF IInv, MessagesOK
  <2>2. \A p \in ToSet(toSender)' : ReplyOK(p)'
    <3>1. Delivered' \in Nat /\ Delivered <= Delivered'
          /\ ~(rPhase \in {"finack", "done"})
      BY <1>4
    <3>2. QED
      BY <1>1, <1>4, <3>1, ReplyStable
  <2>3. QED
    BY <2>1, <2>2 DEF MessagesOK
<1>8. SenderOK'
  <2>1. Confirmed <= d
    BY <1>4
  <2>2. QED
    BY <1>1, <1>4, <1>5, <1>6, <2>1, SameRun DEF IInv, SenderOK, senderVars, SenderExited
<1>9. ReceiverOK'
  <2>1. Connected'
    BY DEF Connected
  <2>2. PrefixWritten'
    BY DEF PrefixWritten
  <2>3. DOMAIN rWindow' = Window(PacketSeq(d), ReceiverWindow)
    OBVIOUS
  <2>4. QED
    BY <1>1, <1>5, <2>1, <2>2, <2>3, SameRun DEF ReceiverOK, senderVars
<1>10. QED
  BY <1>3, <1>7, <1>8, <1>9 DEF IInv

LEMMA ConnectOK ==
  ASSUME IInv, rPhase = "synrcvd", RConnect, toReceiver' \subseteq toReceiver,
         UNCHANGED <<runVars, faults, sPhase, senderVars>>
  PROVE  IInv'
<1>1. /\ TypeOK /\ rSyn = initSeq /\ written = <<>> /\ DOMAIN rWindow = {} /\ sNext \in Nat
      /\ UNCHANGED runVars
  BY CounterTypes DEF IInv, ReceiverOK, Connected
<1>2. /\ rPhase' = "data" /\ UNCHANGED toSender
      /\ UNCHANGED <<rCount, rSyn, rData, written, rOpen>>
  BY DEF RConnect, Silent
<1>3. SeqAdd(rSyn, 1) = PacketSeq(0)
  BY <1>1, PacketSeqType DEF First
<1>4. /\ rBase' = PacketSeq(0)
      /\ rWindow' = [q \in Window(PacketSeq(0), ReceiverWindow) |-> FALSE]
  BY <1>3 DEF RConnect
<1>5. Delivered = 0 /\ Delivered' = 0 /\ 0 <= sNext
  BY <1>1, <1>2 DEF Delivered
<1>6. \A k \in 0 .. MaxSeqNum - 1 : ~Stored(k)
  BY <1>1, <1>5 DEF Stored
<1>7. /\ rOpen' \in 0 .. FdLimit /\ written' \in Seq(Payloads)
      /\ rData' \in [SeqNums -> Payloads]
      /\ rWindow' \in [Window(PacketSeq(0), ReceiverWindow) -> BOOLEAN]
  BY <1>1, <1>2, <1>4 DEF TypeOK
<1>8. \A q \in DOMAIN rWindow' : ~rWindow'[q]
  BY <1>4
<1>9. /\ toSender' \in Seq(Packets)
      /\ \A r \in ToSet(toSender)' : ReplyOK(r) \/ ReplyOK(r)'
  BY <1>2, SilentQueueOK
<1>10. \A i \in 1 .. 0 : written'[i] = Chunk(i - 1)
  OBVIOUS
<1>11. QED
  BY <1>2, <1>4, <1>5, <1>6, <1>7, <1>8, <1>9, <1>10, ReceiverAdvance

LEMMA SynReceiveReceiverOK ==
  ASSUME IInv, RSynReceive, UNCHANGED senderVars
  PROVE  IInv'
<1>1. /\ rPhase = "synrcvd" /\ UNCHANGED <<runVars, faults, sPhase>>
      /\ toReceiver' \subseteq toReceiver /\ (RConnect \/ RetrySynAck)
  BY DEF RSynReceive, Receive
<1>2. QED
  BY <1>1, ConnectOK, RetrySynAckOK

\* Where a packet of the file lies in the receiver's window.
LEMMA InReceiverWindow ==
  ASSUME TypeOK, NEW d \in 0 .. NumPackets, NEW k \in 0 .. MaxSeqNum - 1
  PROVE  PacketSeq(k) \in Window(PacketSeq(d), ReceiverWindow)
           <=> d <= k /\ k < d + ReceiverWindow
<1>1. d \in Nat /\ ReceiverWindow \in Nat /\ d + ReceiverWindow <= MaxSeqNum
  BY CountTypes, SeqAssumption
<1>2. QED
  BY <1>1, PacketInWindow

\* The receiver in its data loop.
LEMMA ReceivingFacts ==
  ASSUME IInv, rPhase = "data"
  PROVE  /\ TypeOK /\ rBase = PacketSeq(Delivered) /\ rBase \in SeqNums
         /\ DOMAIN rWindow = Window(PacketSeq(Delivered), ReceiverWindow)
         /\ Delivered \in 0 .. NumPackets /\ Delivered \in Nat
         /\ sNext \in Nat /\ sNext <= NumPackets /\ Delivered <= sNext
         /\ NumPackets \in Nat /\ NumPackets \in 0 .. U16 - 1
         /\ MaxSeqNum \in Nat \ {0} /\ NumPackets < MaxSeqNum
         /\ ReceiverWindow \in Nat /\ Delivered + ReceiverWindow < MaxSeqNum
         /\ sNext + ReceiverWindow < MaxSeqNum
<1>1. /\ TypeOK /\ rBase = PacketSeq(Delivered) /\ Delivered <= sNext
      /\ DOMAIN rWindow = Window(PacketSeq(Delivered), ReceiverWindow)
  BY DEF IInv, ReceiverOK, Connected
<1>2. Delivered \in Nat /\ rBase \in SeqNums /\ sNext \in 0 .. NumPackets
  BY <1>1 DEF TypeOK, Delivered
<1>3. QED
  BY <1>1, <1>2, CountTypes, SeqAssumption

\* A data packet is some chunk the sender has read.
LEMMA DataPacket ==
  ASSUME IInv, rPhase = "data", NEW p \in toReceiver, p.flags = "DATA"
  PROVE  \E m \in 0 .. MaxSeqNum - 1 :
           /\ m < sNext /\ p.payload = Chunk(m)
           /\ p.seq % MaxSeqNum = PacketSeq(m)
<1>1. PICK m \in 0 .. NumPackets :
        m < sNext /\ p.seq = PacketSeq(m) /\ p.payload = Chunk(m)
  BY DEF IInv, MessagesOK, DatagramOK
<1>2. m \in 0 .. MaxSeqNum - 1
  BY <1>1, ReceivingFacts
<1>3. PacketSeq(m) \in SeqNums
  BY ReceivingFacts, PacketSeqType
<1>4. PacketSeq(m) % MaxSeqNum = PacketSeq(m)
  BY <1>3, SeqNumReduced
<1>5. QED
  BY <1>1, <1>2, <1>4

LEMMA AckForOK ==
  ASSUME TypeOK, NEW d \in 0 .. NumPackets, NEW m \in 0 .. NumPackets, UNCHANGED runVars,
         \/ d <= Delivered /\ (mode = "SR" => Stored(m))
         \/ d <= Delivered' /\ (mode = "SR" => Stored(m)'),
         NEW p, p = AckFor(PacketSeq(m), PacketSeq(d))
  PROVE  p \in Packets /\ (ReplyOK(p) \/ ReplyOK(p)')
<1>1. d \in Nat /\ m \in Nat /\ mode \in {"RBN", "SR"}
  BY CountTypes, RunAssumption DEF TypeOK
<1>2. PacketSeq(d) \in Nat /\ PacketSeq(m) \in Nat
  BY <1>1, PacketSeqType DEF SeqNums
<1>3. p = Ack(IF mode = "RBN" THEN PacketSeq(d) ELSE PacketSeq(m))
  BY DEF AckFor
<1>4. p.flags = "ACK" /\ p.seq = IF mode = "RBN" THEN PacketSeq(d) ELSE PacketSeq(m)
  BY <1>3 DEF Ack
<1>5. p \in Packets
  BY <1>2, <1>3, PacketTypes
<1>6. CASE d <= Delivered /\ (mode = "SR" => Stored(m))
  BY <1>1, <1>4, <1>5, <1>6 DEF ReplyOK
<1>7. CASE d <= Delivered' /\ (mode = "SR" => Stored(m)')
  <2>1. mode' = mode /\ \A n : PacketSeq(n)' = PacketSeq(n)
    BY SameRun
  <2>2. \E n \in 0 .. NumPackets :
          /\ p.seq = PacketSeq(n)'
          /\ IF mode' = "RBN" THEN n <= Delivered' ELSE Stored(n)'
    BY <1>1, <1>4, <1>7, <2>1
  <2>3. ReplyOK(p)'
    BY <1>4, <2>2 DEF ReplyOK
  <2>4. QED
    BY <1>5, <2>3
<1>8. QED
  BY <1>6, <1>7

LEMMA DuplicateOK ==
  ASSUME IInv, rPhase = "data", NEW m \in 0 .. MaxSeqNum - 1, m < sNext,
         PacketSeq(m) \in DOMAIN rWindow, RDuplicate(PacketSeq(m)),
         toReceiver' \subseteq toReceiver,
         UNCHANGED <<runVars, faults, sPhase, senderVars>>
  PROVE  IInv'
<1>1. TypeOK /\ rBase = PacketSeq(Delivered) /\ Delivered \in 0 .. NumPackets
      /\ m \in 0 .. NumPackets /\ Delivered <= Delivered
  BY ReceivingFacts
<1>2. rWindow[PacketSeq(m)] /\ Stored(m)
  BY DEF RDuplicate, Stored
<1>3. PICK p : p = AckFor(PacketSeq(m), rBase)
  OBVIOUS
<1>4. Reply(p) /\ UNCHANGED <<rPhase, receiverVars>>
  BY <1>3 DEF RDuplicate
<1>5. p \in Packets /\ (ReplyOK(p) \/ ReplyOK(p)')
  BY <1>1, <1>2, <1>3, AckForOK
<1>6. /\ toSender' \in Seq(Packets)
      /\ \A r \in ToSet(toSender)' : ReplyOK(r) \/ ReplyOK(r)'
  BY <1>4, <1>5, ReplyQueueOK
<1>7. /\ rCount' \in 0 .. ResendMax /\ rSyn' \in SeqNums /\ UNCHANGED fileVars
      /\ rPhase' = "data"
  BY <1>1, <1>4 DEF TypeOK, receiverVars, fileVars
<1>8. Connected' <=> Connected
  BY <1>7 DEF Connected
<1>9. QED
  BY <1>6, <1>7, <1>8, ReceiverFrame

\* What is in the window after a packet is stored, and where the run ends.
LEMMA StoredMarks ==
  ASSUME IInv, rPhase = "data", NEW m \in 0 .. MaxSeqNum - 1, m < sNext,
         PacketSeq(m) \in DOMAIN rWindow,
         NEW marks \in [DOMAIN rWindow -> BOOLEAN],
         \A k \in DOMAIN rWindow : marks[k] <=> k = PacketSeq(m) \/ rWindow[k],
         NEW stored \in [SeqNums -> Payloads],
         \A k \in SeqNums : stored[k] = IF k = PacketSeq(m) THEN Chunk(m) ELSE rData[k],
         NEW n \in 0 .. ReceiverWindow,
         \/ PacketSeq(m) = rBase /\ ReceivedRun(marks, n)
         \/ PacketSeq(m) # rBase /\ n = 0
  PROVE  /\ \A k \in 0 .. MaxSeqNum - 1 :
              PacketSeq(k) \in DOMAIN rWindow /\ marks[PacketSeq(k)] =>
                k < sNext /\ stored[PacketSeq(k)] = Chunk(k)
         /\ \A i \in 0 .. n - 1 : marks[PacketSeq(Delivered + i)]
         /\ n < ReceiverWindow => ~marks[PacketSeq(Delivered + n)]
<1>1. /\ TypeOK /\ rBase = PacketSeq(Delivered) /\ Delivered \in 0 .. NumPackets
      /\ Delivered \in Nat /\ ReceiverWindow \in Nat /\ MaxSeqNum \in Nat \ {0}
      /\ Delivered + ReceiverWindow < MaxSeqNum
      /\ DOMAIN rWindow = Window(PacketSeq(Delivered), ReceiverWindow)
  BY ReceivingFacts
<1>2. /\ rWindow \in [DOMAIN rWindow -> BOOLEAN] /\ rData \in [SeqNums -> Payloads]
      /\ PacketSeq(m) \in SeqNums /\ Chunk(m) \in Payloads
  BY <1>1, PacketSeqType, ChunkType DEF TypeOK
<1>3. \A k \in Nat : PacketSeq(k) \in SeqNums
  BY <1>1, PacketSeqType
<1>4. ASSUME NEW k \in 0 .. MaxSeqNum - 1,
             PacketSeq(k) \in DOMAIN rWindow, marks[PacketSeq(k)]
      PROVE  k < sNext /\ stored[PacketSeq(k)] = Chunk(k)
  <2>1. CASE PacketSeq(k) = PacketSeq(m)
    <3>1. k = m
      BY <1>1, <2>1, PacketSeqInjective
    <3>2. QED
      BY <1>2, <3>1
  <2>2. CASE PacketSeq(k) # PacketSeq(m)
    <3>1. rWindow[PacketSeq(k)] /\ stored[PacketSeq(k)] = rData[PacketSeq(k)]
      BY <1>2, <1>3, <1>4, <2>2
    <3>2. QED
      BY <1>4, <3>1 DEF IInv, ReceiverOK
  <2>3. QED
    BY <2>1, <2>2
<1>5. CASE PacketSeq(m) = rBase
  <2>1. ReceivedRun(marks, n)
    BY <1>5
  <2>2. ASSUME NEW i \in 0 .. n
        PROVE  SeqAdd(rBase, i) = PacketSeq(Delivered + i)
    <3>1. i \in Nat /\ Delivered + i <= MaxSeqNum
      BY <1>1
    <3>2. QED
      BY <1>1, <3>1, PacketSeqSum
  <2>3. \A i \in 0 .. n - 1 : marks[PacketSeq(Delivered + i)]
    BY <1>1, <2>1, <2>2 DEF ReceivedRun
  <2>4. n < ReceiverWindow => ~marks[PacketSeq(Delivered + n)]
    BY <1>1, <2>1, <2>2 DEF ReceivedRun
  <2>5. QED
    BY <1>3, <1>4, <2>3, <2>4
<1>6. CASE PacketSeq(m) # rBase
  <2>1. n = 0 /\ Delivered + n = Delivered
    BY <1>1, <1>6
  <2>2. ASSUME 0 < ReceiverWindow
        PROVE  ~marks[PacketSeq(Delivered)]
    <3>1. Delivered \in 0 .. MaxSeqNum - 1 /\ Delivered < Delivered + ReceiverWindow
      BY <1>1, <2>2
    <3>2. PacketSeq(Delivered) \in DOMAIN rWindow
      BY <1>1, <3>1, InReceiverWindow
    <3>3. ~rWindow[PacketSeq(Delivered)]
      BY <3>2 DEF IInv, ReceiverOK
    <3>4. QED
      BY <1>1, <1>2, <1>6, <3>2, <3>3
  <2>3. QED
    BY <1>3, <1>4, <2>1, <2>2
<1>7. QED
  BY <1>5, <1>6

\* The receiver stores packet m, writes the run it completes, and slides.
LEMMA StoreOK ==
  ASSUME IInv, rPhase = "data", NEW m \in 0 .. MaxSeqNum - 1, m < sNext,
         PacketSeq(m) \in DOMAIN rWindow, RStore(PacketSeq(m), Chunk(m)),
         toReceiver' \subseteq toReceiver,
         UNCHANGED <<runVars, faults, sPhase, senderVars>>
  PROVE  /\ IInv'
         /\ \A k \in 0 .. MaxSeqNum - 1 : Stored(k)' <=> Stored(k) \/ k = m
<1>1. /\ TypeOK /\ rBase = PacketSeq(Delivered) /\ rBase \in SeqNums
      /\ DOMAIN rWindow = Window(PacketSeq(Delivered), ReceiverWindow)
      /\ Delivered \in 0 .. NumPackets /\ Delivered \in Nat
      /\ sNext \in Nat /\ sNext <= NumPackets /\ Delivered <= sNext
      /\ NumPackets \in Nat /\ MaxSeqNum \in Nat \ {0} /\ NumPackets < MaxSeqNum
      /\ ReceiverWindow \in Nat /\ Delivered + ReceiverWindow < MaxSeqNum
      /\ sNext + ReceiverWindow < MaxSeqNum
  BY ReceivingFacts
<1>2. PICK marks : marks = [rWindow EXCEPT ![PacketSeq(m)] = TRUE]
  OBVIOUS
<1>3. PICK stored : stored = [rData EXCEPT ![PacketSeq(m)] = Chunk(m)]
  OBVIOUS
<1>4. PICK n \in 0 .. ReceiverWindow :
        /\ IF PacketSeq(m) = rBase THEN n > 0 /\ ReceivedRun(marks, n) ELSE n = 0
        /\ rBase' = SeqAdd(rBase, n)
        /\ rWindow' = [k \in Window(SeqAdd(rBase, n), ReceiverWindow) |->
                         k \in DOMAIN marks /\ marks[k]]
        /\ rData' = [k \in SeqNums |-> IF Offset(rBase, k) < n THEN NoData ELSE stored[k]]
        /\ written' = written \o [i \in 1 .. n |-> stored[SeqAdd(rBase, i - 1)]]
        /\ Reply(AckFor(PacketSeq(m), SeqAdd(rBase, n)))
  BY <1>2, <1>3 DEF RStore
<1>5. /\ marks \in [DOMAIN rWindow -> BOOLEAN] /\ stored \in [SeqNums -> Payloads]
      /\ \A k \in 0 .. MaxSeqNum - 1 :
           PacketSeq(k) \in DOMAIN rWindow /\ marks[PacketSeq(k)] =>
             k < sNext /\ stored[PacketSeq(k)] = Chunk(k)
      /\ \A i \in 0 .. n - 1 : marks[PacketSeq(Delivered + i)]
      /\ n < ReceiverWindow => ~marks[PacketSeq(Delivered + n)]
  <2>1. \/ PacketSeq(m) = rBase /\ ReceivedRun(marks, n)
        \/ PacketSeq(m) # rBase /\ n = 0
    BY <1>4
  <2>2. marks \in [DOMAIN rWindow -> BOOLEAN] /\ stored \in [SeqNums -> Payloads]
    BY <1>1, <1>2, <1>3, ChunkType DEF TypeOK
  <2>3. \A k \in DOMAIN rWindow : marks[k] <=> k = PacketSeq(m) \/ rWindow[k]
    BY <1>1, <1>2 DEF TypeOK
  <2>4. \A k \in SeqNums : stored[k] = IF k = PacketSeq(m) THEN Chunk(m) ELSE rData[k]
    BY <1>1, <1>3 DEF TypeOK
  <2>5. QED
    BY <2>1, <2>2, <2>3, <2>4, StoredMarks
<1>6. PICK d \in Nat : d = Delivered + n
  BY <1>1
<1>7. /\ n \in Nat /\ Delivered <= d /\ d <= Delivered + ReceiverWindow
      /\ d \in 0 .. MaxSeqNum - 1 /\ Delivered + n <= MaxSeqNum
  BY <1>1, <1>6
<1>8. ASSUME NEW i \in 0 .. n - 1
      PROVE  /\ SeqAdd(rBase, i) = PacketSeq(Delivered + i)
             /\ Delivered + i < sNext
             /\ stored[PacketSeq(Delivered + i)] = Chunk(Delivered + i)
  <2>1. /\ i \in Nat /\ Delivered + i <= MaxSeqNum /\ Delivered + i \in 0 .. MaxSeqNum - 1
        /\ Delivered <= Delivered + i /\ Delivered + i < Delivered + ReceiverWindow
    BY <1>1, <1>7
  <2>2. PacketSeq(Delivered + i) \in DOMAIN rWindow
    BY <1>1, <2>1, InReceiverWindow
  <2>3. SeqAdd(rBase, i) = PacketSeq(Delivered + i)
    BY <1>1, <2>1, PacketSeqSum
  <2>4. QED
    BY <1>5, <2>1, <2>2, <2>3
<1>9. d <= sNext
  <2>1. CASE n = 0
    BY <1>1, <1>6, <2>1
  <2>2. CASE n > 0
    <3>1. n - 1 \in 0 .. n - 1 /\ Delivered + (n - 1) < sNext
      BY <1>7, <1>8, <2>2
    <3>2. QED
      BY <1>1, <1>6, <1>7, <3>1
  <2>3. QED
    BY <1>7, <2>1, <2>2
<1>10. SeqAdd(rBase, n) = PacketSeq(d) /\ d \in 0 .. NumPackets
  BY <1>1, <1>6, <1>7, <1>9, PacketSeqSum
<1>11. /\ written' \in Seq(Payloads) /\ Delivered' = d
       /\ \A i \in 1 .. d : written'[i] = Chunk(i - 1)
  <2>1. PICK run : run = [i \in 1 .. n |-> stored[SeqAdd(rBase, i - 1)]]
    OBVIOUS
  <2>2. ASSUME NEW i \in 1 .. n
        PROVE  run[i] = Chunk(Delivered + (i - 1)) /\ run[i] \in Payloads
    <3>1. i - 1 \in 0 .. n - 1 /\ Delivered + (i - 1) \in Nat
      BY <1>1, <1>7
    <3>2. run[i] = Chunk(Delivered + (i - 1))
      BY <1>8, <2>1, <3>1
    <3>3. QED
      BY <3>1, <3>2, ChunkType
  <2>3. run \in Seq(Payloads) /\ Len(run) = n
    BY <1>7, <2>1, <2>2
  <2>4. written \in Seq(Payloads) /\ Len(written) = Delivered
    BY <1>1 DEF TypeOK, Delivered
  <2>5. PICK all : all = written \o run
    OBVIOUS
  <2>6. written' = all
    BY <1>4, <2>1, <2>5
  <2>7. all \in Seq(Payloads) /\ Len(all) = d
    BY <1>6, <2>3, <2>4, <2>5
  <2>8. ASSUME NEW i \in 1 .. d
        PROVE  all[i] = Chunk(i - 1)
    <3>1. CASE i <= Delivered
      <4>1. all[i] = written[i] /\ i \in 1 .. Delivered
        BY <1>1, <2>3, <2>4, <2>5, <3>1
      <4>2. QED
        BY <4>1 DEF IInv, ReceiverOK, PrefixWritten
    <3>2. CASE i > Delivered
      <4>1. PICK j \in 1 .. n : i = Delivered + j
        <5>1. i - Delivered \in 1 .. n /\ i = Delivered + (i - Delivered)
          BY <1>1, <1>6, <1>7, <3>2
        <5>2. QED
          BY <5>1
      <4>2. all[i] = run[j]
        BY <2>3, <2>4, <2>5, <4>1
      <4>3. run[j] = Chunk(i - 1)
        <5>1. Delivered + (j - 1) = i - 1
          BY <1>1, <1>7, <4>1
        <5>2. QED
          BY <2>2, <5>1
      <4>4. QED
        BY <4>2, <4>3
    <3>3. QED
      BY <1>1, <3>1, <3>2
  <2>9. QED
    BY <2>6, <2>7, <2>8 DEF Delivered
<1>12. /\ rBase' = PacketSeq(d)
       /\ rWindow' = [k \in Window(PacketSeq(d), ReceiverWindow) |->
                        k \in DOMAIN marks /\ marks[k]]
       /\ rWindow' \in [Window(PacketSeq(d), ReceiverWindow) -> BOOLEAN]
  BY <1>4, <1>5, <1>10
<1>13. DOMAIN marks = DOMAIN rWindow
  BY <1>5
<1>14. PacketSeq(d) \in DOMAIN rWindow' => ~rWindow'[PacketSeq(d)]
  <2>1. CASE n < ReceiverWindow
    BY <1>5, <1>6, <1>12, <2>1
  <2>2. CASE n = ReceiverWindow
    <3>1. PacketSeq(d) \notin DOMAIN rWindow
      BY <1>1, <1>6, <1>7, <2>2, InReceiverWindow
    <3>2. QED
      BY <1>12, <1>13, <3>1
  <2>3. QED
    BY <1>1, <1>7, <2>1, <2>2
<1>15. ASSUME NEW k \in 0 .. MaxSeqNum - 1,
              PacketSeq(k) \in DOMAIN rWindow', rWindow'[PacketSeq(k)]
       PROVE  k < sNext /\ rData'[PacketSeq(k)] = Chunk(k)
  <2>1. /\ PacketSeq(k) \in DOMAIN rWindow /\ marks[PacketSeq(k)]
        /\ PacketSeq(k) \in Window(PacketSeq(d), ReceiverWindow)
    BY <1>12, <1>13, <1>15
  <2>2. k < sNext /\ stored[PacketSeq(k)] = Chunk(k)
    BY <1>5, <2>1
  <2>3. d <= k /\ k \in Nat
    BY <1>1, <1>10, <2>1, InReceiverWindow
  <2>4. PacketSeq(k) \in SeqNums
    BY <1>1, <2>3, PacketSeqType
  <2>5. ~(Offset(rBase, PacketSeq(k)) < n)
    <3>1. Offset(PacketSeq(Delivered), PacketSeq(k)) < n
            <=> Delivered <= k /\ k < Delivered + n
      <4>1. Delivered \in 0 .. MaxSeqNum - 1
        BY <1>1
      <4>2. QED
        BY <1>1, <1>7, <4>1, PacketInBlock
    <3>2. QED
      BY <1>1, <1>6, <1>7, <2>3, <3>1
  <2>6. QED
    BY <1>4, <2>2, <2>4, <2>5
<1>16. ASSUME NEW k \in 0 .. MaxSeqNum - 1,
              k < Delivered \/ (PacketSeq(k) \in DOMAIN rWindow /\ marks[PacketSeq(k)])
       PROVE  Stored(k)'
  <2>1. PacketSeq(k)' = PacketSeq(k) /\ k \in Nat
    BY <1>1, SameRun
  <2>2. CASE k < d
    BY <1>11, <2>2 DEF Stored
  <2>3. CASE k >= d
    <3>1. PacketSeq(k) \in DOMAIN rWindow /\ marks[PacketSeq(k)]
      BY <1>1, <1>7, <1>16, <2>1, <2>3
    <3>2. k < Delivered + ReceiverWindow
      BY <1>1, <3>1, InReceiverWindow
    <3>3. d <= k /\ k < d + ReceiverWindow
      BY <1>1, <1>7, <2>1, <2>3, <3>2
    <3>4. PacketSeq(k) \in Window(PacketSeq(d), ReceiverWindow)
      BY <1>1, <1>10, <3>3, InReceiverWindow
    <3>5. PacketSeq(k) \in DOMAIN rWindow' /\ rWindow'[PacketSeq(k)]
      BY <1>12, <1>13, <3>1, <3>4
    <3>6. QED
      BY <2>1, <3>5 DEF Stored
  <2>4. QED
    BY <1>7, <2>1, <2>2, <2>3
<1>17. \A k \in 0 .. MaxSeqNum - 1 : Stored(k) => Stored(k)'
  <2>1. rWindow \in [DOMAIN rWindow -> BOOLEAN]
    BY <1>1 DEF TypeOK
  <2>2. SUFFICES ASSUME NEW k \in 0 .. MaxSeqNum - 1, Stored(k)
                 PROVE  Stored(k)'
    OBVIOUS
  <2>3. k < Delivered \/ (PacketSeq(k) \in DOMAIN rWindow /\ marks[PacketSeq(k)])
    BY <1>2, <2>1, <2>2 DEF Stored
  <2>4. QED
    BY <1>16, <2>3
<1>18. Stored(m)'
  <2>1. marks[PacketSeq(m)]
    BY <1>1, <1>2 DEF TypeOK
  <2>2. QED
    BY <1>16, <2>1
<1>19. PICK p : p = AckFor(PacketSeq(m), PacketSeq(d))
  OBVIOUS
<1>20. p \in Packets /\ (ReplyOK(p) \/ ReplyOK(p)')
  <2>1. m \in 0 .. NumPackets /\ d <= Delivered'
    BY <1>1, <1>7, <1>11
  <2>2. QED
    BY <1>1, <1>10, <1>18, <1>19, <2>1, AckForOK
<1>21. /\ toSender' \in Seq(Packets)
       /\ \A r \in ToSet(toSender)' : ReplyOK(r) \/ ReplyOK(r)'
  BY <1>4, <1>10, <1>19, <1>20, ReplyQueueOK
<1>22. /\ rOpen' \in 0 .. FdLimit /\ rPhase' = "data" /\ UNCHANGED <<rCount, rSyn>>
  <2>1. rOpen + (IF PacketSeq(m) = rBase THEN 2 ELSE 1) <= FdLimit
    BY DEF RStore, RoomFor
  <2>2. rOpen \in 0 .. FdLimit
    BY <1>1 DEF TypeOK
  <2>3. rOpen + 1 \in 0 .. FdLimit
    BY <2>1, <2>2, RunAssumption
  <2>4. rOpen' = rOpen + 1 /\ UNCHANGED <<rPhase, rCount, rSyn>>
    BY DEF RStore
  <2>5. QED
    BY <2>3, <2>4
<1>23. rData' \in [SeqNums -> Payloads]
  BY <1>4, <1>5 DEF Payloads
<1>24. ASSUME NEW k \in 0 .. MaxSeqNum - 1, Stored(k)', k # m
       PROVE  Stored(k)
  <2>1. k < d \/ (PacketSeq(k) \in DOMAIN rWindow' /\ rWindow'[PacketSeq(k)])
    <3>1. PacketSeq(k)' = PacketSeq(k)
      BY SameRun
    <3>2. QED
      BY <1>11, <1>24, <3>1 DEF Stored
  <2>2. k < Delivered \/ (PacketSeq(k) \in DOMAIN rWindow /\ marks[PacketSeq(k)])
    <3>1. CASE Delivered <= k /\ k < d
      <4>1. k - Delivered \in 0 .. n - 1 /\ Delivered + (k - Delivered) = k
            /\ k < Delivered + ReceiverWindow
        BY <1>1, <1>6, <1>7, <3>1
      <4>2. marks[PacketSeq(k)]
        BY <1>5, <4>1
      <4>3. PacketSeq(k) \in DOMAIN rWindow
        BY <1>1, <3>1, <4>1, InReceiverWindow
      <4>4. QED
        BY <4>2, <4>3
    <3>2. CASE PacketSeq(k) \in DOMAIN rWindow' /\ rWindow'[PacketSeq(k)]
      BY <1>12, <1>13, <3>2
    <3>3. QED
      BY <1>1, <2>1, <3>1, <3>2
  <2>3. CASE k < Delivered
    BY <2>3 DEF Stored
  <2>4. CASE PacketSeq(k) \in DOMAIN rWindow /\ marks[PacketSeq(k)]
    <3>1. PacketSeq(k) # PacketSeq(m)
      BY <1>1, <1>24, PacketSeqInjective
    <3>2. rWindow[PacketSeq(k)]
      BY <1>1, <1>2, <2>4, <3>1 DEF TypeOK
    <3>3. QED
      BY <2>4, <3>2 DEF Stored
  <2>5. QED
    BY <2>2, <2>3, <2>4
<1>25. IInv'
  BY <1>7, <1>9, <1>11, <1>12, <1>14, <1>15, <1>17, <1>21, <1>22, <1>23, ReceiverAdvance
<1>26. QED
  BY <1>17, <1>18, <1>24, <1>25

LEMMA DataTimeoutReceiverOK ==
  ASSUME IInv, RDataTimeout, UNCHANGED senderVars
  PROVE  IInv'
<1>1. rPhase = "data" /\ rPhase' = "done" /\ UNCHANGED <<toReceiver, toSender>>
      /\ UNCHANGED <<runVars, faults, sPhase, senderVars, fileVars>>
      /\ UNCHANGED <<rCount, rSyn>>
  BY DEF RDataTimeout, netVars, receiverVars, fileVars
<1>2. Connected /\ Connected'
  BY <1>1 DEF Connected
<1>3. rCount' \in 0 .. ResendMax /\ rSyn' \in SeqNums /\ toReceiver' \subseteq toReceiver
  BY <1>1 DEF IInv, TypeOK
<1>4. QED
  BY <1>1, <1>2, <1>3, SilentQueueOK, ReceiverFrame

\* A datagram that is dropped, or that ends the process.
LEMMA DropOK ==
  ASSUME IInv, rPhase = "data", rPhase' \in {"data", "crashed"},
         Silent, UNCHANGED receiverVars, toReceiver' \subseteq toReceiver,
         UNCHANGED <<runVars, faults, sPhase, senderVars>>
  PROVE  IInv'
<1>1. UNCHANGED <<fileVars, rCount, rSyn, toSender>>
  BY DEF receiverVars, fileVars, Silent
<1>2. Connected /\ Connected'
  BY DEF Connected
<1>3. rCount' \in 0 .. ResendMax /\ rSyn' \in SeqNums
  BY <1>1 DEF IInv, TypeOK
<1>4. QED
  BY <1>1, <1>2, <1>3, SilentQueueOK, ReceiverFrame

\* Sending a FINACK, the first time or again.
LEMMA FinAckOK ==
  ASSUME IInv, rPhase \in {"data", "finack"}, rPhase' = "finack", SenderClosing,
         Reply(FinAck(rBase)), UNCHANGED receiverVars, toReceiver' \subseteq toReceiver,
         UNCHANGED <<runVars, faults, sPhase, senderVars>>
  PROVE  IInv'
<1>1. UNCHANGED <<fileVars, rCount, rSyn>>
  BY DEF receiverVars, fileVars
<1>2. Connected /\ Connected'
  BY DEF Connected
<1>3. rCount' \in 0 .. ResendMax /\ rSyn' \in SeqNums
  BY <1>1 DEF IInv, TypeOK
<1>4. rBase \in Nat
  BY DEF IInv, TypeOK, SeqNums
<1>5. PICK p : p = FinAck(rBase)
  OBVIOUS
<1>6. p \in Packets /\ p.flags = "FINACK"
  BY <1>4, <1>5, PacketTypes DEF FinAck
<1>7. ReplyOK(p)' /\ Reply(p)
  BY <1>5, <1>6 DEF ReplyOK
<1>8. /\ toSender' \in Seq(Packets)
      /\ \A r \in ToSet(toSender)' : ReplyOK(r) \/ ReplyOK(r)'
  BY <1>6, <1>7, ReplyQueueOK
<1>9. QED
  BY <1>1, <1>2, <1>3, <1>8, ReceiverFrame

LEMMA DataReceiveReceiverOK ==
  ASSUME IInv, RDataReceive, UNCHANGED senderVars
  PROVE  IInv'
<1>1. rPhase = "data" /\ UNCHANGED <<runVars, faults, sPhase>>
  BY DEF RDataReceive
<1>2. PICK p \in toReceiver :
       /\ Receive(p)
       /\ LET q == p.seq % MaxSeqNum IN
            CASE p.flags = "FIN" /\ q = rBase -> RFin
              [] p.flags = "DATA" /\ q \in DOMAIN rWindow ->
                   RDuplicate(q) \/ RStore(q, p.payload) \/ RStoreFails(q)
              [] OTHER -> Silent /\ UNCHANGED <<rPhase, receiverVars>>
  BY DEF RDataReceive
<1>3. PICK q : q = p.seq % MaxSeqNum
  OBVIOUS
<1>4. \/ p.flags = "FIN" /\ RFin
      \/ p.flags = "DATA" /\ q \in DOMAIN rWindow
         /\ (RDuplicate(q) \/ RStore(q, p.payload) \/ RStoreFails(q))
      \/ Silent /\ UNCHANGED <<rPhase, receiverVars>>
  <2>1. CASE p.flags = "FIN" /\ q = rBase
    BY <1>2, <1>3, <2>1
  <2>2. CASE p.flags = "DATA" /\ q \in DOMAIN rWindow
    BY <1>2, <1>3, <2>2
  <2>3. CASE ~(p.flags = "FIN" /\ q = rBase) /\ ~(p.flags = "DATA" /\ q \in DOMAIN rWindow)
    BY <1>2, <1>3, <2>3
  <2>4. QED
    BY <2>1, <2>2, <2>3
<1>5. toReceiver' \subseteq toReceiver /\ DatagramOK(p)
  BY <1>2, ReceiveSubset DEF IInv, MessagesOK
<1>6. CASE p.flags = "FIN" /\ RFin
  <2>1. SenderClosing
    BY <1>5, <1>6 DEF DatagramOK
  <2>2. QED
    BY <1>1, <1>5, <1>6, <2>1, FinAckOK DEF RFin
<1>7. CASE /\ p.flags = "DATA" /\ q \in DOMAIN rWindow
           /\ RDuplicate(q) \/ RStore(q, p.payload) \/ RStoreFails(q)
  <2>1. PICK m \in 0 .. MaxSeqNum - 1 :
          m < sNext /\ p.payload = Chunk(m) /\ q = PacketSeq(m)
    BY <1>1, <1>3, <1>7, DataPacket
  <2>2. CASE RDuplicate(q)
    BY <1>1, <1>5, <1>7, <2>1, <2>2, DuplicateOK
  <2>3. CASE RStore(q, p.payload)
    BY <1>1, <1>5, <1>7, <2>1, <2>3, StoreOK
  <2>4. CASE RStoreFails(q)
    BY <1>1, <1>5, <2>4, DropOK DEF RStoreFails
  <2>5. QED
    BY <1>7, <2>2, <2>3, <2>4
<1>8. CASE Silent /\ UNCHANGED <<rPhase, receiverVars>>
  BY <1>1, <1>5, <1>8, DropOK
<1>9. QED
  BY <1>4, <1>6, <1>7, <1>8

LEMMA FinReceiveReceiverOK ==
  ASSUME IInv, RFinReceive, UNCHANGED senderVars
  PROVE  IInv'
<1>1. /\ rPhase = "finack" /\ Reply(FinAck(rBase))
      /\ UNCHANGED <<runVars, faults, sPhase, rPhase, receiverVars>>
      /\ toReceiver' \subseteq toReceiver
  BY DEF RFinReceive, Receive
<1>2. SenderClosing
  BY <1>1 DEF IInv, ReceiverOK
<1>3. UNCHANGED receiverVars /\ UNCHANGED <<runVars, faults, sPhase, senderVars>>
      /\ rPhase' = "finack"
  BY <1>1
<1>4. QED
  BY <1>1, <1>2, <1>3, FinAckOK

LEMMA FinTimeoutReceiverOK ==
  ASSUME IInv, RFinTimeout, UNCHANGED senderVars
  PROVE  IInv'
<1>1. rPhase = "finack" /\ rPhase' = "done" /\ UNCHANGED <<toReceiver, toSender>>
      /\ UNCHANGED <<runVars, faults, sPhase, senderVars, fileVars>>
      /\ UNCHANGED <<rCount, rSyn>>
  BY DEF RFinTimeout, netVars, receiverVars, fileVars
<1>2. Connected /\ Connected'
  BY <1>1 DEF Connected
<1>3. rCount' \in 0 .. ResendMax /\ rSyn' \in SeqNums /\ toReceiver' \subseteq toReceiver
  BY <1>1 DEF IInv, TypeOK
<1>4. QED
  BY <1>1, <1>2, <1>3, SilentQueueOK, ReceiverFrame

LEMMA ReceiverStepOK ==
  ASSUME IInv, Receiver
  PROVE  IInv'
<1>1. UNCHANGED senderVars
  BY DEF Receiver
<1>2. CASE RListenTimeout
  BY <1>1, <1>2, ListenTimeoutOK
<1>3. CASE RListenReceive
  BY <1>1, <1>3, ListenReceiveOK
<1>4. CASE RSynTimeout
  BY <1>1, <1>4, SynTimeoutReceiverOK
<1>5. CASE RSynReceive
  BY <1>1, <1>5, SynReceiveReceiverOK
<1>6. CASE RDataTimeout
  BY <1>1, <1>6, DataTimeoutReceiverOK
<1>7. CASE RDataReceive
  BY <1>1, <1>7, DataReceiveReceiverOK
<1>8. CASE RFinTimeout
  BY <1>1, <1>8, FinTimeoutReceiverOK
<1>9. CASE RFinReceive
  BY <1>1, <1>9, FinReceiveReceiverOK
<1>10. QED
  BY <1>2, <1>3, <1>4, <1>5, <1>6, <1>7, <1>8, <1>9 DEF Receiver, ReceiverNext

------------------------------------------------------------------------------
(* Faults of the network. *)

LEMMA FaultFrame ==
  ASSUME IInv, faults' \in 0 .. MaxFaults,
         UNCHANGED <<runVars, sPhase, rPhase, senderVars, receiverVars>>,
         toReceiver' \subseteq toReceiver \cup {Junk},
         toSender' \in Seq(Packets), ToSet(toSender)' \subseteq ToSet(toSender) \cup {Junk}
  PROVE  IInv'
<1>1. UNCHANGED runVars /\ UNCHANGED senderVars /\ UNCHANGED receiverVars
      /\ sPhase' = sPhase /\ rPhase' = rPhase /\ TypeOK
  BY DEF IInv
<1>2. TypeOK'
  BY <1>1, SameRun, PacketTypes DEF TypeOK, runVars, senderVars, receiverVars
<1>3. Delivered' = Delivered /\ Delivered \in Nat /\ Confirmed' = Confirmed
      /\ (\A n : Stored(n)' <=> Stored(n)) /\ sNext \in Nat /\ sNext' = sNext
  BY <1>1, SameRun, SameFile, CounterTypes DEF senderVars, Delivered, Confirmed, TypeOK
<1>4. SenderClosing' <=> SenderClosing
  BY <1>1 DEF SenderClosing
<1>5. MessagesOK'
  <2>1. \A p \in toReceiver' : DatagramOK(p)'
    <3>1. \A p \in toReceiver' : DatagramOK(p)
      BY JunkOK DEF IInv, MessagesOK
    <3>2. QED
      BY <1>1, <1>3, <1>4, <3>1, DatagramStable
  <2>2. \A p \in ToSet(toSender)' : ReplyOK(p)'
    <3>1. \A p \in ToSet(toSender)' : ReplyOK(p)
      BY JunkOK DEF IInv, MessagesOK
    <3>2. QED
      BY <1>1, <1>3, <3>1, ReplyStable
  <2>3. QED
    BY <2>1, <2>2 DEF MessagesOK
<1>6. SenderOK'
  BY <1>1, <1>3, <1>4, SameRun DEF IInv, SenderOK, senderVars, SenderExited
<1>7. ReceiverOK'
  BY <1>1, <1>3, <1>4, SameRun
  DEF IInv, ReceiverOK, PrefixWritten, Connected, senderVars, receiverVars, runVars
<1>8. QED
  BY <1>2, <1>5, <1>6, <1>7 DEF IInv

LEMMA CorruptSubset ==
  ASSUME NEW S, NEW s \in Seq(S), NEW i \in DOMAIN s, NEW j \in S,
         NEW t, t = [s EXCEPT ![i] = j]
  PROVE  t \in Seq(S) /\ ToSet(t) \subseteq ToSet(s) \cup {j}
<1>1. t \in Seq(S) /\ DOMAIN t = DOMAIN s
  OBVIOUS
<1>2. \A k \in DOMAIN s : t[k] = IF k = i THEN j ELSE s[k]
  OBVIOUS
<1>3. QED
  BY <1>1, <1>2 DEF ToSet

LEMMA NetworkStepOK ==
  ASSUME IInv, Network
  PROVE  IInv'
<1>1. UNCHANGED <<senderVars, receiverVars>> /\ toSender \in Seq(Packets)
      /\ Junk \in Packets
  BY PacketTypes DEF Network, IInv, TypeOK
<1>2. ASSUME NEW kind, Fault(kind)
      PROVE  faults' \in 0 .. MaxFaults /\ UNCHANGED <<runVars, sPhase, rPhase>>
  <2>1. faults \in 0 .. MaxFaults /\ faults < MaxFaults /\ MaxFaults \in Nat
    BY <1>2, NetworkAssumption DEF Fault, IInv, TypeOK
  <2>2. faults + 1 \in 0 .. MaxFaults
    BY <2>1
  <2>3. QED
    BY <1>2, <2>2 DEF Fault
<1>3. CASE LoseDatagram
  <2>1. toReceiver' \subseteq toReceiver /\ toSender' = toSender /\ Fault("loss")
    BY <1>3 DEF LoseDatagram
  <2>2. QED
    BY <1>1, <1>2, <2>1, FaultFrame
<1>4. CASE CorruptDatagram
  <2>1. toReceiver' \subseteq toReceiver \cup {Junk} /\ toSender' = toSender
        /\ Fault("corrupt")
    BY <1>4 DEF CorruptDatagram
  <2>2. QED
    BY <1>1, <1>2, <2>1, FaultFrame
<1>5. CASE LoseReply
  <2>1. PICK i \in DOMAIN toSender : toSender' = RemoveAt(toSender, i)
    BY <1>5 DEF LoseReply
  <2>2. toSender' \in Seq(Packets) /\ ToSet(toSender)' \subseteq ToSet(toSender)
    BY <1>1, <2>1, RemoveAtSubset
  <2>3. toReceiver' = toReceiver /\ Fault("ackloss")
    BY <1>5 DEF LoseReply
  <2>4. QED
    BY <1>1, <1>2, <2>2, <2>3, FaultFrame
<1>6. CASE CorruptReply
  <2>1. PICK i \in DOMAIN toSender : toSender' = [toSender EXCEPT ![i] = Junk]
    BY <1>6 DEF CorruptReply
  <2>2. PICK t : t = [toSender EXCEPT ![i] = Junk]
    OBVIOUS
  <2>3. t \in Seq(Packets) /\ ToSet(t) \subseteq ToSet(toSender) \cup {Junk}
    BY <1>1, <2>2, CorruptSubset
  <2>4. toSender' = t /\ ToSet(toSender)' = ToSet(t)
    BY <2>1, <2>2
  <2>5. toReceiver' = toReceiver /\ Fault("ackcorrupt")
    BY <1>6 DEF CorruptReply
  <2>6. QED
    BY <1>1, <1>2, <2>3, <2>4, <2>5, FaultFrame
<1>7. QED
  BY <1>3, <1>4, <1>5, <1>6 DEF Network, NetworkFault

------------------------------------------------------------------------------
(* The theorems. *)

LEMMA InitOK ==
  ASSUME Init
  PROVE  IInv
<1>1. /\ mode \in Modes /\ initSeq \in InitSeqNums /\ toReceiver = {} /\ toSender = <<>>
      /\ faults = 0
  BY DEF Init, NetworkInit
<1>2. /\ sPhase = "start" /\ sCount = 0 /\ sBase = First
      /\ sWindow = [q \in SenderKeys(First) |-> FALSE]
      /\ sData = [q \in SeqNums |-> NoData] /\ sNext = 0 /\ sRemaining = NumPackets
      /\ sLast = 0
  BY DEF Init, SenderInit
<1>3. /\ rPhase = "listen" /\ rCount = 0 /\ rSyn = 0 /\ rBase = 0
      /\ rWindow = [q \in {} |-> FALSE] /\ rData = [q \in SeqNums |-> NoData]
      /\ written = <<>> /\ rOpen = 0
  BY DEF Init, ReceiverInit
<1>4. /\ NumPackets \in Nat /\ 0 \in SeqNums /\ 0 \in 0 .. MaxFaults
      /\ 0 \in 0 .. ResendMax /\ 0 \in 0 .. FdLimit /\ 0 < ResendMax
  BY CountTypes, NetworkAssumption, RunAssumption DEF SeqNums
<1>5. First \in SeqNums
  <2>1. initSeq \in Nat
    BY <1>1, RunAssumption
  <2>2. QED
    BY <2>1, SeqAddType DEF First
<1>6. TypeOK
  BY <1>1, <1>2, <1>3, <1>4, <1>5 DEF TypeOK, Payloads
<1>7. Delivered = 0 /\ Confirmed = 0 /\ PacketSeq(0) = First
  BY <1>2, <1>3, <1>4, <1>6, PacketSeqType DEF Delivered, Confirmed
<1>8. \A n \in Nat : PacketSeq(n) \in SeqNums
  BY <1>6, PacketSeqType
<1>9. ToSet(toSender) = {}
  BY <1>1 DEF ToSet
<1>10. MessagesOK
  BY <1>1, <1>9 DEF MessagesOK
<1>11. SenderOK
  <2>1. sBase = PacketSeq(Confirmed)
    BY <1>2, <1>7
  <2>2. \A n \in 0 .. MaxSeqNum - 1 : sData[PacketSeq(n)] = NoData /\ ~(n < sNext)
    BY <1>2, <1>8
  <2>3. \A q \in DOMAIN sWindow : ~sWindow[q]
    BY <1>2
  <2>4. QED
    BY <1>2, <1>4, <1>7, <2>1, <2>2, <2>3 DEF SenderOK, SenderClosing
<1>12. ReceiverOK
  BY <1>2, <1>3, <1>4, <1>7 DEF ReceiverOK, PrefixWritten, Connected
<1>13. QED
  BY <1>6, <1>10, <1>11, <1>12 DEF IInv

LEMMA StutterOK ==
  ASSUME IInv, UNCHANGED vars
  PROVE  IInv'
<1>1. UNCHANGED runVars /\ UNCHANGED netVars /\ UNCHANGED senderVars
      /\ UNCHANGED receiverVars /\ sPhase' = sPhase /\ rPhase' = rPhase
  BY DEF vars
<1>2. UNCHANGED <<toReceiver, toSender, faults>>
  BY <1>1 DEF netVars
<1>3. faults' \in 0 .. MaxFaults /\ toSender' \in Seq(Packets)
  BY <1>2 DEF IInv, TypeOK
<1>4. ToSet(toSender)' = ToSet(toSender)
  BY <1>2
<1>5. QED
  BY <1>1, <1>2, <1>3, <1>4, FaultFrame

\* IInv is an inductive invariant of the specification.
LEMMA Inductive ==
  ASSUME IInv, [Next]_vars
  PROVE  IInv'
BY SenderStepOK, ReceiverStepOK, NetworkStepOK, StutterOK DEF Next, Finished

\* In every reachable state the two windows, the datagrams in flight and the
\* two files fit together as IInv says: whatever is lost, corrupted, repeated
\* or reordered between sender.cpp and receiver.cpp.
THEOREM Invariance == Spec => []IInv
<1>1. Init => IInv
  BY InitOK
<1>2. IInv /\ [Next]_vars => IInv'
  BY Inductive
<1>3. QED
  BY <1>1, <1>2, PTL DEF Spec

\* Every variable keeps its type: no handler of either process leaves a
\* counter, a sequence number or a window out of its range.
THEOREM TypeCorrect == Spec => []TypeOK
<1>1. IInv => TypeOK
  BY DEF IInv
<1>2. QED
  BY <1>1, Invariance, PTL

\* The output file is always a prefix of the input file (receiver.cpp:383-413).
THEOREM PrefixTheorem == Spec => []PrefixWritten
<1>1. IInv => PrefixWritten
  BY DEF IInv, ReceiverOK
<1>2. QED
  BY <1>1, Invariance, PTL

\* The sender never counts off a packet the receiver has not written.
THEOREM AckedTheorem == Spec => []AckedIsStored
<1>1. IInv => AckedIsStored
  BY DEF IInv, SenderOK, AckedIsStored
<1>2. QED
  BY <1>1, Invariance, PTL

\* A sender that has nothing left to confirm has transferred the whole file.
LEMMA ClosingIsWhole ==
  ASSUME IInv, SenderClosing, ChunksInFile < U16
  PROVE  WholeFile
<1>1. /\ TypeOK /\ sRemaining = 0 /\ Confirmed <= Delivered /\ Delivered <= sNext
  BY DEF IInv, SenderOK, ReceiverOK
<1>2. NumPackets \in Nat /\ sNext \in 0 .. NumPackets /\ Delivered \in Nat
  BY <1>1, CountTypes DEF TypeOK, Delivered
<1>3. Confirmed = NumPackets
  BY <1>1, <1>2 DEF Confirmed
<1>4. Delivered = NumPackets
  BY <1>1, <1>2, <1>3
<1>5. QED
  BY <1>4, CountFits DEF WholeFile

\* What the receiver can have written is what the sender has counted.
LEMMA WholeIsCounted ==
  ASSUME IInv, WholeFile
  PROVE  ChunksInFile < U16 /\ Delivered = NumPackets
<1>1. TypeOK /\ Delivered <= sNext
  BY DEF IInv, ReceiverOK
<1>2. /\ NumPackets \in 0 .. U16 - 1 /\ U16 \in Nat
      /\ sNext \in 0 .. NumPackets /\ Delivered \in Nat
  BY <1>1, CountTypes, SeqAssumption DEF TypeOK, Delivered
<1>3. ChunksInFile = Delivered
  BY DEF WholeFile
<1>4. ChunksInFile < U16
  BY <1>1, <1>2, <1>3
<1>5. QED
  BY <1>3, <1>4, CountFits

\* A sender that closes, and so one that reports success, has transferred the
\* whole file if and only if its packets fit a uint16_t (sender.cpp:294).
THEOREM SuccessTheorem == Spec => []SuccessMeansDelivered
<1>1. IInv => SuccessMeansDelivered
  BY ClosingIsWhole, WholeIsCounted DEF SuccessMeansDelivered
<1>2. QED
  BY <1>1, Invariance, PTL

\* A FIN is answered only when the file is complete, and a sender that has
\* seen the answer closes together with the receiver (receiver.cpp:308).
THEOREM CloseTheorem == Spec => []CloseAgreement
<1>1. IInv => CloseAgreement
  <2>1. SUFFICES ASSUME IInv
                 PROVE  CloseAgreement
    OBVIOUS
  <2>2. rPhase = "finack" => SenderClosing
    BY <2>1 DEF IInv, ReceiverOK
  <2>3. sPhase = "finwait" => rPhase \in {"finack", "done"}
    BY <2>1 DEF IInv, SenderOK
  <2>4. QED
    BY <2>1, <2>2, <2>3, ClosingIsWhole DEF CloseAgreement
<1>2. QED
  BY <1>1, Invariance, PTL

\* A packet read and not counted off has a key of the window, and its chunk
\* is kept under it.
LEMMA PendingPacket ==
  ASSUME IInv, sPhase = "data", NEW n \in Confirmed .. sNext - 1
  PROVE  /\ n \in 0 .. MaxSeqNum - 1 /\ Confirmed <= n /\ n < sNext
         /\ PacketSeq(n) \in Window(sBase, SenderWindow)
         /\ PacketSeq(n) \in DOMAIN sWindow /\ sWindow[PacketSeq(n)] \in BOOLEAN
         /\ sData[PacketSeq(n)] = Chunk(n)
<1>1. /\ TypeOK /\ sNext = Lesser(NumPackets, Confirmed + SenderWindow)
      /\ sNext \in Nat /\ NumPackets \in Nat /\ sBase = PacketSeq(Confirmed)
  BY CounterTypes DEF IInv, SenderOK
<1>2. /\ SenderWindow \in Nat /\ Confirmed \in Nat /\ NumPackets < MaxSeqNum
      /\ MaxSeqNum \in Nat \ {0} /\ Confirmed + SenderWindow <= MaxSeqNum
  BY <1>1, CountTypes, SenderWindowType
<1>3. /\ n \in Nat /\ n \in 0 .. MaxSeqNum - 1 /\ Confirmed <= n /\ n < sNext
      /\ n < Confirmed + SenderWindow /\ n \in 0 .. NumPackets
      /\ n <= Confirmed + SenderWindow
  BY <1>1, <1>2 DEF Lesser
<1>4. PacketSeq(n) \in Window(sBase, SenderWindow)
  BY <1>1, <1>2, <1>3, PacketInWindow
<1>5. PacketSeq(n) \in DOMAIN sWindow
  BY <1>3, InSenderWindow
<1>6. sWindow[PacketSeq(n)] \in BOOLEAN
  BY <1>1, <1>5 DEF TypeOK
<1>7. sData[PacketSeq(n)] = Chunk(n)
  BY <1>3 DEF IInv, SenderOK
<1>8. QED
  BY <1>3, <1>4, <1>5, <1>6, <1>7

\* The next burst of the data loop and the receiver's window cover between
\* them all that is read and not counted off (sender.cpp:334, 578), but for
\* an empty last packet.
THEOREM ForgottenTheorem == Spec => []NothingForgotten
<1>1. IInv => NothingForgotten
  <2>1. SUFFICES ASSUME IInv, sPhase = "data"
                 PROVE  /\ sNext = Lesser(NumPackets, Confirmed + SenderWindow)
                        /\ \A n \in Confirmed .. sNext - 1 :
                             \/ PacketSeq(n) \in ToResend /\ sData[PacketSeq(n)] = Chunk(n)
                             \/ Chunk(n) = NoData
                             \/ mode = "SR" /\ Stored(n)
    BY DEF NothingForgotten
  <2>2. sNext = Lesser(NumPackets, Confirmed + SenderWindow)
    BY <2>1 DEF IInv, SenderOK
  <2>3. ASSUME NEW n \in Confirmed .. sNext - 1, Chunk(n) # NoData,
               ~(mode = "SR" /\ Stored(n))
        PROVE  PacketSeq(n) \in ToResend /\ sData[PacketSeq(n)] = Chunk(n)
    <3>1. /\ n \in 0 .. MaxSeqNum - 1 /\ Confirmed <= n /\ n < sNext
          /\ PacketSeq(n) \in Window(sBase, SenderWindow)
          /\ PacketSeq(n) \in DOMAIN sWindow /\ sWindow[PacketSeq(n)] \in BOOLEAN
          /\ sData[PacketSeq(n)] = Chunk(n)
      BY <2>1, <2>3, PendingPacket
    <3>2. mode \in {"RBN", "SR"}
      BY <2>1, RunAssumption DEF IInv, TypeOK
    <3>3. sWindow[PacketSeq(n)] <=> mode = "RBN"
      <4>1. CASE mode = "RBN"
        BY <2>1, <3>1, <4>1 DEF IInv, SenderOK
      <4>2. CASE mode = "SR"
        BY <2>1, <2>3, <3>1, <4>2 DEF IInv, SenderOK
      <4>3. QED
        BY <3>2, <4>1, <4>2
    <3>4. sWindow[PacketSeq(n)] = ResendFlag
      BY <3>1, <3>3 DEF ResendFlag
    <3>5. QED
      BY <2>3, <3>1, <3>4 DEF ToResend
  <2>4. QED
    BY <2>2, <2>3
<1>2. QED
  BY <1>1, Invariance, PTL

------------------------------------------------------------------------------
(* Descriptors. *)

\* The packets the receiver holds, in the file or in its window.
Held == {n \in 0 .. NumPackets - 1 : Stored(n)}

LEMMA HeldFinite ==
  /\ IsFiniteSet(Held) /\ Cardinality(Held) \in Nat
  /\ Cardinality(Held) <= NumPackets
<1>1. NumPackets \in Nat
  BY CountTypes
<1>2. IsFiniteSet(0 .. NumPackets - 1) /\ Cardinality(0 .. NumPackets - 1) = NumPackets
  BY <1>1, FS_Interval
<1>3. Held \in SUBSET (0 .. NumPackets - 1)
  BY DEF Held
<1>4. QED
  BY <1>2, <1>3, FS_Subset, FS_CardinalityType

\* A packet the sender has sent and the receiver does not hold leaves room
\* for one more among the packets of the file.
LEMMA HeldRoom ==
  ASSUME NEW m \in 0 .. NumPackets - 1, ~Stored(m)
  PROVE  /\ Cardinality(Held \cup {m}) = Cardinality(Held) + 1
         /\ Cardinality(Held) + 1 <= NumPackets
<1>1. NumPackets \in Nat
  BY CountTypes
<1>2. IsFiniteSet(0 .. NumPackets - 1) /\ Cardinality(0 .. NumPackets - 1) = NumPackets
  BY <1>1, FS_Interval
<1>3. Held \cup {m} \in SUBSET (0 .. NumPackets - 1) /\ m \notin Held
  BY DEF Held
<1>4. Cardinality(Held \cup {m}) = Cardinality(Held) + 1
  BY <1>3, HeldFinite, FS_AddElement
<1>5. QED
  BY <1>2, <1>3, <1>4, FS_Subset

\* A step that neither stores a packet nor opens the file.
LEMMA SameHeld ==
  ASSUME DescriptorsSuffice, rOpen' = rOpen, Delivered' = Delivered,
         \A n \in 0 .. NumPackets - 1 : Stored(n)' <=> Stored(n),
         rPhase' # "crashed" \/ rPhase' = rPhase
  PROVE  DescriptorsSuffice'
<1>1. /\ rOpen = Cardinality(Held) /\ (NumPackets < FdLimit => rPhase # "crashed")
      /\ WholeFile => NumPackets < FdLimit
  BY DEF DescriptorsSuffice, Held
<1>2. Held' = Held
  BY DEF Held
<1>3. PICK h : h = Held
  OBVIOUS
<1>4. Held' = h
  BY <1>2, <1>3
<1>5. rOpen' = Cardinality(h) /\ rOpen' = Cardinality(Held')
  BY <1>1, <1>3, <1>4
<1>6. WholeFile' <=> WholeFile
  BY DEF WholeFile
<1>7. QED
  BY <1>1, <1>5, <1>6 DEF DescriptorsSuffice, Held

LEMMA DescriptorStep ==
  ASSUME IInv, IInv', DescriptorsSuffice, [Next]_vars
  PROVE  DescriptorsSuffice'
<1>1. TypeOK /\ NumPackets \in Nat /\ NumPackets < MaxSeqNum /\ MaxSeqNum \in Nat
  <2>1. TypeOK
    BY DEF IInv
  <2>2. QED
    BY <2>1, CountTypes
<1>2. ASSUME UNCHANGED runVars, UNCHANGED receiverVars,
             rPhase' # "crashed" \/ rPhase' = rPhase
      PROVE  DescriptorsSuffice'
  <2>1. /\ rOpen' = rOpen /\ Delivered' = Delivered
        /\ \A n : Stored(n)' <=> Stored(n)
    BY <1>2, SameFile DEF receiverVars, Delivered
  <2>2. QED
    BY <1>2, <2>1, SameHeld
<1>3. CASE Sender
  BY <1>2, <1>3 DEF Sender, SenderNext, SStart, SSynTimeout, SSynReceive, SSynWaitReceive,
     SSynWaitTimeout, SDataTimeout, SDataReceive, SFinTimeout, SFinReceive,
     SFinWaitReceive, SFinWaitTimeout
<1>4. CASE Network
  BY <1>2, <1>4 DEF Network, NetworkFault, LoseDatagram, CorruptDatagram, LoseReply,
     CorruptReply, Fault
<1>5. CASE UNCHANGED vars
  BY <1>2, <1>5 DEF vars
<1>6. CASE RDataTimeout \/ RFinTimeout \/ RFinReceive \/ RListenTimeout
  BY <1>2, <1>6 DEF RDataTimeout, RFinTimeout, RFinReceive, RListenTimeout
<1>7. ASSUME UNCHANGED runVars, UNCHANGED fileVars, rPhase' # "crashed"
      PROVE  DescriptorsSuffice'
  <2>1. /\ rOpen' = rOpen /\ Delivered' = Delivered
        /\ rWindow' = rWindow /\ \A n : PacketSeq(n)' = PacketSeq(n)
    BY <1>7, SameRun DEF fileVars, Delivered
  <2>2. \A n : Stored(n)' <=> Stored(n)
    BY <2>1 DEF Stored
  <2>3. QED
    BY <1>7, <2>1, <2>2, SameHeld
<1>8. CASE RListenReceive
  <2>1. rPhase' # "crashed"
    BY <1>8 DEF RListenReceive
  <2>2. QED
    BY <1>7, <1>8, <2>1 DEF RListenReceive
<1>9. ASSUME rPhase = "synrcvd", RetrySynAck, UNCHANGED runVars
      PROVE  DescriptorsSuffice'
  <2>1. rPhase' # "crashed"
    BY <1>9 DEF RetrySynAck
  <2>2. QED
    BY <1>7, <1>9, <2>1 DEF RetrySynAck
<1>10. ASSUME rPhase = "synrcvd", RConnect, UNCHANGED runVars
       PROVE  DescriptorsSuffice'
  <2>1. written = <<>> /\ DOMAIN rWindow = {} /\ written' = <<>> /\ rOpen' = rOpen
        /\ rPhase' # "crashed"
    BY <1>10 DEF IInv, ReceiverOK, Connected, RConnect
  <2>2. \A q \in DOMAIN rWindow' : ~rWindow'[q]
    BY <1>10 DEF RConnect
  <2>3. Delivered = 0 /\ Delivered' = 0
    BY <2>1 DEF Delivered
  <2>4. \A n \in 0 .. NumPackets - 1 : ~Stored(n) /\ ~Stored(n)'
    BY <2>1, <2>2, <2>3 DEF Stored
  <2>5. QED
    BY <2>1, <2>3, <2>4, SameHeld
<1>11. CASE RSynTimeout \/ RSynReceive
  BY <1>9, <1>10, <1>11 DEF RSynTimeout, RSynReceive
<1>12. CASE RDataReceive /\ UNCHANGED senderVars
  <2>1. rPhase = "data" /\ UNCHANGED <<runVars, faults, sPhase>>
    BY <1>12 DEF RDataReceive
  <2>2. PICK p \in toReceiver :
         /\ Receive(p)
         /\ LET q == p.seq % MaxSeqNum IN
              CASE p.flags = "FIN" /\ q = rBase -> RFin
                [] p.flags = "DATA" /\ q \in DOMAIN rWindow ->
                     RDuplicate(q) \/ RStore(q, p.payload) \/ RStoreFails(q)
                [] OTHER -> Silent /\ UNCHANGED <<rPhase, receiverVars>>
    BY <1>12 DEF RDataReceive
  <2>3. PICK q : q = p.seq % MaxSeqNum
    OBVIOUS
  <2>4. \/ UNCHANGED receiverVars /\ rPhase' # "crashed"
        \/ /\ p.flags = "DATA" /\ q \in DOMAIN rWindow
           /\ RStore(q, p.payload) \/ RStoreFails(q)
    <3>1. CASE p.flags = "FIN" /\ q = rBase
      BY <2>2, <2>3, <3>1 DEF RFin
    <3>2. CASE p.flags = "DATA" /\ q \in DOMAIN rWindow
      BY <2>1, <2>2, <2>3, <3>2 DEF RDuplicate
    <3>3. CASE ~(p.flags = "FIN" /\ q = rBase) /\ ~(p.flags = "DATA" /\ q \in DOMAIN rWindow)
      BY <2>1, <2>2, <2>3, <3>3
    <3>4. QED
      BY <3>1, <3>2, <3>3
  <2>5. CASE UNCHANGED receiverVars /\ rPhase' # "crashed"
    BY <1>2, <2>1, <2>5
  <2>6. CASE /\ p.flags = "DATA" /\ q \in DOMAIN rWindow
             /\ RStore(q, p.payload) \/ RStoreFails(q)
    <3>1. PICK m \in 0 .. MaxSeqNum - 1 :
            m < sNext /\ p.payload = Chunk(m) /\ q = PacketSeq(m)
      BY <2>1, <2>3, <2>6, DataPacket
    <3>2. m \in 0 .. NumPackets - 1 /\ Delivered <= m
      <4>1. /\ sNext \in Nat /\ sNext <= NumPackets /\ Delivered \in 0 .. NumPackets
            /\ DOMAIN rWindow = Window(PacketSeq(Delivered), ReceiverWindow)
        BY <2>1, ReceivingFacts
      <4>2. Delivered <= m
        BY <1>1, <2>6, <3>1, <4>1, InReceiverWindow
      <4>3. QED
        BY <1>1, <3>1, <4>1, <4>2
    <3>3. ~Stored(m)
      <4>1. ~rWindow[PacketSeq(m)]
        BY <2>6, <3>1 DEF RStore, RStoreFails
      <4>2. Delivered \in Nat
        BY <1>1 DEF TypeOK, Delivered
      <4>3. QED
        BY <3>2, <4>1, <4>2 DEF Stored
    <3>4. /\ Cardinality(Held \cup {m}) = Cardinality(Held) + 1
          /\ Cardinality(Held) + 1 <= NumPackets
      BY <3>2, <3>3, HeldRoom
    <3>5. rOpen = Cardinality(Held) /\ rOpen \in Nat
      BY HeldFinite DEF DescriptorsSuffice, Held
    <3>6. CASE RStore(q, p.payload)
      <4>1. \A k \in 0 .. MaxSeqNum - 1 : Stored(k)' <=> Stored(k) \/ k = m
        BY <1>12, <2>1, <2>2, <2>6, <3>1, <3>6, ReceiveSubset, StoreOK
      <4>2. \A k \in 0 .. NumPackets - 1 : k \in 0 .. MaxSeqNum - 1
        BY <1>1
      <4>3. Held' = Held \cup {m}
        BY <3>2, <4>1, <4>2 DEF Held
      <4>4. rOpen' = rOpen + 1 /\ rPhase' = "data"
        BY <2>1, <3>6 DEF RStore
      <4>5. PICK h : h = Held \cup {m}
        OBVIOUS
      <4>6. rOpen' = Cardinality(h)
        BY <3>4, <3>5, <4>4, <4>5
      <4>7. Held' = h
        BY <4>3, <4>5
      <4>8. rOpen' = Cardinality(Held')
        BY <4>6, <4>7
      <4>9. ASSUME WholeFile'
            PROVE  NumPackets < FdLimit
        <5>1. Delivered' = NumPackets
          <6>1. /\ Delivered' <= sNext' /\ sNext' \in 0 .. NumPackets
                /\ written' \in Seq(Payloads)
            BY DEF IInv, ReceiverOK, TypeOK
          <6>2. Delivered' \in Nat /\ Delivered' <= NumPackets
            BY <1>1, <6>1 DEF Delivered
          <6>3. Delivered' = ChunksInFile
            BY <4>9 DEF WholeFile
          <6>4. ChunksInFile < U16
            BY <6>2, <6>3, CountTypes
          <6>5. QED
            BY <6>3, <6>4, CountFits
        <5>2. CASE WholeFile
          BY <5>2 DEF DescriptorsSuffice
        <5>3. CASE Delivered' = Delivered
          BY <4>9, <5>2, <5>3 DEF WholeFile
        <5>4. CASE q = rBase
          <6>1. rOpen + 2 <= FdLimit
            BY <3>6, <5>4 DEF RStore, RoomFor
          <6>2. \A k \in 0 .. NumPackets - 1 : Stored(k)'
            BY <1>1, <5>1 DEF Stored
          <6>3. Held' = 0 .. NumPackets - 1
            BY <6>2 DEF Held
          <6>4. PICK all : all = 0 .. NumPackets - 1
            OBVIOUS
          <6>5. Cardinality(all) = NumPackets
            BY <1>1, <6>4, FS_Interval
          <6>6. rOpen' = Cardinality(all)
            BY <4>8, <6>3, <6>4
          <6>7. rOpen + 1 = NumPackets
            BY <4>4, <6>5, <6>6
          <6>8. QED
            BY <1>1, <3>5, <6>1, <6>7, RunAssumption
        <5>5. QED
          <6>1. CASE q # rBase
            <7>1. written' = written \o [i \in 1 .. 0 |-> rData[SeqAdd(rBase, i - 1)]]
              BY <3>6, <6>1 DEF RStore
            <7>2. written' = written
              BY <1>1, <7>1 DEF TypeOK
            <7>3. Delivered' = Delivered
              BY <7>2 DEF Delivered
            <7>4. QED
              BY <5>3, <7>3
          <6>2. QED
            BY <5>4, <6>1
      <4>10. QED
        BY <4>4, <4>8, <4>9 DEF DescriptorsSuffice, Held
    <3>7. CASE RStoreFails(q)
      <4>1. ~RoomFor(q) /\ UNCHANGED receiverVars
        BY <3>7 DEF RStoreFails
      <4>2. ~(NumPackets < FdLimit)
        BY <1>1, <3>4, <3>5, <4>1, RunAssumption DEF RoomFor
      <4>3. rOpen' = rOpen /\ \A n : Stored(n)' <=> Stored(n)
        BY <2>1, <4>1, SameFile DEF receiverVars
      <4>4. Held' = Held
        BY <4>3 DEF Held
      <4>5. PICK h : h = Held
        OBVIOUS
      <4>6. Held' = h /\ rOpen' = Cardinality(h)
        BY <3>5, <4>3, <4>4, <4>5
      <4>7. rOpen' = Cardinality(Held')
        BY <4>6
      <4>8. WholeFile' <=> WholeFile
        BY <4>1 DEF receiverVars, WholeFile, Delivered
      <4>9. QED
        BY <4>2, <4>7, <4>8 DEF DescriptorsSuffice, Held
    <3>8. QED
      BY <2>6, <3>6, <3>7
  <2>7. QED
    BY <2>4, <2>5, <2>6
<1>13. QED
  BY <1>3, <1>4, <1>5, <1>6, <1>8, <1>11, <1>12 DEF Next, Finished, Receiver, ReceiverNext

\* The descriptors left open are as many as the packets held, however often
\* packets come again, so a receiver that may open more files than the file
\* has packets never dies of its leak (receiver.cpp:364-376), and one that may
\* not never receives the whole file.
THEOREM DescriptorTheorem == Spec => []DescriptorsSuffice
<1>1. Init => DescriptorsSuffice
  <2>1. SUFFICES ASSUME Init
                 PROVE  DescriptorsSuffice
    OBVIOUS
  <2>2. written = <<>> /\ DOMAIN rWindow = {} /\ rOpen = 0 /\ rPhase = "listen"
    BY <2>1 DEF Init, ReceiverInit
  <2>3. Held = {}
    BY <2>2 DEF Held, Stored, Delivered
  <2>4. rOpen = Cardinality(Held)
    BY <2>2, <2>3, FS_EmptySet
  <2>5. ~WholeFile
    <3>1. ChunksInFile \in Nat /\ ChunksInFile > 0
      BY FileAssumption DEF ChunksInFile
    <3>2. QED
      BY <2>2, <3>1 DEF WholeFile, Delivered
  <2>6. QED
    BY <2>2, <2>4, <2>5 DEF DescriptorsSuffice, Held
<1>2. IInv /\ IInv' /\ DescriptorsSuffice /\ [Next]_vars => DescriptorsSuffice'
  BY DescriptorStep
<1>3. QED
  BY <1>1, <1>2, Invariance, PTL DEF Spec

------------------------------------------------------------------------------
(* The refinement of FileTransfer. *)

\* Every step of the sender leaves its count and its verdict alone, reports
\* success while closing, or counts packets off in the data loop.
LEMMA SenderProgress ==
  ASSUME IInv, Sender
  PROVE  \/ sRemaining' = sRemaining /\ (sPhase' = "done" <=> sPhase = "done")
         \/ sRemaining' = sRemaining /\ sPhase \in {"fin", "finwait"} /\ sPhase' = "done"
         \/ /\ sPhase = "data" /\ sPhase' # "done"
            /\ \E n \in 0 .. sRemaining : sRemaining' = sRemaining - n
<1>1. CASE SStart \/ SSynTimeout \/ SSynReceive \/ SSynWaitReceive \/ SDataTimeout
  BY <1>1 DEF SStart, SSynTimeout, SSynReceive, SSynWaitReceive, SDataTimeout, RetrySyn,
              senderVars, transferVars
<1>2. CASE SSynWaitTimeout
  BY <1>2 DEF SSynWaitTimeout, OpenWindow, SkipFile, senderVars
<1>3. CASE SFinTimeout \/ SFinReceive \/ SFinWaitReceive \/ SFinWaitTimeout
  BY <1>3 DEF SFinTimeout, SFinReceive, SFinWaitReceive, SFinWaitTimeout, RetryFin,
              RetryFinSend, senderVars, transferVars
<1>4. CASE SDataReceive
  <2>1. TypeOK /\ sPhase = "data"
    BY <1>4 DEF IInv, SDataReceive
  <2>2. PICK i \in Deliverable :
          /\ TakeReply(i)
          /\ IF toSender[i].flags = "ACK" THEN SAckRbn(toSender[i]) \/ SAckSr(toSender[i])
             ELSE UNCHANGED <<toReceiver, sPhase, senderVars>>
    BY <1>4 DEF SDataReceive
  <2>3. ReplyOK(toSender[i])
    BY <2>1, <2>2, TakeReplySubset DEF IInv, MessagesOK
  <2>4. SenderWindow \in Nat /\ sRemaining \in Nat
    <3>1. sRemaining \in 0 .. NumPackets /\ NumPackets \in Nat
      BY <2>1, CountTypes DEF TypeOK
    <3>2. QED
      BY <2>1, <3>1, SenderWindowType
  <2>5. ASSUME NEW n \in 0 .. sRemaining, NEW marks, NEW last, Slide(n, marks, last)
        PROVE  sPhase' # "done" /\ sRemaining' = sRemaining - n
    BY <2>1, <2>5 DEF Slide
  <2>6. CASE UNCHANGED <<toReceiver, sPhase, senderVars>>
    BY <2>6 DEF senderVars
  <2>7. CASE toSender[i].flags = "ACK" /\ SAckRbn(toSender[i])
    <3>1. CASE sPhase' = "failed" /\ UNCHANGED senderVars
      BY <2>1, <3>1 DEF senderVars
    <3>2. CASE /\ toSender[i].seq \in DOMAIN sWindow
               /\ Slide(RbnSteps(toSender[i].seq), sWindow, toSender[i].seq)
      <4>1. RbnSteps(toSender[i].seq) \in 0 .. sRemaining
        BY <2>3, <2>7, <3>2, RbnStepsOK DEF SAckRbn
      <4>2. QED
        BY <2>1, <2>5, <3>2, <4>1
    <3>3. QED
      BY <2>7, <3>1, <3>2 DEF SAckRbn
  <2>8. CASE SAckBase(toSender[i])
    <3>1. PICK n \in 1 .. Lesser(SenderWindow, sRemaining) :
            \E marks, last : Slide(n, marks, last)
      BY <2>8 DEF SAckBase
    <3>2. n \in 0 .. sRemaining
      BY <2>4, <3>1 DEF Lesser
    <3>3. QED
      BY <2>1, <2>5, <3>1, <3>2
  <2>9. CASE SAckMark(toSender[i])
    BY <2>9 DEF SAckMark
  <2>10. QED
    BY <2>2, <2>6, <2>7, <2>8, <2>9 DEF SAckSr
<1>5. QED
  BY <1>1, <1>2, <1>3, <1>4 DEF Sender, SenderNext

\* Nothing that was written is taken back.
LEMMA ReceiverProgress ==
  ASSUME IInv, Receiver
  PROVE  Delivered' \in Nat /\ Delivered <= Delivered'
<1>1. written \in Seq(Payloads)
  BY DEF IInv, TypeOK
<1>2. CASE written' = written
  BY <1>1, <1>2 DEF Delivered
<1>3. CASE \E run \in Seq(Payloads) : written' = written \o run
  <2>1. PICK run \in Seq(Payloads) : written' = written \o run
    BY <1>3
  <2>2. PICK all : all = written \o run
    OBVIOUS
  <2>3. Len(all) \in Nat /\ Len(written) <= Len(all)
    BY <1>1, <2>1, <2>2
  <2>4. QED
    BY <2>1, <2>2, <2>3 DEF Delivered
<1>4. CASE RDataReceive
  <2>1. PICK p \in toReceiver :
         /\ Receive(p)
         /\ LET q == p.seq % MaxSeqNum IN
              CASE p.flags = "FIN" /\ q = rBase -> RFin
                [] p.flags = "DATA" /\ q \in DOMAIN rWindow ->
                     RDuplicate(q) \/ RStore(q, p.payload) \/ RStoreFails(q)
                [] OTHER -> Silent /\ UNCHANGED <<rPhase, receiverVars>>
    BY <1>4 DEF RDataReceive
  <2>2. PICK q : q = p.seq % MaxSeqNum
    OBVIOUS
  <2>3. \/ UNCHANGED receiverVars
        \/ p.flags = "DATA" /\ q \in DOMAIN rWindow /\ RStore(q, p.payload)
    BY <2>1, <2>2 DEF RFin, RDuplicate, RStoreFails
  <2>4. CASE UNCHANGED receiverVars
    BY <1>2, <2>4 DEF receiverVars
  <2>5. CASE p.flags = "DATA" /\ q \in DOMAIN rWindow /\ RStore(q, p.payload)
    <3>1. TypeOK /\ rPhase = "data" /\ rBase \in SeqNums /\ p.payload \in Payloads
      BY <1>4, <2>1 DEF RDataReceive, IInv, TypeOK, Packets
    <3>2. PICK stored : stored = [rData EXCEPT ![q] = p.payload]
      OBVIOUS
    <3>3. stored \in [SeqNums -> Payloads]
      BY <3>1, <3>2 DEF TypeOK
    <3>4. PICK n \in 0 .. ReceiverWindow :
            written' = written \o [i \in 1 .. n |-> stored[SeqAdd(rBase, i - 1)]]
      BY <2>5, <3>2 DEF RStore
    <3>5. n \in Nat
      BY CountTypes
    <3>6. ASSUME NEW i \in 1 .. n
          PROVE  stored[SeqAdd(rBase, i - 1)] \in Payloads
      <4>1. i - 1 \in Nat /\ rBase \in Nat
        BY <3>1 DEF SeqNums
      <4>2. QED
        BY <3>3, <4>1, SeqAddType
    <3>7. [i \in 1 .. n |-> stored[SeqAdd(rBase, i - 1)]] \in Seq(Payloads)
      BY <3>5, <3>6
    <3>8. QED
      BY <1>3, <3>4, <3>7
  <2>6. QED
    BY <2>3, <2>4, <2>5
<1>5. CASE RSynReceive
  BY <1>2, <1>5 DEF RSynReceive, RConnect, RetrySynAck, fileVars
<1>6. CASE RListenTimeout \/ RListenReceive \/ RSynTimeout \/ RDataTimeout
           \/ RFinTimeout \/ RFinReceive
  BY <1>2, <1>6 DEF RListenTimeout, RListenReceive, RSynTimeout, RDataTimeout, RFinTimeout,
                    RFinReceive, RetrySynAck, fileVars, receiverVars
<1>7. QED
  BY <1>4, <1>5, <1>6 DEF Receiver, ReceiverNext

\* In numbers: what the invariant says of the three counters.
Counters ==
  /\ Confirmed \in Nat /\ Delivered \in Nat /\ NumPackets \in Nat
  /\ Confirmed <= Delivered /\ Delivered <= NumPackets
  /\ sRemaining \in Nat /\ Confirmed + sRemaining = NumPackets
  /\ SenderClosing => Confirmed = NumPackets

LEMMA CounterOrder ==
  ASSUME IInv
  PROVE  Counters
<1>1. TypeOK /\ Confirmed <= Delivered /\ Delivered <= sNext
      /\ (SenderClosing => sRemaining = 0)
  BY DEF IInv, SenderOK, ReceiverOK
<1>2. /\ sNext \in 0 .. NumPackets /\ NumPackets \in Nat /\ sRemaining \in 0 .. NumPackets
      /\ Delivered \in Nat
  BY <1>1, CountTypes DEF TypeOK, Delivered
<1>3. Confirmed \in 0 .. NumPackets /\ Confirmed + sRemaining = NumPackets
  BY <1>1, SenderWindowType
<1>4. QED
  BY <1>1, <1>2, <1>3 DEF Counters

LEMMA SenderRefines ==
  ASSUME IInv, Counters, Counters', Sender
  PROVE  [FT!FTNext]_(FT!ftVars)
<1>1. Delivered' = Delivered
  BY DEF Sender, receiverVars, Delivered
<1>2. ASSUME sRemaining' = sRemaining
      PROVE  Confirmed' = Confirmed
  BY <1>2 DEF Confirmed
<1>3. CASE sRemaining' = sRemaining /\ (sPhase' = "done" <=> sPhase = "done")
  <2>1. (sPhase = "done")' = (sPhase = "done")
    BY <1>3
  <2>2. QED
    BY <1>1, <1>2, <1>3, <2>1 DEF FT!ftVars
<1>4. CASE sRemaining' = sRemaining /\ sPhase \in {"fin", "finwait"} /\ sPhase' = "done"
  <2>1. Confirmed = NumPackets
    BY <1>4 DEF Counters, SenderClosing
  <2>2. FT!Report
    BY <1>1, <1>2, <1>4, <2>1 DEF FT!Report
  <2>3. QED
    BY <2>2 DEF FT!FTNext
<1>5. CASE /\ sPhase = "data" /\ sPhase' # "done"
           /\ \E n \in 0 .. sRemaining : sRemaining' = sRemaining - n
  <2>1. PICK n \in 0 .. sRemaining : sRemaining' = sRemaining - n
    BY <1>5
  <2>2. Confirmed' = Confirmed + n
    <3>1. NumPackets - (sRemaining - n) = Confirmed + n
      BY DEF Counters
    <3>2. QED
      BY <2>1, <3>1 DEF Confirmed
  <2>3. PICK c : c = Confirmed'
    OBVIOUS
  <2>4. c = Confirmed + n /\ c <= Delivered
    BY <1>1, <2>2, <2>3 DEF Counters
  <2>5. (sPhase = "done")' = (sPhase = "done")
    BY <1>5
  <2>6. CASE n = 0
    <3>1. Confirmed' = Confirmed
      BY <2>2, <2>6 DEF Counters
    <3>2. QED
      BY <1>1, <2>5, <3>1 DEF FT!ftVars
  <2>7. CASE n # 0
    <3>1. c \in Confirmed + 1 .. Delivered
      BY <2>1, <2>4, <2>7 DEF Counters
    <3>2. FT!Confirm
      BY <1>1, <1>5, <2>3, <2>5, <3>1 DEF FT!Confirm
    <3>3. QED
      BY <3>2 DEF FT!FTNext
  <2>8. QED
    BY <2>6, <2>7
<1>6. QED
  BY <1>3, <1>4, <1>5, SenderProgress

LEMMA ReceiverRefines ==
  ASSUME IInv, Counters, Counters', Receiver
  PROVE  [FT!FTNext]_(FT!ftVars)
<1>1. sRemaining' = sRemaining /\ sPhase' = sPhase
  BY DEF Receiver, senderVars, ReceiverNext, RListenTimeout, RListenReceive, RSynTimeout,
         RSynReceive, RDataTimeout, RDataReceive, RFinTimeout, RFinReceive
<1>2. Confirmed' = Confirmed /\ (sPhase = "done")' = (sPhase = "done")
  BY <1>1 DEF Confirmed
<1>3. PICK d : d = Delivered'
  OBVIOUS
<1>4. d \in Nat /\ Delivered <= d /\ d <= NumPackets
  BY <1>3, ReceiverProgress DEF Counters
<1>5. CASE d = Delivered
  BY <1>2, <1>3, <1>5 DEF FT!ftVars
<1>6. CASE d # Delivered
  <2>1. d \in Delivered + 1 .. NumPackets
    BY <1>4, <1>6 DEF Counters
  <2>2. FT!Deliver
    BY <1>2, <1>3, <2>1 DEF FT!Deliver
  <2>3. QED
    BY <2>2 DEF FT!FTNext
<1>7. QED
  BY <1>5, <1>6

LEMMA StepRefines ==
  ASSUME IInv, Counters, Counters', [Next]_vars
  PROVE  [FT!FTNext]_(FT!ftVars)
<1>1. CASE Network \/ UNCHANGED vars
  <2>1. UNCHANGED <<sPhase, senderVars, receiverVars>>
    BY <1>1 DEF Network, NetworkFault, LoseDatagram, CorruptDatagram, LoseReply,
                CorruptReply, Fault, vars
  <2>2. UNCHANGED <<sPhase, sRemaining, written>>
    BY <2>1 DEF senderVars, receiverVars
  <2>3. QED
    BY <2>2 DEF FT!ftVars, Confirmed, Delivered
<1>2. QED
  BY <1>1, SenderRefines, ReceiverRefines DEF Next, Finished

\* The two programs and the network implement the abstract transfer: what is
\* confirmed was delivered first, and success is reported once, when every
\* packet the sender counted is confirmed (sender.cpp:821).
THEOREM Refinement == Spec => ImplementsFileTransfer
<1>1. Init => FT!FTInit
  <2>1. SUFFICES ASSUME Init
                 PROVE  FT!FTInit
    OBVIOUS
  <2>2. sRemaining = NumPackets /\ written = <<>> /\ sPhase = "start" /\ NumPackets \in Nat
    BY <2>1, CountTypes DEF Init, SenderInit, ReceiverInit
  <2>3. Confirmed = 0 /\ Delivered = 0
    BY <2>2 DEF Confirmed, Delivered
  <2>4. QED
    BY <2>2, <2>3 DEF FT!FTInit
<1>2. IInv => Counters
  BY CounterOrder
<1>3. IInv /\ Counters /\ Counters' /\ [Next]_vars => [FT!FTNext]_(FT!ftVars)
  BY StepRefines
<1>4. QED
  BY <1>1, <1>2, <1>3, Invariance, PTL DEF Spec, ImplementsFileTransfer, FT!FTSpec

------------------------------------------------------------------------------
(* The numbers of the closing handshake. *)

\* A last number that closes the run: the receiver's next after the file, and
\* reduced unless SR has crossed the wrap.
ClosingNumber(s) ==
  /\ s % MaxSeqNum = PacketSeq(NumPackets)
  /\ (mode = "SR" => EndsBeforeWrap) => s = PacketSeq(NumPackets)

\* FINs carry the sender's last number, FINACKs the receiver's base, which
\* stands still from the first of them on.
FinInv ==
  /\ \A p \in toReceiver : p.flags = "FIN" => SenderClosing /\ p.seq = sLast
  /\ \A p \in ToSet(toSender) : p.flags = "FINACK" => p = FinAck(rBase)
  /\ SenderClosing /\ NumPackets > 0 => ClosingNumber(sLast)

\* The acknowledgement that empties an RBN window says the whole file.
LEMMA RbnLast ==
  ASSUME IInv, mode = "RBN", NEW p, ReplyOK(p), p.flags = "ACK", p.seq \in DOMAIN sWindow,
         RbnSteps(p.seq) = sRemaining
  PROVE  ClosingNumber(p.seq)
<1>1. PICK m \in 0 .. NumPackets : p.seq = PacketSeq(m)
  BY DEF ReplyOK
<1>2. Confirmed + RbnSteps(p.seq) <= m
  BY <1>1, RbnStepsReach
<1>3. m = NumPackets
  BY <1>2, CounterOrder DEF Counters
<1>4. NumPackets \in Nat /\ TypeOK
  BY CountTypes DEF IInv
<1>5. PacketSeq(NumPackets) \in SeqNums
  BY <1>4, PacketSeqType
<1>6. QED
  BY <1>1, <1>3, <1>5, SeqNumReduced DEF ClosingNumber

\* SR counts on from base, without reducing.
LEMMA SrLast ==
  ASSUME IInv, mode = "SR"
  PROVE  ClosingNumber(sBase + sRemaining)
<1>1. TypeOK /\ sBase = PacketSeq(Confirmed) /\ Counters
  BY CounterOrder DEF IInv, SenderOK
<1>2. /\ NumPackets \in Nat /\ NumPackets <= MaxSeqNum /\ MaxSeqNum \in Nat \ {0}
      /\ Confirmed \in Nat /\ sRemaining \in Nat /\ Confirmed + sRemaining = NumPackets
  BY <1>1, CountTypes DEF Counters
<1>3. (sBase + sRemaining) % MaxSeqNum = PacketSeq(NumPackets)
  BY <1>1, <1>2, PacketSeqSum DEF SeqAdd
<1>4. ASSUME EndsBeforeWrap
      PROVE  sBase + sRemaining = PacketSeq(NumPackets)
  <2>1. First \in SeqNums /\ First + NumPackets < MaxSeqNum
    BY <1>1, <1>4, PacketSeqType DEF EndsBeforeWrap
  <2>2. Confirmed \in 0 .. MaxSeqNum /\ NumPackets \in 0 .. MaxSeqNum
    BY <1>2
  <2>3. PacketSeq(NumPackets) = First + NumPackets
    BY <2>1, <2>2, SeqAddCases DEF PacketSeq
  <2>4. PacketSeq(Confirmed) = First + Confirmed
    <3>1. First + Confirmed < MaxSeqNum
      BY <1>2, <2>1 DEF SeqNums
    <3>2. QED
      BY <2>1, <2>2, <3>1, SeqAddCases DEF PacketSeq
  <2>5. QED
    BY <1>1, <1>2, <2>1, <2>3, <2>4 DEF SeqNums
<1>5. QED
  BY <1>3, <1>4 DEF ClosingNumber

\* What a step of the sender may do to the close: begin it with a closing
\* number, and repeat its FIN.
SenderCloses ==
  /\ SenderClosing => SenderClosing' /\ sLast' = sLast
  /\ \A p \in toReceiver' \ toReceiver :
       p.flags = "FIN" => SenderClosing' /\ p.seq = sLast'
  /\ SenderClosing' /\ ~SenderClosing /\ NumPackets > 0 => ClosingNumber(sLast')

LEMMA SlideCloses ==
  ASSUME sPhase = "data", NEW n, NEW marks, NEW last, Slide(n, marks, last),
         n = sRemaining => ClosingNumber(last)
  PROVE  SenderCloses
<1> DEFINE fresh == NewPackets(SeqAdd(sBase, SenderWindow), Fresh(n))
<1>1. \A p \in fresh : p.flags = "DATA"
  BY DEF NewPackets, Data
<1>2. ~SenderClosing
  BY DEF SenderClosing
<1>3. CASE n = sRemaining
  <2>1. sLast' = last /\ sPhase' = "fin" /\ toReceiver' = toReceiver \cup (fresh \cup {Fin(last)})
    BY <1>3 DEF Slide, Send
  <2>2. QED
    BY <1>1, <1>2, <1>3, <2>1 DEF SenderCloses, SenderClosing, Fin
<1>4. CASE n # sRemaining
  <2>1. sPhase' = sPhase /\ toReceiver' = toReceiver \cup fresh
    BY <1>4 DEF Slide, Send
  <2>2. QED
    BY <1>1, <1>2, <2>1 DEF SenderCloses, SenderClosing
<1>5. QED
  BY <1>3, <1>4

LEMMA SenderStepCloses ==
  ASSUME IInv, Sender
  PROVE  SenderCloses
<1>1. CASE SStart \/ SSynTimeout \/ SSynReceive \/ SSynWaitReceive
  BY <1>1 DEF SStart, SSynTimeout, SSynReceive, SSynWaitReceive, RetrySyn, Send, Syn, Ack,
              SenderCloses, SenderClosing
<1>2. CASE SSynWaitTimeout
  <2>1. sPhase = "synwait" /\ ~SenderClosing
    BY <1>2 DEF SSynWaitTimeout, SenderClosing
  <2>2. CASE sPhase' = "failed" /\ toReceiver' = toReceiver
    BY <2>1, <2>2 DEF SenderCloses, SenderClosing
  <2>3. CASE OpenWindow
    BY <2>1, <2>3 DEF OpenWindow, Send, NewPackets, Data, SenderCloses, SenderClosing
  <2>4. CASE NumPackets = 0 /\ SkipFile
    BY <2>1, <2>4 DEF SkipFile, Send, Fin, SenderCloses, SenderClosing
  <2>5. QED
    BY <1>2, <2>2, <2>3, <2>4 DEF SSynWaitTimeout
<1>3. CASE SDataTimeout
  BY <1>3 DEF SDataTimeout, Send, StoredPackets, Data, SenderCloses, SenderClosing
<1>4. CASE SDataReceive
  <2>1. TypeOK /\ sPhase = "data"
    BY <1>4 DEF IInv, SDataReceive
  <2>2. PICK i \in Deliverable :
          /\ TakeReply(i)
          /\ IF toSender[i].flags = "ACK" THEN SAckRbn(toSender[i]) \/ SAckSr(toSender[i])
             ELSE UNCHANGED <<toReceiver, sPhase, senderVars>>
    BY <1>4 DEF SDataReceive
  <2>3. ReplyOK(toSender[i])
    BY <2>1, <2>2, TakeReplySubset DEF IInv, MessagesOK
  <2>4. CASE UNCHANGED toReceiver /\ sPhase' \in {"data", "failed"}
    BY <2>1, <2>4 DEF SenderCloses, SenderClosing
  <2>5. CASE toSender[i].flags = "ACK" /\ SAckRbn(toSender[i])
    <3>1. CASE /\ toSender[i].seq \in DOMAIN sWindow
               /\ Slide(RbnSteps(toSender[i].seq), sWindow, toSender[i].seq)
      <4>1. RbnSteps(toSender[i].seq) = sRemaining => ClosingNumber(toSender[i].seq)
        BY <2>3, <2>5, <3>1, RbnLast DEF SAckRbn
      <4>2. QED
        BY <2>1, <3>1, <4>1, SlideCloses
    <3>2. QED
      BY <2>4, <2>5, <3>1 DEF SAckRbn
  <2>6. CASE mode = "SR" /\ SAckBase(toSender[i])
    <3>1. toSender[i].seq = sBase
          /\ \E n, marks : Slide(n, marks, sBase + n)
      BY <2>6 DEF SAckBase
    <3>2. PICK n, marks : Slide(n, marks, sBase + n)
      BY <3>1
    <3>3. n = sRemaining => ClosingNumber(sBase + n)
      BY <2>6, SrLast
    <3>4. QED
      BY <2>1, <3>2, <3>3, SlideCloses
  <2>7. QED
    BY <2>1, <2>2, <2>4, <2>5, <2>6 DEF SAckSr, SAckMark
<1>5. CASE SFinTimeout \/ SFinReceive \/ SFinWaitReceive \/ SFinWaitTimeout
  <2>1. SenderClosing
    BY <1>5 DEF SFinTimeout, SFinReceive, SFinWaitReceive, SFinWaitTimeout, SenderClosing
  <2>2. sPhase' \in {"fin", "finwait", "done"} /\ sLast' = sLast
    BY <1>5 DEF SFinTimeout, SFinReceive, SFinWaitReceive, SFinWaitTimeout, RetryFin,
                RetryFinSend, senderVars, transferVars
  <2>3. toReceiver' \subseteq toReceiver \cup {Fin(sLast)}
    BY <1>5 DEF SFinTimeout, SFinReceive, SFinWaitReceive, SFinWaitTimeout,
                RetryFinSend, Send, netVars
  <2>4. SenderClosing'
    BY <2>2 DEF SenderClosing
  <2>5. QED
    BY <2>1, <2>2, <2>3, <2>4 DEF SenderCloses, Fin
<1>6. QED
  BY <1>1, <1>2, <1>3, <1>4, <1>5 DEF Sender, SenderNext

\* No step of the sender adds to the replies.
LEMMA SenderTakes ==
  ASSUME IInv, Sender
  PROVE  UNCHANGED <<runVars, rBase>> /\ ToSet(toSender)' \subseteq ToSet(toSender)
<1>1. UNCHANGED <<runVars, rBase>>
  BY DEF Sender, receiverVars, SenderNext, SStart, SSynTimeout, SSynReceive,
         SSynWaitReceive, SSynWaitTimeout, SDataTimeout, SDataReceive, SFinTimeout,
         SFinReceive, SFinWaitReceive, SFinWaitTimeout
<1>2. TypeOK
  BY DEF IInv
<1>3. CASE \E i \in Deliverable : TakeReply(i)
  BY <1>1, <1>2, <1>3, TakeReplySubset
<1>4. CASE toSender' = toSender
  <2>1. ToSet(toSender)' = ToSet(toSender)
    BY <1>4
  <2>2. QED
    BY <1>1, <2>1
<1>5. QED
  BY <1>1, <1>3, <1>4
  DEF Sender, SenderNext, SStart, SSynTimeout, SSynReceive, SSynWaitReceive,
      SSynWaitTimeout, SDataTimeout, SDataReceive, SFinTimeout, SFinReceive,
      SFinWaitReceive, SFinWaitTimeout, netVars

\* The receiver takes datagrams, sends its FINACKs with its base, and moves
\* the base no more once it has sent one.
LEMMA ReceiverReplies ==
  ASSUME IInv, Receiver
  PROVE  /\ toReceiver' \subseteq toReceiver
         /\ \A p \in ToSet(toSender)' :
              p.flags = "FINACK" => p \in ToSet(toSender) \/ p = FinAck(rBase')
         /\ rPhase \in {"finack", "done"} => rBase' = rBase
<1>1. TypeOK /\ rBase \in Nat /\ rSyn \in Nat
  BY DEF IInv, TypeOK, SeqNums
<1>2. ASSUME NEW p \in Packets, Reply(p), p.flags # "FINACK" \/ p = FinAck(rBase')
      PROVE  \A r \in ToSet(toSender)' :
               r.flags = "FINACK" => r \in ToSet(toSender) \/ r = FinAck(rBase')
  BY <1>1, <1>2, ReplySubset
<1>3. ASSUME Silent
      PROVE  ToSet(toSender)' = ToSet(toSender)
  BY <1>3 DEF Silent
<1>4. SynAck(SeqAdd(rSyn, 1)) \in Packets /\ SynAck(SeqAdd(rSyn, 1)).flags # "FINACK"
  <2>1. SeqAdd(rSyn, 1) \in Nat
    BY <1>1, SeqAddType DEF SeqNums
  <2>2. QED
    BY <2>1, PacketTypes DEF SynAck
<1>5. CASE RListenTimeout \/ RDataTimeout \/ RFinTimeout
  BY <1>5 DEF RListenTimeout, RDataTimeout, RFinTimeout, netVars, receiverVars
<1>6. CASE RListenReceive
  <2>1. PICK p \in toReceiver :
          /\ Receive(p)
          /\ Silent \/ Reply(SynAck(SeqAdd(p.seq, 1)))
    BY <1>6 DEF RListenReceive
  <2>2. SynAck(SeqAdd(p.seq, 1)) \in Packets /\ SynAck(SeqAdd(p.seq, 1)).flags # "FINACK"
    <3>1. p.seq \in Nat
      BY <1>1, <2>1 DEF TypeOK, Packets
    <3>2. PICK s \in Nat : s = p.seq
      BY <3>1
    <3>3. SeqAdd(s, 1) \in Nat
      BY SeqAddType DEF SeqNums
    <3>4. QED
      BY <3>2, <3>3, PacketTypes DEF SynAck
  <2>3. rPhase = "listen"
    BY <1>6 DEF RListenReceive
  <2>4. QED
    BY <1>2, <1>3, <2>1, <2>2, <2>3, ReceiveSubset
<1>7. CASE RSynTimeout \/ RSynReceive
  <2>1. toReceiver' \subseteq toReceiver /\ rPhase = "synrcvd"
    BY <1>7, ReceiveSubset DEF RSynTimeout, RSynReceive
  <2>2. Silent \/ Reply(SynAck(SeqAdd(rSyn, 1)))
    BY <1>7 DEF RSynTimeout, RSynReceive, RetrySynAck, RConnect
  <2>3. QED
    BY <1>2, <1>3, <1>4, <2>1, <2>2
<1>8. CASE RDataReceive
  <2>1. rPhase = "data"
    BY <1>8 DEF RDataReceive
  <2>2. PICK p \in toReceiver :
       /\ Receive(p)
       /\ LET q == p.seq % MaxSeqNum IN
            CASE p.flags = "FIN" /\ q = rBase -> RFin
              [] p.flags = "DATA" /\ q \in DOMAIN rWindow ->
                   RDuplicate(q) \/ RStore(q, p.payload) \/ RStoreFails(q)
              [] OTHER -> Silent /\ UNCHANGED <<rPhase, receiverVars>>
    BY <1>8 DEF RDataReceive
  <2>3. PICK q : q = p.seq % MaxSeqNum
    OBVIOUS
  <2>4. q \in Nat
    <3>1. p.seq \in Nat /\ MaxSeqNum \in Nat \ {0}
      BY <1>1, <2>2, CountTypes DEF TypeOK, Packets
    <3>2. QED
      BY <2>3, <3>1
  <2>5. \/ Silent
        \/ \E e \in {rBase} \cup {SeqAdd(rBase, n) : n \in 0 .. ReceiverWindow} :
             Reply(AckFor(q, e))
        \/ Reply(FinAck(rBase)) /\ rBase' = rBase
    BY <2>2, <2>3 DEF RFin, RDuplicate, RStore, RStoreFails, receiverVars
  <2>6. ASSUME NEW e \in Nat
        PROVE  AckFor(q, e) \in Packets /\ AckFor(q, e).flags # "FINACK"
    BY <2>4, PacketTypes DEF AckFor, Ack
  <2>7. \A n \in 0 .. ReceiverWindow : SeqAdd(rBase, n) \in Nat
    BY <1>1, SeqAddType, CountTypes DEF SeqNums
  <2>8. FinAck(rBase) \in Packets
    BY <1>1, PacketTypes
  <2>9. CASE Silent
    BY <1>3, <2>1, <2>2, <2>9, ReceiveSubset
  <2>10. CASE \E e \in Nat : Reply(AckFor(q, e))
    BY <1>2, <2>1, <2>2, <2>6, <2>10, ReceiveSubset
  <2>11. CASE Reply(FinAck(rBase)) /\ rBase' = rBase
    BY <1>2, <2>1, <2>2, <2>8, <2>11, ReceiveSubset
  <2>12. QED
    BY <1>1, <2>5, <2>7, <2>9, <2>10, <2>11
<1>9. CASE RFinReceive
  <2>1. FinAck(rBase) \in Packets
    BY <1>1, PacketTypes
  <2>2. toReceiver' \subseteq toReceiver /\ Reply(FinAck(rBase)) /\ rBase' = rBase
    BY <1>9, ReceiveSubset DEF RFinReceive, receiverVars
  <2>3. QED
    BY <1>2, <2>1, <2>2
<1>10. QED
  BY <1>5, <1>6, <1>7, <1>8, <1>9 DEF Receiver, ReceiverNext

\* A fault takes datagrams away or puts Junk in their place.
LEMMA FaultReplaces ==
  ASSUME IInv, Network
  PROVE  /\ UNCHANGED <<runVars, sPhase, senderVars, rBase>>
         /\ toReceiver' \subseteq toReceiver \cup {Junk}
         /\ ToSet(toSender)' \subseteq ToSet(toSender) \cup {Junk}
<1>1. UNCHANGED <<runVars, sPhase, senderVars, rBase>> /\ toSender \in Seq(Packets)
      /\ Junk \in Packets
  BY PacketTypes DEF Network, NetworkFault, LoseDatagram, CorruptDatagram, LoseReply,
     CorruptReply, Fault, receiverVars, IInv, TypeOK
<1>2. CASE LoseDatagram \/ CorruptDatagram
  <2>1. toReceiver' \subseteq toReceiver \cup {Junk} /\ toSender' = toSender
    BY <1>2 DEF LoseDatagram, CorruptDatagram
  <2>2. QED
    BY <1>1, <2>1
<1>3. CASE LoseReply
  <2>1. PICK i \in DOMAIN toSender : toSender' = RemoveAt(toSender, i)
    BY <1>3 DEF LoseReply
  <2>2. ToSet(toSender)' \subseteq ToSet(toSender) /\ toReceiver' = toReceiver
    BY <1>1, <1>3, <2>1, RemoveAtSubset DEF LoseReply
  <2>3. QED
    BY <1>1, <2>2
<1>4. CASE CorruptReply
  <2>1. PICK i \in DOMAIN toSender : toSender' = [toSender EXCEPT ![i] = Junk]
    BY <1>4 DEF CorruptReply
  <2>2. PICK t : t = [toSender EXCEPT ![i] = Junk]
    OBVIOUS
  <2>3. ToSet(t) \subseteq ToSet(toSender) \cup {Junk}
    BY <1>1, <2>2, CorruptSubset
  <2>4. toSender' = t /\ ToSet(toSender)' = ToSet(t) /\ toReceiver' = toReceiver
    BY <1>4, <2>1, <2>2 DEF CorruptReply
  <2>5. QED
    BY <1>1, <2>3, <2>4
<1>5. QED
  BY <1>2, <1>3, <1>4 DEF Network, NetworkFault

LEMMA FinStep ==
  ASSUME IInv, FinInv, [Next]_vars
  PROVE  FinInv'
<1>1. ASSUME UNCHANGED runVars
      PROVE  \A s : ClosingNumber(s)' <=> ClosingNumber(s)
  BY <1>1, SameRun DEF ClosingNumber, EndsBeforeWrap
<1>2. CASE Sender
  <2>1. UNCHANGED <<runVars, rBase>> /\ ToSet(toSender)' \subseteq ToSet(toSender)
    BY <1>2, SenderTakes
  <2>2. SenderCloses
    BY <1>2, SenderStepCloses
  <2>3. \A p \in toReceiver' : p.flags = "FIN" => SenderClosing' /\ p.seq = sLast'
    BY <2>2 DEF FinInv, SenderCloses
  <2>4. SenderClosing' /\ NumPackets > 0 => ClosingNumber(sLast')
    BY <2>2 DEF FinInv, SenderCloses
  <2>5. SenderClosing' /\ NumPackets > 0 => ClosingNumber(sLast)'
    BY <1>1, <2>1, <2>4, SameRun DEF ClosingNumber, EndsBeforeWrap
  <2>6. \A p \in ToSet(toSender)' : p.flags = "FINACK" => p = FinAck(rBase')
    BY <2>1 DEF FinInv
  <2>7. QED
    BY <2>3, <2>5, <2>6 DEF FinInv, FinAck
<1>3. CASE Receiver
  <2>1. UNCHANGED <<runVars, sPhase, sLast>>
    BY <1>3 DEF Receiver, senderVars, ReceiverNext, RListenTimeout, RListenReceive,
                RSynTimeout, RSynReceive, RDataTimeout, RDataReceive, RFinTimeout,
                RFinReceive
  <2>2. /\ toReceiver' \subseteq toReceiver
        /\ \A p \in ToSet(toSender)' :
             p.flags = "FINACK" => p \in ToSet(toSender) \/ p = FinAck(rBase')
        /\ rPhase \in {"finack", "done"} => rBase' = rBase
    BY <1>3, ReceiverReplies
  <2>3. ASSUME NEW p \in ToSet(toSender), p.flags = "FINACK"
        PROVE  p = FinAck(rBase')
    BY <2>2, <2>3 DEF FinInv, IInv, MessagesOK, ReplyOK
  <2>4. \A p \in ToSet(toSender)' : p.flags = "FINACK" => p = FinAck(rBase')
    BY <2>2, <2>3
  <2>5. QED
    BY <1>1, <2>1, <2>2, <2>4, SameRun
    DEF FinInv, SenderClosing, FinAck, ClosingNumber, EndsBeforeWrap
<1>4. CASE Network
  <2>1. /\ UNCHANGED <<runVars, sPhase, senderVars, rBase>>
        /\ toReceiver' \subseteq toReceiver \cup {Junk}
        /\ ToSet(toSender)' \subseteq ToSet(toSender) \cup {Junk}
    BY <1>4, FaultReplaces
  <2>2. sLast' = sLast /\ Junk.flags = "BAD"
    BY <2>1 DEF senderVars, Junk
  <2>3. QED
    BY <1>1, <2>1, <2>2, SameRun
    DEF FinInv, SenderClosing, FinAck, ClosingNumber, EndsBeforeWrap
<1>5. CASE UNCHANGED vars
  BY <1>5, SameRun DEF vars, netVars, senderVars, receiverVars, FinInv, SenderClosing,
     ClosingNumber, EndsBeforeWrap, FinAck
<1>6. QED
  BY <1>2, <1>3, <1>4, <1>5 DEF Next, Finished

\* FIN and FINACK carry the number the other end waits for, whatever is lost,
\* late or repeated, save SR's FINACK at the wrap (sender.cpp:689).
THEOREM CloseNumbersTheorem == Spec => []CloseNumbersAgree
<1>1. Init => FinInv
  BY DEF Init, NetworkInit, SenderInit, FinInv, ToSet, SenderClosing
<1>2. IInv /\ FinInv /\ [Next]_vars => FinInv'
  BY FinStep
<1>3. IInv /\ FinInv => CloseNumbersAgree
  <2>1. SUFFICES ASSUME IInv, FinInv, NumPackets > 0, SenderClosing
                 PROVE  rBase = PacketSeq(NumPackets)
    <3>1. \A i \in DOMAIN toSender : toSender[i] \in ToSet(toSender)
      BY DEF ToSet
    <3>2. QED
      BY <3>1 DEF FinInv, ClosingNumber, CloseNumbersAgree, SenderClosing, FinAcked
  <2>2. Delivered = NumPackets
    BY <2>1, CounterOrder DEF Counters
  <2>3. Connected
    BY <2>1, <2>2 DEF IInv, ReceiverOK, Delivered
  <2>4. rBase = PacketSeq(Delivered)
    BY <2>1, <2>3 DEF IInv, ReceiverOK
  <2>5. QED
    BY <2>2, <2>4
<1>4. QED
  BY <1>1, <1>2, <1>3, Invariance, PTL DEF Spec

==============================================================================
