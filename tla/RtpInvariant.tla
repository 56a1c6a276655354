---------------------------- MODULE RtpInvariant -----------------------------
(***************************************************************************)
(* The inductive invariant of Rtp: what ties the two windows, the packets  *)
(* in flight and the two files together.  It is stated in terms of packet  *)
(* indices, the n-th packet of the file having number PacketSeq(n).        *)
(***************************************************************************)
EXTENDS Rtp

\* The receiver is past the handshake.
Connected == rPhase \in {"data", "finack", "done", "crashed"}

\* A datagram to the receiver says only what is so: a data packet carries a
\* chunk that was read, under its own number, and a FIN comes from a sender
\* that has left its data loop.
DatagramOK(p) ==
  /\ p.flags = "SYN" => p.seq = initSeq
  /\ p.flags = "DATA" =>
       \E n \in 0 .. NumPackets :
         n < sNext /\ p.seq = PacketSeq(n) /\ p.payload = Chunk(n)
  /\ p.flags = "FIN" => SenderClosing

\* A reply, however old, acknowledges only what the receiver holds: RBN a
\* number of packets written, SR one packet written or in the window.
ReplyOK(p) ==
  /\ p.flags = "ACK" =>
       \E n \in 0 .. NumPackets :
         /\ p.seq = PacketSeq(n)
         /\ IF mode = "RBN" THEN n <= Delivered ELSE Stored(n)
  /\ p.flags = "FINACK" => rPhase \in {"finack", "done"}

MessagesOK ==
  /\ \A p \in toReceiver : DatagramOK(p)
  /\ \A p \in ToSet(toSender) : ReplyOK(p)

\* The sender's base is the packet after those counted off, its stored data
\* are the chunks read, what SR has marked the receiver holds, and RBN has
\* marked all that is read and not counted off.
SenderOK ==
  /\ sBase = PacketSeq(Confirmed)
  /\ Confirmed <= Delivered
  /\ \A n \in 0 .. MaxSeqNum - 1 :
       sData[PacketSeq(n)] = IF n < sNext THEN Chunk(n) ELSE NoData
  /\ mode = "SR" =>
       \A n \in 0 .. MaxSeqNum - 1 :
         PacketSeq(n) \in DOMAIN sWindow /\ sWindow[PacketSeq(n)] => Stored(n)
  /\ mode = "RBN" /\ sPhase = "data" =>
       \A n \in 0 .. MaxSeqNum - 1 :
         Confirmed <= n /\ n < sNext => sWindow[PacketSeq(n)]
  /\ sPhase \in {"start", "syn", "synwait"} => sNext = 0 /\ sRemaining = NumPackets
  /\ sPhase = "data" => sNext = Lesser(NumPackets, Confirmed + SenderWindow)
  /\ SenderClosing => sRemaining = 0
  /\ ~SenderExited => sCount < ResendMax
  /\ sPhase = "finwait" => rPhase \in {"finack", "done"}

\* The receiver's base is the packet after those written, what is in the
\* window is the chunk of its number, and the packet at base is missing.
ReceiverOK ==
  /\ Delivered <= sNext
  /\ PrefixWritten
  /\ rPhase = "synrcvd" => rSyn = initSeq
  /\ rPhase = "finack" => SenderClosing
  /\ ~Connected => written = <<>> /\ DOMAIN rWindow = {}
  /\ Connected => /\ rBase = PacketSeq(Delivered)
                  /\ DOMAIN rWindow = Window(rBase, ReceiverWindow)
  /\ PacketSeq(Delivered) \in DOMAIN rWindow => ~rWindow[PacketSeq(Delivered)]
  /\ \A n \in 0 .. MaxSeqNum - 1 :
       PacketSeq(n) \in DOMAIN rWindow /\ rWindow[PacketSeq(n)] =>
         n < sNext /\ rData[PacketSeq(n)] = Chunk(n)

\* The inductive invariant: at every moment the sender's window
\* (sender.cpp:304-318, 543-555), the receiver's (receiver.cpp:224-241), the
\* packets in flight and the two files agree on which packet of the file each
\* sequence number stands for, and the sender's base is behind the receiver's.
IInv == TypeOK /\ MessagesOK /\ SenderOK /\ ReceiverOK

------------------------------------------------------------------------------
(* Replies in order. *)

\* The reply at position i says, in RBN, that n packets are written.
Says(i, n) == toSender[i].flags = "ACK" /\ toSender[i].seq = PacketSeq(n)

\* On a network that keeps replies in order, RBN's acknowledgements
\* (receiver.cpp:426) never step back: none in flight says less than one
\* before it, nor less than the sender has counted off (sender.cpp:410).
AcksInOrder ==
  mode = "RBN" =>
    \A i \in DOMAIN toSender, n \in 0 .. NumPackets :
      Says(i, n) =>
        /\ Confirmed <= n
        /\ \A j \in 1 .. i - 1, m \in 0 .. NumPackets : Says(j, m) => m <= n
==============================================================================
