--------------------------------- MODULE Rtp ---------------------------------
(***************************************************************************)
(* One run of the RTP lab: a sender and a receiver process started with    *)
(* the same mode, and the network between them.                            *)
(***************************************************************************)
EXTENDS RtpSender, RtpReceiver

vars == <<runVars, netVars, sPhase, rPhase, senderVars, receiverVars>>

Init == NetworkInit /\ SenderInit /\ ReceiverInit

Sender   == SenderNext /\ UNCHANGED receiverVars
Receiver == ReceiverNext /\ UNCHANGED senderVars
Network  == NetworkFault /\ UNCHANGED <<senderVars, receiverVars>>

\* Both processes have ended.
Finished == SenderExited /\ ReceiverExited /\ UNCHANGED vars

Next == Sender \/ Receiver \/ Network \/ Finished

Spec == Init /\ [][Next]_vars

\* A process blocked in select() is woken by a datagram or by its timer.
FairSpec == Spec /\ WF_vars(Sender) /\ WF_vars(Receiver)

------------------------------------------------------------------------------
(* Vocabulary of the properties. *)

\* The sequence number of the n-th packet of the file.
PacketSeq(n) == SeqAdd(First, n)

Confirmed == NumPackets - sRemaining
Delivered == Len(written)

\* The receiver holds packet n, in the file or in its window.
Stored(n) ==
  \/ n < Delivered
  \/ PacketSeq(n) \in DOMAIN rWindow /\ rWindow[PacketSeq(n)]

SenderClosing == sPhase \in {"fin", "finwait", "done"}

WholeFile == Delivered = ChunksInFile

------------------------------------------------------------------------------
(* Properties. *)

\* Type invariant of the composed system.
TypeOK ==
  /\ mode \in Modes /\ initSeq \in InitSeqNums
  /\ toReceiver \subseteq Packets
  /\ toSender \in Seq(Packets)
  /\ faults \in 0 .. MaxFaults
  /\ sPhase \in {"start", "syn", "synwait", "data", "fin", "finwait", "done", "failed"}
  /\ rPhase \in {"listen", "synrcvd", "data", "finack", "done", "refused", "crashed"}
  /\ sCount \in 0 .. ResendMax
  /\ sBase \in SeqNums
  /\ sWindow \in [SenderKeys(sBase) -> BOOLEAN]
  /\ sData \in [SeqNums -> Payloads]
  /\ sNext \in 0 .. NumPackets
  /\ sRemaining \in 0 .. NumPackets
  /\ sLast \in Nat
  /\ rCount \in 0 .. ResendMax
  /\ rSyn \in SeqNums
  /\ rBase \in SeqNums
  /\ rWindow \in [DOMAIN rWindow -> BOOLEAN] /\ DOMAIN rWindow \subseteq SeqNums
  /\ rData \in [SeqNums -> Payloads]
  /\ written \in Seq(Payloads)
  /\ rOpen \in 0 .. FdLimit

\* The output file is at every moment a prefix of the input file: chunks are
\* written once each, in order, with their own content (receiver.cpp:383-413),
\* whatever the network does to packets and whichever mode runs.
PrefixWritten ==
  \A i \in 1 .. Delivered : written[i] = Chunk(i - 1)

\* What the sender has counted off num_packets (sender.cpp:414, 676) the
\* receiver has written to the file: no acknowledgement, late, repeated or
\* cumulative, moves the sender's base past the receiver's.
AckedIsStored == Confirmed <= Delivered

\* A closing sender, and so one that prints "File sent successfully"
\* (sender.cpp:821), has transferred the whole file if the number of its
\* packets fits a uint16_t (sender.cpp:294), and only then: of a longer file
\* the same is said, and it is never true.
SuccessMeansDelivered ==
  SenderClosing => (WholeFile <=> ChunksInFile < U16)

\* The receiver answers a FIN with a FINACK only when the file is complete,
\* and a sender that has seen the FINACK closes together with it: the FIN's
\* number, computed differently in the two modes (sender.cpp:418, 688), is
\* the one the receiver expects next (receiver.cpp:308) only then.
CloseAgreement ==
  /\ rPhase = "finack" /\ ChunksInFile < U16 => WholeFile /\ SenderClosing
  /\ sPhase = "finwait" => rPhase \in {"finack", "done"}

\* All numbers of the run, up to that of the FIN, lie before the wrap.
EndsBeforeWrap == First + NumPackets < MaxSeqNum

\* Once there is something to close, every FIN in flight, first or repeated,
\* carries the number the receiver waits for (receiver.cpp:308), and every
\* FINACK the one the sender waits for (sender.cpp:500, 781).  The one case in
\* which a sender refuses the FINACK, so that only its retry limit ends it,
\* is that of SR at the wrap, whose number is not reduced (sender.cpp:689).
CloseNumbersAgree ==
  NumPackets > 0 =>
    /\ \A p \in toReceiver : p.flags = "FIN" => p.seq % MaxSeqNum = rBase
    /\ sPhase = "fin" /\ (mode = "SR" => EndsBeforeWrap) =>
         \A i \in DOMAIN toSender :
           toSender[i].flags = "FINACK" => FinAcked(toSender[i])

\* The receiver leaks one descriptor for every packet it stores
\* (receiver.cpp:364) and none for a packet that arrives again, from the
\* window or from before it.  So the file is what decides: a process that may
\* open more files than the file has packets does not die of the leak, however
\* often packets are repeated, and no other ever receives the file, even from
\* a network without faults.
DescriptorsSuffice ==
  /\ rOpen = Cardinality({n \in 0 .. NumPackets - 1 : Stored(n)})
  /\ NumPackets < FdLimit => rPhase # "crashed"
  /\ WholeFile => NumPackets < FdLimit

\* Every packet read from the file and not yet counted off is either in the
\* next burst of the data loop or already held by the receiver, and the
\* window is kept full.  The exception is the empty last packet of a file
\* whose size is a multiple of PAYLOAD_MAX (sender.cpp:334, 578).
NothingForgotten ==
  sPhase = "data" =>
    /\ sNext = Lesser(NumPackets, Confirmed + SenderWindow)
    /\ \A n \in Confirmed .. sNext - 1 :
         \/ PacketSeq(n) \in ToResend /\ sData[PacketSeq(n)] = Chunk(n)
         \/ Chunk(n) = NoData
         \/ mode = "SR" /\ Stored(n)

\* A sender in the data phase never ends in LOG_FATAL (sender.cpp:402): with a
\* FIFO network the cumulative acknowledgements never fall behind base.
NoAbort == [][sPhase = "data" => sPhase' # "failed"]_vars

\* The file arrives whole and both processes leave through the close.
TransferCompletes ==
  <>(sPhase = "done" /\ rPhase = "done" /\ WholeFile)

\* Neither process outlives the other for ever when there is nothing to
\* transfer: the resend loops of the two handshakes, which do not count every
\* repetition (sender.cpp:175-267, 718-814, receiver.cpp:148-215, 308-341),
\* all end, whatever is lost, corrupted or reordered.
BothEnd == <>(SenderExited /\ ReceiverExited)

\* "File received successfully" (receiver.cpp:451) is said of a whole file.
ReceivedMeansWhole == rPhase = "done" => WholeFile

\* The run implements the abstract transfer: packets are delivered by the
\* receiver's writes, confirmed by the sender's count, reported at its exit.
FT == INSTANCE FileTransfer WITH
        Total <- NumPackets,
        delivered <- Delivered,
        confirmed <- Confirmed,
        reported <- sPhase = "done"

ImplementsFileTransfer == FT!FTSpec
==============================================================================
