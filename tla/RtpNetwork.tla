----------------------------- MODULE RtpNetwork ------------------------------
(***************************************************************************)
(* The world the two RTP processes run in (not code under src/): a pair of *)
(* UDP sockets joined by a network that may lose, corrupt, duplicate and   *)
(* reorder, and the passing of time that select() timeouts observe.        *)
(*                                                                         *)
(* toReceiver is a set: datagrams to the receiver arrive in any order, and *)
(* equal datagrams in flight count once.  toSender is the queue of         *)
(* datagrams to the sender; it is FIFO unless Faults has "reorder".  With  *)
(* "duplicate" in Faults a datagram that is taken stays in flight, so it   *)
(* may arrive again at any later time, any number of times.                *)
(*                                                                         *)
(* Prompt says how timeouts fire.  When FALSE a select() may time out at   *)
(* any moment.  When TRUE the round trip is short against the timers, and  *)
(* the timers relate as in the code: 100 ms < 2 s < 5 s.                   *)
(***************************************************************************)
EXTENDS RtpPacket, SequencesExt

CONSTANTS
  Faults,     \* what the environment may do to the run
  MaxFaults,  \* bound: losses and corruptions in one run
  SocketBuf,  \* bound: datagrams queued for the sender; further ones are lost
  Prompt      \* do timers outlast the network?

\* "nofile": the sender's fopen of the input file may fail.
FaultKinds == {"loss", "corrupt", "ackloss", "ackcorrupt", "duplicate",
               "reorder", "nofile"}

ASSUME NetworkAssumption ==
  /\ Faults \subseteq FaultKinds
  /\ MaxFaults \in Nat /\ SocketBuf \in Nat
  /\ Prompt \in BOOLEAN
  /\ "duplicate" \in Faults => "reorder" \in Faults /\ ~Prompt

VARIABLES
  mode,        \* argv: "RBN" (0) or "SR" (1), the same for both processes
  initSeq,     \* the sender's init_seq_num
  toReceiver,  \* the set of datagrams in flight to the receiver
  toSender,    \* the queue of datagrams in flight to the sender
  faults,      \* losses and corruptions so far
  sPhase,      \* where the sender's main is (RtpSender)
  rPhase       \* where the receiver's main is (RtpReceiver)

runVars == <<mode, initSeq>>
netVars == <<toReceiver, toSender, faults>>

NetworkInit ==
  /\ mode \in Modes
  /\ initSeq \in InitSeqNums
  /\ toReceiver = {}
  /\ toSender = <<>>
  /\ faults = 0

SenderExited   == sPhase \in {"done", "failed"}
ReceiverExited == rPhase \in {"done", "refused", "crashed"}

------------------------------------------------------------------------------
(* Sockets. *)

\* sendto() by the sender, of every packet in ps.
Send(ps) == toReceiver' = toReceiver \cup ps

\* recvfrom() by the receiver.
Receive(p) ==
  /\ p \in toReceiver
  /\ toReceiver' = IF "duplicate" \in Faults THEN toReceiver ELSE toReceiver \ {p}

\* sendto() by the receiver.
Reply(p) ==
  toSender' =
    IF "duplicate" \in Faults /\ p \in ToSet(toSender) THEN toSender
    ELSE IF Len(toSender) < SocketBuf THEN Append(toSender, p)
    ELSE toSender

\* The queue positions the next recvfrom() of the sender may return.
Deliverable ==
  {i \in DOMAIN toSender : i = 1 \/ "reorder" \in Faults}

\* recvfrom() by the sender, of the reply at position i.
TakeReply(i) ==
  toSender' = IF "duplicate" \in Faults THEN toSender ELSE RemoveAt(toSender, i)

------------------------------------------------------------------------------
(* Faults. *)

Fault(kind) ==
  /\ kind \in Faults
  /\ faults < MaxFaults
  /\ faults' = faults + 1
  /\ UNCHANGED <<runVars, sPhase, rPhase>>

LoseDatagram ==
  /\ Fault("loss")
  /\ \E p \in toReceiver : toReceiver' = toReceiver \ {p}
  /\ UNCHANGED toSender

CorruptDatagram ==
  /\ Fault("corrupt")
  /\ \E p \in toReceiver \ {Junk} : toReceiver' = (toReceiver \ {p}) \cup {Junk}
  /\ UNCHANGED toSender

LoseReply ==
  /\ Fault("ackloss")
  /\ \E i \in DOMAIN toSender : toSender' = RemoveAt(toSender, i)
  /\ UNCHANGED toReceiver

CorruptReply ==
  /\ Fault("ackcorrupt")
  /\ \E i \in DOMAIN toSender :
       toSender[i] # Junk /\ toSender' = [toSender EXCEPT ![i] = Junk]
  /\ UNCHANGED toReceiver

NetworkFault == LoseDatagram \/ CorruptDatagram \/ LoseReply \/ CorruptReply

------------------------------------------------------------------------------
(* Time. *)

\* Nothing is on its way to a process that still runs.
Quiet ==
  /\ toReceiver = {} \/ ReceiverExited
  /\ toSender = <<>> \/ SenderExited

\* select() with the 100 ms timer returns 0.
ShortTimeout == Prompt => Quiet

\* select() with a 2 s or 5 s timer returns 0: under Prompt only when no
\* shorter timer of the peer (peerWaits) would have fired before.
LongTimeout(peerWaits) == Prompt => Quiet /\ ~peerWaits
==============================================================================
