------------------------------- MODULE SafeRecv -------------------------------
(***************************************************************************)
(* safe_send and safe_recv (ftp_head.h), byte by byte: one end sends a     *)
(* message and what follows it, the other asks for as many bytes as the    *)
(* message has.  TCP delivers the bytes in order and in any pieces, and    *)
(* loses those it had not delivered when the connection is reset.          *)
(*                                                                         *)
(* The modules of the FTP sessions take a safe_recv for one step that      *)
(* yields one message.  What is shown here says for which messages it is.  *)
(***************************************************************************)
EXTENDS Integers, Sequences

CONSTANT Streams   \* the messages sent, and the bytes sent after each

\* Of a byte only matters whether it is the terminator '\0'.
Bytes == {"zero", "other"}

ASSUME StreamsAssumption == Streams \subseteq Seq(Bytes) \X Seq(Bytes)

VARIABLES
  message, following,  \* what the peer sends
  sent,                \* how many bytes of it send() has accepted
  arrived,             \* how many of these have come to this end
  peer,                \* the peer's end: "open", "closed", or "reset"
  received,            \* how many bytes recv() has handed out
  result               \* what safe_recv returned, or Running

vars == <<message, following, sent, arrived, peer, received, result>>

Running == -2

stream == message \o following
len    == Len(message)

Init ==
  /\ \E s \in Streams : message = s[1] /\ following = s[2]
  /\ sent = 0 /\ arrived = 0 /\ received = 0
  /\ peer = "open"
  /\ result = IF len = 0 THEN 0 ELSE Running

\* One send() of the peer's safe_send loops takes any part of the rest.
Send ==
  /\ peer = "open"
  /\ sent' \in sent + 1 .. Len(stream)
  /\ UNCHANGED <<message, following, arrived, peer, received, result>>

Close ==
  /\ peer = "open"
  /\ peer' = "closed"
  /\ UNCHANGED <<message, following, sent, arrived, received, result>>

\* TCP brings more of what was sent, also after the peer's close().
Arrive ==
  /\ peer # "reset"
  /\ arrived' \in arrived + 1 .. sent
  /\ UNCHANGED <<message, following, sent, peer, received, result>>

\* The connection breaks: what is under way is lost, though send() accepted
\* it, and a system may drop what came and was not read as well.
Reset ==
  /\ peer # "reset"
  /\ peer' = "reset"
  /\ arrived' \in received .. arrived
  /\ UNCHANGED <<message, following, sent, received, result>>

Zeros(from, to) == {i \in from .. to : stream[i] = "zero"}

\* Mutant of Limit: recv() is asked for len bytes each time.
LimitUnreduced == IF arrived < received + len THEN arrived ELSE received + len

\* recv() is asked for the len - ret bytes that are missing.
Limit == IF arrived < len THEN arrived ELSE len

\* Mutants of Terminators: the scan stops at i < b - 1, or looks at buffer[i].
TerminatorsButLast(from, to)  == Zeros(from, to - 1)
TerminatorsFromStart(from, to) ==
  {i \in from .. to : stream[i - from + 1] = "zero"}

\* The terminators the scan sees in what one recv() brought.
Terminators(from, to) == Zeros(from, to)

Least(places) == {i \in places : \A j \in places : i <= j}

\* One recv() of the loop hands out any part of what has arrived.  A zero
\* byte in it ends the loop, and the bytes behind it are not counted.
Recv ==
  /\ result = Running
  /\ received' \in received + 1 .. Limit
  /\ LET zeros == Terminators(received + 1, received')
     IN  result' \in IF zeros # {} THEN Least(zeros)
                     ELSE {IF received' = len THEN len ELSE Running}
  /\ UNCHANGED <<message, following, sent, arrived, peer>>

\* The peer has closed and all that it sent has been read.
AtEnd == peer = "closed" /\ received = sent

\* Mutant of RecvEnd: b == 0 is not looked at, and the loop goes on.
RecvEndMissed == result = Running /\ AtEnd /\ UNCHANGED vars

\* recv() returns 0.
RecvEnd ==
  /\ result = Running
  /\ AtEnd
  /\ result' = -1
  /\ UNCHANGED <<message, following, sent, arrived, peer, received>>

\* recv() returns a negative number: the connection was reset, and what is
\* left of the bytes that came before has been read.
RecvError ==
  /\ result = Running
  /\ peer = "reset" /\ received = arrived
  /\ result' = -1
  /\ UNCHANGED <<message, following, sent, arrived, peer, received>>

Next == Send \/ Close \/ Arrive \/ Reset \/ Recv \/ RecvEnd \/ RecvError

Spec == Init /\ [][Next]_vars
\* TCP delivers and safe_recv loops; the peer need not do anything, and
\* nothing has to break.
FairSpec ==
  Spec /\ WF_vars(Arrive) /\ WF_vars(Recv \/ RecvEnd \/ RecvError)

------------------------------------------------------------------------------
\* Type invariant.
TypeOK ==
  /\ message \in Seq(Bytes) /\ following \in Seq(Bytes)
  /\ sent \in 0 .. Len(stream)
  /\ arrived \in 0 .. sent
  /\ peer \in {"open", "closed", "reset"}
  /\ received \in 0 .. len /\ received <= arrived
  /\ result \in {Running, -1} \cup 0 .. len

Returned == result >= 0

\* No zero byte, or one at the end: a name, a listing, a text file.
Terminated == \A i \in 1 .. len - 1 : message[i] # "zero"

\* However TCP cuts it, such a message is received whole, and nothing of the
\* next one with it; so a conversation of names stays in step.
TerminatedIsWhole == Returned /\ Terminated => received = len /\ result = len

\* Any other message, and every header, is cut short only when a recv() has
\* ended between its first zero byte and its end; the caller cannot tell,
\* since the value returned is the place of that zero byte in either case.
CutOnlyAfterZero ==
  Returned /\ ~Terminated =>
    /\ result \in Least(Zeros(1, len))
    /\ result <= received

\* -1 means that the message did not come whole, and came without a zero byte
\* so far.  All of it may have been accepted by the peer's send() only if the
\* connection was reset: close() alone loses nothing.
FailureMeansLost ==
  result = -1 =>
    /\ peer # "open"
    /\ arrived < len /\ Zeros(1, arrived) = {}
    /\ peer = "closed" => sent < len

\* safe_recv returns once the message has been sent or the peer is gone.
Returns == sent >= len \/ peer # "open" ~> result # Running
==============================================================================
