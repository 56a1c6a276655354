---------------------------- MODULE SafeRecvProofs ----------------------------
(***************************************************************************)
(* The safety theorems of safe_recv, for messages of every length.         *)
(***************************************************************************)
EXTENDS SafeRecv, TLAPS

\* While the loop runs it has seen no zero byte and has bytes to ask for;
\* afterwards the result says where the first one is, or that there is none.
\* When it has failed, all that came has been read, and nothing more will come.
RecvInv ==
  /\ TypeOK
  /\ result = Running => received < len /\ Zeros(1, received) = {}
  /\ Returned =>
       \/ Zeros(1, len) = {} /\ result = len /\ received = len
       \/ result \in Least(Zeros(1, len)) /\ result <= received
  /\ result = -1 =>
       /\ peer # "open" /\ received = arrived
       /\ arrived < len /\ Zeros(1, arrived) = {}
       /\ peer = "closed" => arrived = sent

LEMMA StreamType ==
  ASSUME message \in Seq(Bytes), following \in Seq(Bytes)
  PROVE  /\ stream \in Seq(Bytes)
         /\ len \in Nat
         /\ Len(stream) = len + Len(following) /\ Len(following) \in Nat
         /\ \A i \in 1 .. len : stream[i] = message[i]
BY DEF stream, len

LEMMA InitInv == Init => RecvInv
<1> SUFFICES ASSUME Init PROVE RecvInv
  OBVIOUS
<1>1. message \in Seq(Bytes) /\ following \in Seq(Bytes)
  BY StreamsAssumption DEF Init
<1>2. TypeOK
  BY <1>1, StreamType DEF Init, TypeOK
<1>3. Zeros(1, 0) = {}
  BY DEF Zeros
<1>4. QED
  BY <1>1, <1>2, <1>3, StreamType DEF Init, RecvInv, Returned, Running

LEMMA SendInv == RecvInv /\ Send => RecvInv'
<1> SUFFICES ASSUME RecvInv, Send PROVE RecvInv'
  OBVIOUS
<1>1. TypeOK'
  BY StreamType DEF RecvInv, TypeOK, Send, stream, len
<1>2. QED
  BY <1>1 DEF RecvInv, Send, Returned, Zeros, Least, stream, len, Running

LEMMA CloseInv == RecvInv /\ Close => RecvInv'
BY DEF RecvInv, TypeOK, Close, Returned, Zeros, Least, stream, len, Running

LEMMA ArriveInv == RecvInv /\ Arrive => RecvInv'
<1> SUFFICES ASSUME RecvInv, Arrive PROVE RecvInv'
  OBVIOUS
<1>1. /\ message \in Seq(Bytes) /\ following \in Seq(Bytes)
      /\ len \in Nat /\ sent \in Nat /\ arrived \in Nat /\ received \in Nat
  BY StreamType DEF RecvInv, TypeOK
<1>2. /\ message' = message /\ following' = following /\ sent' = sent
      /\ peer' = peer /\ received' = received /\ result' = result
      /\ len' = len /\ stream' = stream /\ arrived' \in arrived + 1 .. sent
  BY DEF Arrive, stream, len
<1>3. TypeOK'
  BY <1>1, <1>2 DEF RecvInv, TypeOK
<1>4. result # -1
  BY <1>1, <1>2 DEF RecvInv, TypeOK, Arrive
<1>5. QED
  BY <1>2, <1>3, <1>4 DEF RecvInv, Returned, Zeros, Least

LEMMA ResetInv == RecvInv /\ Reset => RecvInv'
<1> SUFFICES ASSUME RecvInv, Reset PROVE RecvInv'
  OBVIOUS
<1>1. /\ message \in Seq(Bytes) /\ following \in Seq(Bytes)
      /\ len \in Nat /\ sent \in Nat /\ arrived \in Nat /\ received \in Nat
  BY StreamType DEF RecvInv, TypeOK
<1>2. /\ message' = message /\ following' = following /\ sent' = sent
      /\ peer' = "reset" /\ received' = received /\ result' = result
      /\ len' = len /\ stream' = stream /\ arrived' \in received .. arrived
  BY DEF Reset, stream, len
<1>3. TypeOK'
  BY <1>1, <1>2 DEF RecvInv, TypeOK
<1>4. result = -1 => arrived' = arrived
  BY <1>1, <1>2 DEF RecvInv
<1>5. QED
  BY <1>2, <1>3, <1>4 DEF RecvInv, Returned, Zeros, Least

LEMMA RecvStepInv == RecvInv /\ Recv => RecvInv'
<1> SUFFICES ASSUME RecvInv, Recv PROVE RecvInv'
  OBVIOUS
<1> USE DEF Running
<1>1. /\ message \in Seq(Bytes) /\ following \in Seq(Bytes)
      /\ len \in Nat /\ sent \in Nat /\ arrived \in Nat
      /\ received \in Nat /\ received < len
      /\ Zeros(1, received) = {}
  BY StreamType DEF RecvInv, TypeOK, Recv
<1>2. /\ message' = message /\ following' = following /\ sent' = sent
      /\ arrived' = arrived /\ peer' = peer /\ len' = len /\ stream' = stream
  BY DEF Recv, stream, len
<1>3. received' \in received + 1 .. len /\ received' <= arrived
  BY <1>1 DEF Recv, Limit
<1>4. CASE Zeros(received + 1, received') # {}
  <2>1. result' \in Least(Zeros(received + 1, received'))
    BY <1>4 DEF Recv, Terminators
  <2>2. result' \in received + 1 .. received' /\ stream[result'] = "zero"
    BY <2>1 DEF Least, Zeros
  <2>3. result' \in Least(Zeros(1, len))
    <3>1. result' \in Zeros(1, len)
      BY <1>1, <1>3, <2>2 DEF Zeros
    <3>2. ASSUME NEW j \in Zeros(1, len) PROVE result' <= j
      <4>1. CASE j <= received
        BY <4>1, <1>1, <1>3 DEF Zeros
      <4>2. CASE received < j /\ j <= received'
        BY <4>2, <1>1, <1>3, <2>1 DEF Zeros, Least
      <4>3. CASE received' < j
        BY <4>3, <1>1, <1>3, <2>2 DEF Zeros
      <4>4. QED
        BY <4>1, <4>2, <4>3, <1>1, <1>3 DEF Zeros
    <3>3. QED
      BY <3>1, <3>2 DEF Least
  <2>4. QED
    BY <1>1, <1>2, <1>3, <2>2, <2>3 DEF RecvInv, TypeOK, Returned, Zeros, Least
<1>5. CASE Zeros(received + 1, received') = {}
  <2>1. result' = IF received' = len THEN len ELSE Running
    BY <1>5 DEF Recv, Terminators
  <2>2. Zeros(1, received') = {}
    BY <1>1, <1>3, <1>5 DEF Zeros
  <2>3. QED
    BY <1>1, <1>2, <1>3, <2>1, <2>2 DEF RecvInv, TypeOK, Returned, Zeros, Least
<1>6. QED
  BY <1>4, <1>5

LEMMA RecvEndInv == RecvInv /\ (RecvEnd \/ RecvError) => RecvInv'
<1> SUFFICES ASSUME RecvInv, RecvEnd \/ RecvError PROVE RecvInv'
  OBVIOUS
<1>1. /\ message \in Seq(Bytes) /\ following \in Seq(Bytes)
      /\ len \in Nat /\ sent \in Nat /\ arrived \in Nat /\ received \in Nat
  BY StreamType DEF RecvInv, TypeOK
<1>2. /\ result = Running /\ result' = -1
      /\ message' = message /\ following' = following /\ sent' = sent
      /\ arrived' = arrived /\ peer' = peer /\ received' = received
      /\ len' = len /\ stream' = stream
  BY DEF RecvEnd, RecvError, stream, len
<1>3. /\ peer # "open" /\ received = arrived
      /\ peer = "closed" => arrived = sent
  BY <1>1 DEF RecvInv, TypeOK, RecvEnd, RecvError, AtEnd
<1>4. received < len /\ Zeros(1, received) = {}
  BY <1>2 DEF RecvInv
<1>5. QED
  BY <1>1, <1>2, <1>3, <1>4 DEF RecvInv, TypeOK, Returned, Zeros, Least

\* The invariant of every run.
THEOREM RecvInvariance == Spec => []RecvInv
<1>1. RecvInv /\ [Next]_vars => RecvInv'
  <2>1. RecvInv /\ UNCHANGED vars => RecvInv'
    BY DEF vars, RecvInv, TypeOK, Returned, Zeros, Least, stream, len, Running
  <2>2. QED
    BY <2>1, SendInv, CloseInv, ArriveInv, ResetInv, RecvStepInv, RecvEndInv
    DEF Next
<1>2. QED
  BY <1>1, InitInv, PTL DEF Spec

\* Every variable of safe_recv keeps its type: among others, no byte behind
\* the message is ever taken into the buffer.
THEOREM RecvTypeCorrect == Spec => []TypeOK
<1>1. RecvInv => TypeOK
  BY DEF RecvInv
<1>2. QED
  BY <1>1, RecvInvariance, PTL

\* A message without a zero byte before its end is received whole.
THEOREM WholeTheorem == Spec => []TerminatedIsWhole
<1>1. RecvInv => TerminatedIsWhole
  <2> SUFFICES ASSUME RecvInv, Returned, Terminated
               PROVE  received = len /\ result = len
    BY DEF TerminatedIsWhole
  <2>1. /\ message \in Seq(Bytes) /\ following \in Seq(Bytes) /\ len \in Nat
        /\ received \in 0 .. len
    BY StreamType DEF RecvInv, TypeOK
  <2>2. CASE result \in Least(Zeros(1, len)) /\ result <= received
    <3>1. result \in 1 .. len /\ message[result] = "zero"
      BY <2>1, <2>2, StreamType DEF Least, Zeros
    <3>2. result = len
      BY <2>1, <3>1 DEF Terminated
    <3>3. QED
      BY <2>1, <2>2, <3>2
  <2>3. QED
    BY <2>2 DEF RecvInv
<1>2. QED
  BY <1>1, RecvInvariance, PTL

\* Any other is cut, if at all, behind its first zero byte.
THEOREM CutTheorem == Spec => []CutOnlyAfterZero
<1>1. RecvInv => CutOnlyAfterZero
  <2> SUFFICES ASSUME RecvInv, Returned, ~Terminated
               PROVE  result \in Least(Zeros(1, len)) /\ result <= received
    BY DEF CutOnlyAfterZero
  <2>1. message \in Seq(Bytes) /\ following \in Seq(Bytes) /\ len \in Nat
    BY StreamType DEF RecvInv, TypeOK
  <2>2. Zeros(1, len) # {}
    BY <2>1, StreamType DEF Terminated, Zeros
  <2>3. QED
    BY <2>2 DEF RecvInv
<1>2. QED
  BY <1>1, RecvInvariance, PTL

\* A failure is reported only of a message that did not come whole, which,
\* unless the connection was reset, the peer never sent whole.
THEOREM FailureTheorem == Spec => []FailureMeansLost
<1>1. RecvInv => FailureMeansLost
  BY DEF RecvInv, FailureMeansLost
<1>2. QED
  BY <1>1, RecvInvariance, PTL
==============================================================================
