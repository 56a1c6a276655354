---------------------------- MODULE RtpArithmetic ----------------------------
(***************************************************************************)
(* Facts about the sequence numbers of RtpPacket: the only place where the *)
(* remainder operator is reasoned about.  The proofs of the protocol cite  *)
(* these lemmas and never expand SeqAdd.                                   *)
(***************************************************************************)
EXTENDS RtpPacket, TLAPS

\* One subtraction reduces what is less than two laps.
LEMMA ReduceOnce ==
  ASSUME NEW x \in Int, MaxSeqNum <= x, x < 2 * MaxSeqNum
  PROVE  x % MaxSeqNum = x - MaxSeqNum
<1>1. MaxSeqNum \in Nat \ {0}
  BY SeqAssumption
<1>2. QED
  BY <1>1

\* Adding at most one lap wraps around at most once.
LEMMA SeqAddCases ==
  ASSUME NEW s \in SeqNums, NEW k \in 0 .. MaxSeqNum
  PROVE  SeqAdd(s, k) = IF s + k < MaxSeqNum THEN s + k ELSE s + k - MaxSeqNum
<1>1. MaxSeqNum \in Nat \ {0}
  BY SeqAssumption
<1>2. CASE s + k < MaxSeqNum
  <2>1. s + k \in 0 .. MaxSeqNum - 1
    BY <1>1, <1>2 DEF SeqNums
  <2>2. QED
    BY <1>1, <1>2, <2>1 DEF SeqAdd
<1>3. CASE s + k >= MaxSeqNum
  <2>1. /\ s \in Int /\ k \in Int /\ s + k \in Int
        /\ MaxSeqNum <= s + k /\ s + k < 2 * MaxSeqNum
    BY <1>1, <1>3 DEF SeqNums
  <2>2. (s + k) % MaxSeqNum = s + k - MaxSeqNum
    BY <1>1, <2>1, ReduceOnce
  <2>3. QED
    BY <1>1, <1>3, <2>1, <2>2 DEF SeqAdd
<1>4. QED
  BY <1>1, <1>2, <1>3 DEF SeqNums

\* Sums of sequence numbers are sequence numbers.
LEMMA SeqAddType ==
  ASSUME NEW s \in Nat, NEW k \in Nat
  PROVE  SeqAdd(s, k) \in SeqNums
BY SeqAssumption DEF SeqAdd, SeqNums

LEMMA SeqAddZero ==
  ASSUME NEW s \in SeqNums
  PROVE  SeqAdd(s, 0) = s
BY SeqAddCases, SeqAssumption DEF SeqNums

\* Two advances of at most a lap in all are one.
LEMMA SeqAddSum ==
  ASSUME NEW s \in SeqNums, NEW a \in Nat, NEW b \in Nat, a + b <= MaxSeqNum
  PROVE  SeqAdd(SeqAdd(s, a), b) = SeqAdd(s, a + b)
<1>1. MaxSeqNum \in Nat \ {0} /\ a \in 0 .. MaxSeqNum /\ b \in 0 .. MaxSeqNum
      /\ a + b \in 0 .. MaxSeqNum
  BY SeqAssumption
<1>2. SeqAdd(s, a) \in SeqNums
  <2>1. s \in Nat
    BY <1>1 DEF SeqNums
  <2>2. QED
    BY <2>1, SeqAddType
<1>3. QED
  BY <1>1, <1>2, SeqAddCases DEF SeqNums

\* Within a lap, equal numbers are equal distances.
LEMMA SeqAddInjective ==
  ASSUME NEW s \in SeqNums, NEW a \in 0 .. MaxSeqNum - 1,
         NEW b \in 0 .. MaxSeqNum - 1, SeqAdd(s, a) = SeqAdd(s, b)
  PROVE  a = b
<1>1. MaxSeqNum \in Nat \ {0} /\ a \in 0 .. MaxSeqNum /\ b \in 0 .. MaxSeqNum
  BY SeqAssumption
<1>2. QED
  BY <1>1, SeqAddCases DEF SeqNums

\* A number that compares greater than s is as far ahead of s as it is greater.
LEMMA GreaterIsAhead ==
  ASSUME NEW s \in SeqNums, NEW k \in 0 .. MaxSeqNum - 1, s < SeqAdd(s, k)
  PROVE  SeqAdd(s, k) - s = k
<1>1. MaxSeqNum \in Nat \ {0} /\ k \in 0 .. MaxSeqNum
  BY SeqAssumption
<1>2. QED
  BY <1>1, SeqAddCases DEF SeqNums

LEMMA SeqNumReduced ==
  ASSUME NEW s \in SeqNums
  PROVE  s % MaxSeqNum = s
<1>1. MaxSeqNum \in Nat \ {0}
  BY SeqAssumption
<1>2. QED
  BY <1>1 DEF SeqNums

\* Offset measures distances from s, and every number is at one.
LEMMA OffsetType ==
  ASSUME NEW s \in SeqNums, NEW q \in SeqNums
  PROVE  Offset(s, q) \in 0 .. MaxSeqNum - 1 /\ SeqAdd(s, Offset(s, q)) = q
<1>1. MaxSeqNum \in Nat \ {0}
  BY SeqAssumption
<1>2. Offset(s, q) \in 0 .. MaxSeqNum - 1
  BY <1>1 DEF Offset, SeqNums
<1>3. Offset(s, q) \in 0 .. MaxSeqNum
  BY <1>1, <1>2
<1>4. QED
  BY <1>1, <1>2, <1>3, SeqAddCases DEF Offset, SeqNums

LEMMA SurjectiveSeqAdd ==
  ASSUME NEW s \in SeqNums, NEW q \in SeqNums
  PROVE  \E n \in 0 .. MaxSeqNum - 1 : q = SeqAdd(s, n)
BY OffsetType

\* The distance between two packets of the same run.
LEMMA OffsetBetween ==
  ASSUME NEW s \in SeqNums, NEW e \in 0 .. MaxSeqNum - 1, NEW n \in 0 .. MaxSeqNum - 1
  PROVE  Offset(SeqAdd(s, e), SeqAdd(s, n)) = IF n >= e THEN n - e ELSE n + MaxSeqNum - e
<1>1. MaxSeqNum \in Nat \ {0} /\ e \in 0 .. MaxSeqNum /\ n \in 0 .. MaxSeqNum
  BY SeqAssumption
<1>2. QED
  BY <1>1, SeqAddCases DEF Offset, SeqNums

\* In a block of m packets from the e-th on lie exactly those packets.
LEMMA OffsetInBlock ==
  ASSUME NEW s \in SeqNums, NEW e \in 0 .. MaxSeqNum - 1, NEW m \in Nat,
         e + m <= MaxSeqNum, NEW n \in 0 .. MaxSeqNum - 1
  PROVE  /\ Offset(SeqAdd(s, e), SeqAdd(s, n)) < m <=> e <= n /\ n < e + m
         /\ e <= n => Offset(SeqAdd(s, e), SeqAdd(s, n)) = n - e
BY OffsetBetween, SeqAssumption

\* A window that starts at the e-th packet, seen from the start of the run.
LEMMA WindowMember ==
  ASSUME NEW s \in SeqNums, NEW e \in Nat, NEW w \in Nat,
         e + w <= MaxSeqNum, NEW n \in 0 .. MaxSeqNum - 1
  PROVE  SeqAdd(s, n) \in Window(SeqAdd(s, e), w) <=> e <= n /\ n < e + w
<1>1. MaxSeqNum \in Nat \ {0}
  BY SeqAssumption
<1>2. ASSUME NEW i \in 0 .. w - 1
      PROVE  SeqAdd(SeqAdd(s, e), i) = SeqAdd(s, e + i) /\ e + i \in 0 .. MaxSeqNum - 1
  BY <1>1, SeqAddSum
<1>3. ASSUME SeqAdd(s, n) \in Window(SeqAdd(s, e), w)
      PROVE  e <= n /\ n < e + w
  <2>1. PICK i \in 0 .. w - 1 : SeqAdd(s, n) = SeqAdd(SeqAdd(s, e), i)
    BY <1>3 DEF Window
  <2>2. SeqAdd(s, n) = SeqAdd(s, e + i) /\ e + i \in 0 .. MaxSeqNum - 1
    BY <1>2, <2>1
  <2>3. n = e + i
    BY <2>2, SeqAddInjective
  <2>4. QED
    BY <2>3
<1>4. ASSUME e <= n, n < e + w
      PROVE  SeqAdd(s, n) \in Window(SeqAdd(s, e), w)
  <2>1. n - e \in 0 .. w - 1 /\ e + (n - e) = n
    BY <1>4
  <2>2. SeqAdd(s, n) = SeqAdd(SeqAdd(s, e), n - e)
    BY <1>2, <2>1
  <2>3. QED
    BY <2>1, <2>2 DEF Window
<1>5. QED
  BY <1>3, <1>4

LEMMA WindowSubset ==
  ASSUME NEW s \in SeqNums, NEW w \in Nat
  PROVE  Window(s, w) \subseteq SeqNums
BY SeqAddType DEF Window, SeqNums

\* The counters that fit a uint16_t, and the bound they give.
LEMMA CountTypes ==
  /\ NumPackets \in 0 .. U16 - 1
  /\ ReceiverWindow \in 0 .. U16 - 1
  /\ U16 <= MaxSeqNum /\ MaxSeqNum \in Nat \ {0} /\ U16 \in Nat \ {0}
<1>1. U16 \in Nat \ {0} /\ MaxSeqNum \in Nat \ {0} /\ U16 <= MaxSeqNum
  BY SeqAssumption
<1>2. ChunksInFile \in Nat
  BY FileAssumption DEF ChunksInFile
<1>3. QED
  BY <1>1, <1>2, WindowAssumption DEF NumPackets, ReceiverWindow

\* A file whose packets fit the counter is counted right.
LEMMA CountFits ==
  ASSUME ChunksInFile < U16
  PROVE  NumPackets = ChunksInFile
<1>1. ChunksInFile \in Nat /\ U16 \in Nat \ {0}
  BY FileAssumption, SeqAssumption DEF ChunksInFile
<1>2. QED
  BY <1>1 DEF NumPackets

LEMMA ChunkType ==
  ASSUME NEW i \in Nat
  PROVE  Chunk(i) \in Payloads
BY DEF Chunk, Payloads, NoData
==============================================================================
