----------------------------- MODULE Crc32Proofs -----------------------------
(***************************************************************************)
(* The checksum tells a packet from itself with one byte changed, or a     *)
(* burst of as many as a word has.  That rests on the highest bit of the   *)
(* polynomial being 1: a round can then be undone, bit by bit, from the    *)
(* highest bits of its result.                                             *)
(***************************************************************************)
EXTENDS Crc32, WellFoundedInduction, TLAPS

\* Words a and b agree in their highest, or lowest, n bits.
AgreeHigh(a, b, n) == \A i \in WordSize - n .. WordSize - 1 : a[i] = b[i]
AgreeLow(a, b, n)  == \A i \in 0 .. n - 1 : a[i] = b[i]

LEMMA FlipBit ==
  /\ \A a, b \in Bits : Flip(a, b) \in Bits
  /\ \A a, b, c \in Bits : Flip(a, b) = Flip(a, c) => b = c
  /\ \A a, b, c \in Bits : Flip(b, a) = Flip(c, a) => b = c
BY DEF Flip, Bits

LEMMA ShiftType ==
  ASSUME CrcAssumption, NEW w \in Words, NEW n \in Nat
  PROVE  Shift(w, n) \in Words
BY DEF CrcAssumption, Words, Shift, Bits

LEMMA RoundType ==
  ASSUME CrcAssumption, NEW r \in Words
  PROVE  Round(r) \in Words
<1>1. Shift(r, 1) \in Words /\ Poly \in Words
  BY ShiftType DEF CrcAssumption
<1>2. QED
  BY <1>1, FlipBit DEF Round, Words

\* A round undone: the lowest bit is found from the highest, the others from
\* their neighbours.
LEMMA RoundUndone ==
  ASSUME CrcAssumption, NEW a \in Words, NEW b \in Words,
         NEW h \in 1 .. WordSize, NEW l \in 0 .. WordSize - 1,
         AgreeHigh(Round(a), Round(b), h), AgreeLow(Round(a), Round(b), l)
  PROVE  AgreeHigh(a, b, h - 1) /\ AgreeLow(a, b, l + 1)
<1>1. /\ WordSize \in Nat /\ WordSize >= 8 /\ Poly \in Words
      /\ Poly[WordSize - 1] = 1
  BY DEF CrcAssumption
<1>2. ASSUME NEW w \in Words
      PROVE  /\ Round(w)[WordSize - 1] = IF w[0] = 1 THEN 0 ELSE 1
             /\ \A i \in 0 .. WordSize - 2 :
                  Round(w)[i] = IF w[0] = 1 THEN w[i + 1] ELSE Flip(Poly[i], w[i + 1])
             /\ \A i \in 0 .. WordSize - 1 : w[i] \in Bits /\ Poly[i] \in Bits
  <2>1. /\ Shift(w, 1)[WordSize - 1] = 0 /\ WordSize - 1 \in 0 .. WordSize - 1
        /\ \A i \in 0 .. WordSize - 2 : Shift(w, 1)[i] = w[i + 1]
    <3>1. \A i \in 0 .. WordSize - 1 :
            Shift(w, 1)[i] = IF i + 1 < WordSize THEN w[i + 1] ELSE 0
      BY DEF Shift
    <3>2. /\ WordSize - 1 \in 0 .. WordSize - 1 /\ ~((WordSize - 1) + 1 < WordSize)
          /\ \A i \in 0 .. WordSize - 2 : i \in 0 .. WordSize - 1 /\ i + 1 < WordSize
      BY <1>1
    <3>3. QED
      BY <3>1, <3>2
  <2>2. \A i \in 0 .. WordSize - 1 :
          Round(w)[i] = IF w[0] = 1 THEN Shift(w, 1)[i] ELSE Flip(Poly[i], Shift(w, 1)[i])
    BY DEF Round
  <2>3. Round(w)[WordSize - 1] = IF w[0] = 1 THEN 0 ELSE 1
    <3>1. \A i \in 0 .. WordSize - 1 : i = WordSize - 1 =>
            Round(w)[i] = IF w[0] = 1 THEN 0 ELSE Flip(1, 0)
      BY <1>1, <2>1, <2>2
    <3>2. QED
      BY <2>1, <3>1 DEF Flip
  <2>4. \A i \in 0 .. WordSize - 2 :
          Round(w)[i] = IF w[0] = 1 THEN w[i + 1] ELSE Flip(Poly[i], w[i + 1])
    BY <1>1, <2>1, <2>2
  <2>5. \A i \in 0 .. WordSize - 1 : w[i] \in Bits /\ Poly[i] \in Bits
    BY <1>1 DEF Words
  <2>6. QED
    BY <2>3, <2>4, <2>5
<1>3. a[0] = b[0]
  BY <1>1, <1>2 DEF AgreeHigh, Bits
<1>4. ASSUME NEW i \in 0 .. WordSize - 2, Round(a)[i] = Round(b)[i]
      PROVE  a[i + 1] = b[i + 1]
  <2>1. a[i + 1] \in Bits /\ b[i + 1] \in Bits /\ Poly[i] \in Bits
    BY <1>1, <1>2
  <2>2. /\ Round(a)[i] = IF a[0] = 1 THEN a[i + 1] ELSE Flip(Poly[i], a[i + 1])
        /\ Round(b)[i] = IF b[0] = 1 THEN b[i + 1] ELSE Flip(Poly[i], b[i + 1])
    BY <1>2
  <2>3. CASE a[0] = 1
    BY <1>3, <1>4, <2>2, <2>3
  <2>4. CASE a[0] # 1
    BY <1>3, <1>4, <2>1, <2>2, <2>4, FlipBit
  <2>5. QED
    BY <2>3, <2>4
<1>5. ASSUME NEW j \in WordSize - (h - 1) .. WordSize - 1
      PROVE  a[j] = b[j]
  <2>1. /\ j - 1 \in 0 .. WordSize - 2 /\ j - 1 \in WordSize - h .. WordSize - 1
        /\ (j - 1) + 1 = j
    BY <1>1
  <2>2. QED
    BY <1>4, <2>1 DEF AgreeHigh
<1>6. ASSUME NEW j \in 0 .. l
      PROVE  a[j] = b[j]
  <2>1. CASE j = 0
    BY <1>3, <2>1
  <2>2. CASE j # 0
    <3>1. /\ j - 1 \in 0 .. WordSize - 2 /\ j - 1 \in 0 .. l - 1
          /\ (j - 1) + 1 = j
      BY <1>1, <2>2
    <3>2. QED
      BY <1>4, <3>1 DEF AgreeLow
  <2>3. QED
    BY <2>1, <2>2
<1>7. (l + 1) - 1 = l
  OBVIOUS
<1>8. QED
  BY <1>5, <1>6, <1>7 DEF AgreeHigh, AgreeLow

\* Two rounds, four and eight.
LEMMA Round2Undone ==
  ASSUME CrcAssumption, NEW a \in Words, NEW b \in Words,
         NEW h \in 2 .. WordSize, NEW l \in 0 .. WordSize - 2,
         AgreeHigh(Round2(a), Round2(b), h), AgreeLow(Round2(a), Round2(b), l)
  PROVE  AgreeHigh(a, b, h - 2) /\ AgreeLow(a, b, l + 2)
<1>1. Round(a) \in Words /\ Round(b) \in Words /\ WordSize \in Nat /\ WordSize >= 8
  BY RoundType DEF CrcAssumption
<1>2. AgreeHigh(Round(a), Round(b), h - 1) /\ AgreeLow(Round(a), Round(b), l + 1)
  BY <1>1, RoundUndone DEF Round2
<1>3. /\ h - 1 \in 1 .. WordSize /\ l + 1 \in 0 .. WordSize - 1
      /\ (h - 1) - 1 = h - 2 /\ (l + 1) + 1 = l + 2
  BY <1>1
<1>4. QED
  BY <1>2, <1>3, RoundUndone

LEMMA Round4Undone ==
  ASSUME CrcAssumption, NEW a \in Words, NEW b \in Words,
         NEW h \in 4 .. WordSize, NEW l \in 0 .. WordSize - 4,
         AgreeHigh(Round4(a), Round4(b), h), AgreeLow(Round4(a), Round4(b), l)
  PROVE  AgreeHigh(a, b, h - 4) /\ AgreeLow(a, b, l + 4)
<1>1. Round2(a) \in Words /\ Round2(b) \in Words /\ WordSize \in Nat /\ WordSize >= 8
  BY RoundType DEF CrcAssumption, Round2
<1>2. AgreeHigh(Round2(a), Round2(b), h - 2) /\ AgreeLow(Round2(a), Round2(b), l + 2)
  BY <1>1, Round2Undone DEF Round4
<1>3. /\ h - 2 \in 2 .. WordSize /\ l + 2 \in 0 .. WordSize - 2
      /\ (h - 2) - 2 = h - 4 /\ (l + 2) + 2 = l + 4
  BY <1>1
<1>4. QED
  BY <1>2, <1>3, Round2Undone

\* After eight rounds the highest byte still tells the lowest byte before.
LEMMA Round8Undone ==
  ASSUME CrcAssumption, NEW a \in Words, NEW b \in Words,
         AgreeHigh(Round8(a), Round8(b), 8)
  PROVE  AgreeLow(a, b, 8)
<1>1. Round4(a) \in Words /\ Round4(b) \in Words /\ WordSize \in Nat /\ WordSize >= 8
  BY RoundType DEF CrcAssumption, Round2, Round4
<1>2. AgreeLow(Round8(a), Round8(b), 0)
  BY DEF AgreeLow
<1>3. /\ 8 \in 4 .. WordSize /\ 4 \in 4 .. WordSize
      /\ 0 \in 0 .. WordSize - 4 /\ 4 \in 0 .. WordSize - 4
      /\ 8 - 4 = 4 /\ 0 + 4 = 4 /\ 4 + 4 = 8
  BY <1>1
<1>4. AgreeHigh(Round4(a), Round4(b), 4) /\ AgreeLow(Round4(a), Round4(b), 4)
  BY <1>1, <1>2, <1>3, Round4Undone DEF Round8
<1>5. QED
  BY <1>3, <1>4, Round4Undone

------------------------------------------------------------------------------
LEMMA WidenedType ==
  ASSUME CrcAssumption, NEW b \in Bytes
  PROVE  Widened(b) \in Words
BY DEF CrcAssumption, Widened, Words, Bytes, Bits

LEMMA TableType ==
  ASSUME CrcAssumption, NEW b \in Bytes
  PROVE  /\ Round8(Widened(b)) \in Words
         /\ crc32_for_byte(b) \in Words
<1>1. Round8(Widened(b)) \in Words
  BY WidenedType, RoundType DEF Round2, Round4, Round8
<1>2. QED
  BY <1>1, FlipBit DEF crc32_for_byte, Words, Bits

\* No two entries of the table have the same highest byte.
LEMMA TableInjective ==
  ASSUME CrcAssumption, NEW b \in Bytes, NEW c \in Bytes,
         AgreeHigh(crc32_for_byte(b), crc32_for_byte(c), 8)
  PROVE  b = c
<1>1. WordSize \in Nat /\ WordSize >= 8
  BY DEF CrcAssumption
<1> DEFINE u == Round8(Widened(b))
           v == Round8(Widened(c))
<1>2. u \in Words /\ v \in Words
  BY TableType
<1>3. ASSUME NEW i \in WordSize - 8 .. WordSize - 1
      PROVE  u[i] = v[i]
  <2>1. i \in 0 .. WordSize - 1 /\ u[i] \in Bits /\ v[i] \in Bits
    BY <1>1, <1>2 DEF Words
  <2>2. Flip(u[i], 1) = Flip(v[i], 1)
    <3>1. /\ crc32_for_byte(b)[i] = Flip(u[i], 1)
          /\ crc32_for_byte(c)[i] = Flip(v[i], 1)
      BY <1>1, <2>1 DEF crc32_for_byte
    <3>2. QED
      BY <3>1 DEF AgreeHigh
  <2>3. QED
    BY <2>1, <2>2, FlipBit DEF Bits
<1>4. AgreeLow(Widened(b), Widened(c), 8)
  <2>1. AgreeHigh(Round8(Widened(b)), Round8(Widened(c)), 8)
    BY <1>3 DEF AgreeHigh
  <2>2. QED
    BY <2>1, WidenedType, Round8Undone
<1>5. \A i \in 0 .. 7 : b[i] = c[i]
  BY <1>1, <1>4 DEF AgreeLow, Widened
<1>6. QED
  BY <1>5 DEF Bytes

LEMMA IndexType ==
  ASSUME CrcAssumption, NEW crc \in Words, NEW b \in Bytes
  PROVE  Index(crc, b) \in Bytes
<1>1. \A i \in 0 .. 7 : crc[i] \in Bits /\ b[i] \in Bits
  BY DEF CrcAssumption, Words, Bytes
<1>2. QED
  BY <1>1, FlipBit DEF Index, Bytes

LEMMA StepType ==
  ASSUME CrcAssumption, NEW crc \in Words, NEW b \in Bytes
  PROVE  crc32(crc, b) \in Words
<1>1. crc32_for_byte(Index(crc, b)) \in Words /\ Shift(crc, 8) \in Words
  BY IndexType, TableType, ShiftType
<1>2. QED
  BY <1>1, FlipBit DEF crc32, Words

\* Equal in their highest h bits after a step: the same place of the table,
\* whose highest byte shows it, and h - 8 equal bits before.
LEMMA StepUndone ==
  ASSUME CrcAssumption, NEW c \in Words, NEW d \in Words, NEW b \in Bytes, NEW e \in Bytes,
         NEW h \in 8 .. WordSize, AgreeHigh(crc32(c, b), crc32(d, e), h)
  PROVE  Index(c, b) = Index(d, e) /\ AgreeHigh(c, d, h - 8)
<1>1. WordSize \in Nat /\ WordSize >= 8
  BY DEF CrcAssumption
<1> DEFINE t == crc32_for_byte(Index(c, b))
           u == crc32_for_byte(Index(d, e))
<1>2. /\ Index(c, b) \in Bytes /\ Index(d, e) \in Bytes /\ t \in Words /\ u \in Words
      /\ Shift(c, 8) \in Words /\ Shift(d, 8) \in Words
  BY IndexType, TableType, ShiftType
<1>3. ASSUME NEW i \in WordSize - h .. WordSize - 1
      PROVE  /\ Flip(t[i], Shift(c, 8)[i]) = Flip(u[i], Shift(d, 8)[i])
             /\ t[i] \in Bits /\ u[i] \in Bits
             /\ Shift(c, 8)[i] \in Bits /\ Shift(d, 8)[i] \in Bits
  <2>1. i \in 0 .. WordSize - 1
    BY <1>1
  <2>2. /\ crc32(c, b)[i] = Flip(t[i], Shift(c, 8)[i])
        /\ crc32(d, e)[i] = Flip(u[i], Shift(d, 8)[i])
    BY <2>1 DEF crc32
  <2>3. crc32(c, b)[i] = crc32(d, e)[i]
    BY DEF AgreeHigh
  <2>4. QED
    BY <1>2, <2>1, <2>2, <2>3 DEF Words
<1> HIDE DEF t, u
<1>4. ASSUME NEW i \in WordSize - 8 .. WordSize - 1
      PROVE  t[i] = u[i]
  <2>1. i \in WordSize - h .. WordSize - 1 /\ i \in 0 .. WordSize - 1
    BY <1>1
  <2>2. Shift(c, 8)[i] = 0 /\ Shift(d, 8)[i] = 0
    BY <1>1, <2>1 DEF Shift
  <2>3. QED
    BY <1>3, <2>1, <2>2, FlipBit
<1>5. Index(c, b) = Index(d, e)
  BY <1>2, <1>4, TableInjective DEF AgreeHigh, t, u
<1>6. ASSUME NEW i \in WordSize - (h - 8) .. WordSize - 1
      PROVE  c[i] = d[i]
  <2>1. /\ i - 8 \in WordSize - h .. WordSize - 1 /\ i - 8 \in 0 .. WordSize - 1
        /\ (i - 8) + 8 = i /\ i < WordSize
    BY <1>1
  <2>2. Shift(c, 8)[i - 8] = c[i] /\ Shift(d, 8)[i - 8] = d[i]
    BY <2>1 DEF Shift
  <2>3. t = u
    BY <1>5 DEF t, u
  <2>4. /\ Flip(t[i - 8], c[i]) = Flip(t[i - 8], d[i])
        /\ t[i - 8] \in Bits /\ c[i] \in Bits /\ d[i] \in Bits
    BY <1>3, <2>1, <2>2, <2>3
  <2>5. QED
    BY <2>4, FlipBit
<1>7. QED
  BY <1>5, <1>6 DEF AgreeHigh

\* The step tells two registers apart ...
LEMMA StepKeepsApart ==
  ASSUME CrcAssumption, NEW c \in Words, NEW d \in Words, NEW b \in Bytes, c # d
  PROVE  crc32(c, b) # crc32(d, b)
<1> SUFFICES ASSUME crc32(c, b) = crc32(d, b) PROVE c = d
  OBVIOUS
<1>1. Index(c, b) = Index(d, b) /\ AgreeHigh(c, d, WordSize - 8)
  <2>1. AgreeHigh(crc32(c, b), crc32(d, b), WordSize) /\ WordSize \in 8 .. WordSize
    BY DEF AgreeHigh, CrcAssumption
  <2>2. QED
    BY <2>1, StepUndone
<1>2. ASSUME NEW i \in 0 .. 7
      PROVE  c[i] = d[i]
  <2>1. c[i] \in Bits /\ d[i] \in Bits /\ b[i] \in Bits
    BY DEF CrcAssumption, Words, Bytes
  <2>2. Flip(c[i], b[i]) = Flip(d[i], b[i])
    BY <1>1 DEF Index
  <2>3. QED
    BY <2>1, <2>2, FlipBit
<1>3. \A i \in 0 .. WordSize - 1 : c[i] = d[i]
  BY <1>1, <1>2 DEF CrcAssumption, AgreeHigh
<1>4. c = [i \in 0 .. WordSize - 1 |-> c[i]] /\ d = [i \in 0 .. WordSize - 1 |-> d[i]]
  BY DEF Words
<1>5. QED
  BY <1>3, <1>4

\* ... and the place of the table tells two bytes.
LEMMA IndexSetsApart ==
  ASSUME CrcAssumption, NEW c \in Words, NEW b \in Bytes, NEW e \in Bytes,
         Index(c, b) = Index(c, e)
  PROVE  b = e
<1>1. ASSUME NEW i \in 0 .. 7
      PROVE  b[i] = e[i]
  <2>1. c[i] \in Bits /\ b[i] \in Bits /\ e[i] \in Bits
    BY DEF CrcAssumption, Words, Bytes
  <2>2. Flip(c[i], b[i]) = Flip(c[i], e[i])
    BY DEF Index
  <2>3. QED
    BY <2>1, <2>2, FlipBit
<1>2. QED
  BY <1>1 DEF Bytes

------------------------------------------------------------------------------
\* A set of numbers that is not empty has a least one.
LEMMA LeastNat ==
  ASSUME NEW T \in SUBSET Nat, T # {}
  PROVE  \E x \in T : \A y \in T : x <= y
<1> DEFINE R == OpToRel(<, Nat)
<1>1. IsWellFoundedOn(R, Nat)
  BY NatLessThanWellFounded
<1>2. \A x, y \in Nat : <<x, y>> \in R <=> x < y
  BY DEF OpToRel
<1> HIDE DEF R
<1>3. PICK x \in T : \A y \in T : ~ (<<y, x>> \in R)
  BY <1>1, WFMin
<1>4. ASSUME NEW y \in T PROVE x <= y
  <2>1. x \in Nat /\ y \in Nat /\ ~ (<<y, x>> \in R)
    BY <1>3
  <2>2. QED
    BY <1>2, <2>1
<1>5. QED
  BY <1>4

\* Two computations over data that are equal from one place to another: the
\* registers are equal at the second place exactly if they are at the first.
LEMMA EqualStretch ==
  ASSUME CrcAssumption, NEW n \in Nat,
         NEW sent \in [1 .. n -> Bytes], NEW received \in [1 .. n -> Bytes],
         NEW crc, NEW crc2,
         IsComputation(crc, sent, n), IsComputation(crc2, received, n),
         NEW k \in 0 .. n, NEW l \in k .. n,
         \A i \in k + 1 .. l : sent[i] = received[i]
  PROVE  crc[k] = crc2[k] <=> crc[l] = crc2[l]
<1>1. /\ \A i \in 0 .. n : crc[i] \in Words /\ crc2[i] \in Words
      /\ \A i \in 1 .. n : /\ i - 1 \in 0 .. n
                           /\ crc[i] = crc32(crc[i - 1], sent[i])
                           /\ crc2[i] = crc32(crc2[i - 1], received[i])
  BY DEF IsComputation
<1> DEFINE same == crc[k] = crc2[k]
<1> SUFFICES ASSUME (crc[l] = crc2[l]) # same PROVE FALSE
  OBVIOUS
<1> DEFINE T == {i \in k .. l : (crc[i] = crc2[i]) # same}
<1>2. PICK x \in T : \A y \in T : x <= y
  <2>1. T \in SUBSET Nat /\ T # {}
    OBVIOUS
  <2>2. QED
    BY <2>1, LeastNat
<1>3. x \in k + 1 .. l /\ x - 1 \in k .. l /\ x \in 1 .. n
  BY <1>2
<1>4. x - 1 \notin T /\ x \in T
  BY <1>2, <1>3
<1>5. /\ crc[x - 1] \in Words /\ crc2[x - 1] \in Words /\ sent[x] \in Bytes
      /\ crc[x] = crc32(crc[x - 1], sent[x]) /\ crc2[x] = crc32(crc2[x - 1], sent[x])
  BY <1>1, <1>3
<1>6. crc[x - 1] = crc2[x - 1] <=> crc[x] = crc2[x]
  BY <1>5, StepKeepsApart
<1>7. QED
  BY <1>3, <1>4, <1>6

\* The checksum of data of any length changes when a burst of it does, the
\* bytes after the k-th, no longer than a word (util.cpp: four bytes): the
\* register after the burst tells its places in the table, last to first,
\* and those its bytes, first to last.
THEOREM CorruptBurstDetected ==
  ASSUME CrcAssumption, NEW n \in Nat,
         NEW sent \in [1 .. n -> Bytes], NEW received \in [1 .. n -> Bytes],
         sent # received,
         NEW k \in 0 .. n, NEW m \in Nat, 8 * m <= WordSize, k + m <= n,
         \A i \in 1 .. n : i \notin k + 1 .. k + m => sent[i] = received[i],
         NEW crc, NEW crc2,
         IsComputation(crc, sent, n), IsComputation(crc2, received, n)
  PROVE  crc[n] # crc2[n]
<1>1. /\ \A i \in 0 .. n : crc[i] \in Words /\ crc2[i] \in Words
      /\ \A i \in 1 .. n : /\ i - 1 \in 0 .. n
                           /\ crc[i] = crc32(crc[i - 1], sent[i])
                           /\ crc2[i] = crc32(crc2[i - 1], received[i])
      /\ crc[0] = crc2[0]
  BY DEF IsComputation
<1>2. WordSize \in Nat /\ WordSize >= 8
  BY DEF CrcAssumption
<1> SUFFICES ASSUME crc[n] = crc2[n] PROVE FALSE
  OBVIOUS
<1>3. crc[k + m] = crc2[k + m]
  <2>1. PICK e \in 0 .. n : e = k + m
    OBVIOUS
  <2>2. n \in e .. n /\ \A i \in e + 1 .. n : sent[i] = received[i]
    BY <2>1
  <2>3. crc[e] = crc2[e] <=> crc[n] = crc2[n]
    BY <2>2, EqualStretch
  <2>4. QED
    BY <2>1, <2>3
\* j bytes before the end of the burst, all but 8j bits are known.
<1> DEFINE Known(j) == AgreeHigh(crc[k + m - j], crc2[k + m - j], WordSize - 8 * j)
<1>4. ASSUME NEW j \in 0 .. m - 1, Known(j)
      PROVE  /\ Known(j + 1)
             /\ Index(crc[k + m - j - 1], sent[k + m - j])
                  = Index(crc2[k + m - j - 1], received[k + m - j])
  <2>1. /\ k + m - j \in 1 .. n /\ k + m - (j + 1) = k + m - j - 1
        /\ WordSize - 8 * j \in 8 .. WordSize
        /\ (WordSize - 8 * j) - 8 = WordSize - 8 * (j + 1)
    BY <1>2
  <2>2. PICK x \in 1 .. n : x = k + m - j
    BY <2>1
  <2>3. /\ crc[x - 1] \in Words /\ crc2[x - 1] \in Words
        /\ sent[x] \in Bytes /\ received[x] \in Bytes
        /\ crc[x] = crc32(crc[x - 1], sent[x]) /\ crc2[x] = crc32(crc2[x - 1], received[x])
    BY <1>1, <2>2
  <2>4. PICK h \in 8 .. WordSize : h = WordSize - 8 * j
    BY <2>1
  <2>5. AgreeHigh(crc32(crc[x - 1], sent[x]), crc32(crc2[x - 1], received[x]), h)
    BY <1>4, <2>2, <2>3, <2>4
  <2>6. /\ Index(crc[x - 1], sent[x]) = Index(crc2[x - 1], received[x])
        /\ AgreeHigh(crc[x - 1], crc2[x - 1], h - 8)
    BY <2>3, <2>5, StepUndone
  <2>7. QED
    BY <2>1, <2>2, <2>4, <2>6
<1>5. Known(0)
  BY <1>2, <1>3 DEF AgreeHigh
<1>6. \A j \in 0 .. m : Known(j)
  <2> SUFFICES ASSUME NEW i \in 0 .. m, ~Known(i) PROVE FALSE
    OBVIOUS
  <2> HIDE DEF Known
  <2> DEFINE T == {j \in 0 .. m : ~Known(j)}
  <2>1. PICK x \in T : \A y \in T : x <= y
    <3>1. T \in SUBSET Nat /\ T # {}
      OBVIOUS
    <3>2. QED
      BY <3>1, LeastNat
  <2>2. x # 0 /\ x - 1 \in 0 .. m - 1 /\ (x - 1) + 1 = x /\ ~Known(x)
    BY <1>5, <2>1
  <2>3. Known(x - 1)
    BY <2>1, <2>2
  <2>4. QED
    BY <1>4, <2>2, <2>3
<1>7. PICK x \in 1 .. n : /\ sent[x] # received[x]
                         /\ \A i \in 1 .. x - 1 : sent[i] = received[i]
  <2> DEFINE T == {i \in 1 .. n : sent[i] # received[i]}
  <2>1. T # {}
    <3>1. \E i \in 1 .. n : sent[i] # received[i]
      OBVIOUS
    <3>2. QED
      BY <3>1
  <2>2. PICK y \in T : \A i \in T : y <= i
    <3>1. T \in SUBSET Nat
      OBVIOUS
    <3>2. QED
      BY <2>1, <3>1, LeastNat
  <2>3. QED
    BY <2>2
<1>8. crc[x - 1] = crc2[x - 1] /\ crc[x - 1] \in Words
  <2>1. PICK l \in 0 .. n, z \in 0 .. n : l = x - 1 /\ z = 0
    OBVIOUS
  <2>2. l \in z .. n /\ \A i \in z + 1 .. l : sent[i] = received[i]
    BY <1>7, <2>1
  <2>3. crc[z] = crc2[z] <=> crc[l] = crc2[l]
    BY <2>2, EqualStretch
  <2>4. QED
    BY <1>1, <2>1, <2>3
<1>9. PICK j \in 0 .. m - 1 : x = k + m - j
  <2>1. x \in k + 1 .. k + m
    BY <1>7
  <2>2. k + m - x \in 0 .. m - 1 /\ x = k + m - (k + m - x)
    BY <2>1
  <2>3. QED
    BY <2>2
<1>10. Index(crc[x - 1], sent[x]) = Index(crc[x - 1], received[x])
  <2>1. Known(j)
    BY <1>6
  <2>2. Index(crc[k + m - j - 1], sent[k + m - j])
          = Index(crc2[k + m - j - 1], received[k + m - j])
    BY <1>4, <2>1
  <2>3. QED
    BY <1>8, <1>9, <2>2
<1>11. sent[x] = received[x]
  BY <1>8, <1>10, IndexSetsApart
<1>12. QED
  BY <1>7, <1>11

\* In particular it changes when one byte does, the k-th: a packet with one
\* corrupt byte is dropped, as the RTP model has it.
THEOREM CorruptByteDetected ==
  ASSUME CrcAssumption, NEW n \in Nat,
         NEW sent \in [1 .. n -> Bytes], NEW received \in [1 .. n -> Bytes],
         NEW k \in 1 .. n, sent[k] # received[k],
         \A i \in 1 .. n : i # k => sent[i] = received[i],
         NEW crc, NEW crc2,
         IsComputation(crc, sent, n), IsComputation(crc2, received, n)
  PROVE  crc[n] # crc2[n]
<1>1. k - 1 \in 0 .. n /\ (k - 1) + 1 <= n /\ 8 * 1 <= WordSize /\ 1 \in Nat
  BY DEF CrcAssumption
<1>2. ASSUME NEW i \in 1 .. n, i \notin (k - 1) + 1 .. (k - 1) + 1
      PROVE  sent[i] = received[i]
  BY <1>2
<1>3. QED
  BY <1>1, <1>2, CorruptBurstDetected
==============================================================================
