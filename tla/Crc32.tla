-------------------------------- MODULE Crc32 ---------------------------------
(***************************************************************************)
(* The checksum of the RTP lab (util.cpp): a CRC by a table of 256 words,  *)
(* computed byte by byte.  A word is a function from bit positions, 0 the  *)
(* lowest, to bits.                                                        *)
(***************************************************************************)
EXTENDS Integers

CONSTANTS
  WordSize,  \* 32
  Poly       \* 0xEDB88320

Bits  == {0, 1}
Words == [0 .. WordSize - 1 -> Bits]
Bytes == [0 .. 7 -> Bits]

\* 0xEDB88320 has its highest bit.
CrcAssumption ==
  /\ WordSize \in Nat /\ WordSize >= 8
  /\ Poly \in Words
  /\ Poly[WordSize - 1] = 1

\* ^ of two bits.
Flip(a, b) == IF a = b THEN 0 ELSE 1

\* w >> n
Shift(w, n) == [i \in 0 .. WordSize - 1 |-> IF i + n < WordSize THEN w[i + n] ELSE 0]

\* One round of crc32_for_byte: it adds the polynomial where the bit is 0.
Round(r) ==
  [i \in 0 .. WordSize - 1 |->
     IF r[0] = 1 THEN Shift(r, 1)[i] ELSE Flip(Poly[i], Shift(r, 1)[i])]

Round2(r) == Round(Round(r))
Round4(r) == Round2(Round2(r))
Round8(r) == Round4(Round4(r))

\* A byte as a word.
Widened(b) == [i \in 0 .. WordSize - 1 |-> IF i < 8 THEN b[i] ELSE 0]

\* The table entry of the byte b: at the end its highest byte is inverted.
crc32_for_byte(b) ==
  [i \in 0 .. WordSize - 1 |->
     Flip(Round8(Widened(b))[i], IF i >= WordSize - 8 THEN 1 ELSE 0)]

\* The table is looked up at the lowest byte of crc ^ the byte b ...
Index(crc, b) == [i \in 0 .. 7 |-> Flip(crc[i], b[i])]

\* ... and that is the step of the loop.
crc32(crc, b) ==
  [i \in 0 .. WordSize - 1 |->
     Flip(crc32_for_byte(Index(crc, b))[i], Shift(crc, 8)[i])]

\* The values that crc takes on the way through the n bytes of data; the last
\* is the checksum.
IsComputation(crc, data, n) ==
  /\ crc \in [0 .. n -> Words]
  /\ crc[0] = [i \in 0 .. WordSize - 1 |-> 0]
  /\ \A i \in 1 .. n : crc[i] = crc32(crc[i - 1], data[i])
==============================================================================
