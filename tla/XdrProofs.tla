----------------------------- MODULE XdrProofs -----------------------------
(***************************************************************************)
(* Proofs about the codec, for bytes of any even number of values: the     *)
(* code's is 256.                                                          *)
(***************************************************************************)
EXTENDS Xdr, TLAPS

USE DEF WordBytes

-----------------------------------------------------------------------------
(***************************************************************************)
(* Words.                                                                  *)
(***************************************************************************)

\* Division with remainder.
LEMMA DivMod ==
    ASSUME NEW a \in Nat, NEW m \in Nat \ {0}
    PROVE  /\ a \div m \in Int
           /\ a % m \in 0 .. m - 1
           /\ a = m * (a \div m) + (a % m)
<1>1. a \div m \in Int
  OBVIOUS
<1>2. a % m \in 0 .. m - 1
  OBVIOUS
<1>3. a = m * (a \div m) + (a % m)
  OBVIOUS
<1> QED
  BY <1>1, <1>2, <1>3

\* Multiples of m are m apart.
LEMMA NoSmallMultiple ==
    ASSUME NEW m \in Nat \ {0}, NEW k \in Int, NEW l \in Int
    PROVE  m * k - m * l >= m \/ m * k - m * l <= 0
<1>1. m * k - m * l = m * (k - l)
  OBVIOUS
<1>2. ASSUME NEW d \in Int
      PROVE  (d >= 1 => m * d >= m) /\ (d <= 0 => m * d <= 0)
  <2>1. CASE d >= 1
    BY <2>1
  <2>2. CASE d <= 0
    BY <2>2
  <2> QED
    BY <2>1, <2>2
<1>3. k - l \in Int /\ (k - l >= 1 \/ k - l <= 0)
  OBVIOUS
<1>4. m * (k - l) >= m \/ m * (k - l) <= 0
  BY <1>2, <1>3
<1> QED
  BY <1>1, <1>4

\* What is less than m times k has a quotient by m less than k.
LEMMA DivBound ==
    ASSUME NEW m \in Nat \ {0}, NEW k \in Nat, NEW a \in 0 .. m * k - 1
    PROVE  a \div m \in 0 .. k - 1
<1> DEFINE q == a \div m
<1>1. a \in Nat /\ m * k \in Nat
  OBVIOUS
<1>2. q \in Int /\ a % m \in 0 .. m - 1 /\ a = m * q + (a % m)
  BY <1>1, DivMod
<1>3. m * q <= a /\ m * k - m * q > 0 /\ m * q > -m
  BY <1>1, <1>2
<1>4. m * q - m * k >= m \/ m * q - m * k <= 0
  BY <1>2, NoSmallMultiple
<1>5. ASSUME q >= k PROVE FALSE
  <2>1. m * q - m * k = m * (q - k) /\ q - k \in Nat
    BY <1>2, <1>5
  <2>2. m * (q - k) >= 0
    BY <2>1
  <2> QED
    BY <1>3, <2>1, <2>2
<1>6. ASSUME q < 0 PROVE FALSE
  <2>1. -1 - q \in Nat /\ m * (-1 - q) = -m - m * q
    BY <1>2, <1>6
  <2>2. m * (-1 - q) >= 0
    BY <2>1
  <2> QED
    BY <1>3, <2>1, <2>2
<1> QED
  BY <1>2, <1>5, <1>6

\* A remainder is found again.
LEMMA ModOfSum ==
    ASSUME NEW m \in Nat \ {0}, NEW k \in Nat, NEW r \in 0 .. m - 1
    PROVE  (m * k + r) % m = r
<1> DEFINE a == m * k + r
<1>1. a \in Nat /\ m * k \in Nat
  OBVIOUS
<1>2. /\ a \div m \in Int /\ a % m \in 0 .. m - 1
      /\ a = m * (a \div m) + (a % m)
  BY <1>1, DivMod
<1>3. m * (a \div m) - m * k = r - (a % m)
  BY <1>1, <1>2
<1>4. m * (a \div m) - m * k >= m \/ m * (a \div m) - m * k <= 0
  BY <1>2, NoSmallMultiple
<1>5. m * k - m * (a \div m) >= m \/ m * k - m * (a \div m) <= 0
  <2> DEFINE q == a \div m
  <2>1. q \in Int /\ k \in Int
    BY <1>2
  <2> HIDE DEF q
  <2>2. m * k - m * q >= m \/ m * k - m * q <= 0
    BY <2>1, NoSmallMultiple
  <2> QED
    BY <2>2 DEF q
<1> QED
  BY <1>1, <1>2, <1>3, <1>4, <1>5

\* A byte has values, and its highest bit is half of them.
LEMMA BaseType == Base \in Nat \ {0} /\ HighBit \in Nat \ {0} /\ Base = 2 * HighBit
BY BaseAssumption DEF HighBit

\* The bytes of a word, and the word they make.
LEMMA WordParts ==
    ASSUME NEW w \in U32
    PROVE  LET q1 == w \div Base
               q2 == q1 \div Base
               q3 == q2 \div Base
           IN  /\ q1 \in Nat /\ q2 \in Nat /\ q3 \in 0 .. Base - 1
               /\ w % Base \in Byte /\ q1 % Base \in Byte /\ q2 % Base \in Byte
               /\ q3 % Base = q3
               /\ w = q3 * (Base * Base * Base) + (q2 % Base) * (Base * Base)
                        + (q1 % Base) * Base + (w % Base)
<1> DEFINE q1 == w \div Base
           q2 == q1 \div Base
           q3 == q2 \div Base
<1>1. Base \in Nat \ {0}
  BY BaseType
<1>2. /\ Base * Base \in Nat /\ Base * Base * Base \in Nat
      /\ WordSize = Base * (Base * Base * Base)
      /\ Base * Base * Base = Base * (Base * Base)
  BY <1>1 DEF WordSize
<1>3. w \in 0 .. Base * (Base * Base * Base) - 1
  BY <1>2 DEF U32
<1>4. q1 \in 0 .. Base * (Base * Base) - 1
  BY <1>1, <1>2, <1>3, DivBound
<1>5. q2 \in 0 .. Base * Base - 1
  BY <1>1, <1>2, <1>4, DivBound
<1>6. q3 \in 0 .. Base - 1
  BY <1>1, <1>5, DivBound
<1>7. /\ w % Base \in 0 .. Base - 1 /\ w = Base * q1 + (w % Base)
      /\ q1 % Base \in 0 .. Base - 1 /\ q1 = Base * q2 + (q1 % Base)
      /\ q2 % Base \in 0 .. Base - 1 /\ q2 = Base * q3 + (q2 % Base)
  BY <1>1, <1>3, <1>4, <1>5, DivMod
<1>8. q3 % Base = q3
  BY <1>1, <1>6
<1> HIDE DEF q1, q2, q3
<1>9. ASSUME NEW r0 \in Nat, NEW r1 \in Nat, NEW r2 \in Nat,
             q2 = Base * q3 + r2, q1 = Base * q2 + r1, w = Base * q1 + r0
      PROVE  w = q3 * (Base * Base * Base) + r2 * (Base * Base) + r1 * Base + r0
  <2>1. q3 \in Nat
    BY <1>1, <1>6
  <2>2. q1 = Base * (Base * q3 + r2) + r1
    BY <1>9
  <2>3. w = Base * (Base * (Base * q3 + r2) + r1) + r0
    BY <1>9, <2>2
  <2> QED
    BY <1>1, <2>1, <2>3
<1>10. w = q3 * (Base * Base * Base) + (q2 % Base) * (Base * Base)
             + (q1 % Base) * Base + (w % Base)
  BY <1>1, <1>7, <1>9
<1> QED
  BY <1>4, <1>5, <1>6, <1>7, <1>8, <1>10 DEF Byte, q1, q2, q3

\* What is left of a number after a shift, and its lowest byte.
LEMMA ShiftType ==
    ASSUME NEW w \in Int
    PROVE  w \div Base \in Int /\ w % Base \in Byte
BY BaseType DEF Byte

\* An encoded word is four bytes, whatever was encoded.
LEMMA EncodeU32Type ==
    ASSUME NEW w \in Int
    PROVE  /\ EncodeU32(w) \in Seq(Byte)
           /\ Len(EncodeU32(w)) = WordBytes
<1>1. \A i \in 1 .. WordBytes : EncodeU32(w)[i] \in Byte
  <2> USE ShiftType DEF EncodeU32, Shifted
  <2>1. EncodeU32(w)[4] \in Byte
    OBVIOUS
  <2>2. EncodeU32(w)[3] \in Byte
    OBVIOUS
  <2>3. EncodeU32(w)[2] \in Byte
    OBVIOUS
  <2>4. EncodeU32(w)[1] \in Byte
    OBVIOUS
  <2> QED
    BY <2>1, <2>2, <2>3, <2>4
<1> QED
  BY <1>1 DEF EncodeU32

\* decode_u32 gives back what encode_u32 put there, wherever it is in the
\* buffer (xdr.cpp:5-15, 78-91).
THEOREM U32RoundTrip ==
    ASSUME NEW w \in U32, NEW offset0 \in Nat, NEW src,
           \A i \in 1 .. WordBytes : src[offset0 + i] = EncodeU32(w)[i]
    PROVE  DecodeU32(src, offset0) = w
<1>1. /\ src[offset0 + 1] = (((w \div Base) \div Base) \div Base) % Base
      /\ src[offset0 + 2] = ((w \div Base) \div Base) % Base
      /\ src[offset0 + 3] = (w \div Base) % Base
      /\ src[offset0 + 4] = w % Base
  BY DEF EncodeU32, Shifted
<1> QED
  BY <1>1, WordParts DEF DecodeU32

\* Byte sequences, one after the other, are one.
LEMMA ConcatBytes ==
    ASSUME NEW s \in Seq(Byte), NEW t \in Seq(Byte)
    PROVE  s \o t \in Seq(Byte) /\ Len(s \o t) = Len(s) + Len(t)
OBVIOUS

\* What a sequence of bytes is made of.
LEMMA ByteOfSequence ==
    ASSUME NEW s \in Seq(Byte)
    PROVE  \A i \in 1 .. Len(s) : s[i] \in Byte
OBVIOUS

\* Where the bytes of the first are.
LEMMA ConcatFirst ==
    ASSUME NEW s \in Seq(Byte), NEW t \in Seq(Byte), NEW i \in 1 .. Len(s)
    PROVE  (s \o t)[i] = s[i]
OBVIOUS

\* Where the bytes of the second are.
LEMMA ConcatSecond ==
    ASSUME NEW s \in Seq(Byte), NEW t \in Seq(Byte), NEW i \in 1 .. Len(t)
    PROVE  (s \o t)[Len(s) + i] = t[i]
<1>1. Len(s) + i \in 1 .. Len(s) + Len(t) /\ ~(Len(s) + i <= Len(s))
  OBVIOUS
<1>2. (Len(s) + i) - Len(s) = i
  OBVIOUS
<1> QED
  BY <1>1, <1>2

\* One word after another.
LEMMA WordAfterWord ==
    ASSUME NEW s \in Seq(Byte), NEW t \in Seq(Byte), Len(s) = 4, Len(t) = 4
    PROVE  /\ s \o t \in Seq(Byte)
           /\ Len(s \o t) = 8
           /\ \A i \in 1 .. 4 : (s \o t)[i] = s[i]
           /\ \A i \in 1 .. 4 : (s \o t)[4 + i] = t[i]
<1>1. s \o t \in Seq(Byte) /\ Len(s \o t) = Len(s) + Len(t)
  BY ConcatBytes, Zenon
<1>2. Len(s) + Len(t) = 8
  OBVIOUS
<1>3. ASSUME NEW i \in 1 .. 4 PROVE (s \o t)[i] = s[i]
  <2>1. i \in 1 .. Len(s)
    OBVIOUS
  <2> QED
    BY <2>1, ConcatFirst, Zenon
<1>4. ASSUME NEW i \in 1 .. 4 PROVE (s \o t)[4 + i] = t[i]
  <2>1. i \in 1 .. Len(t)
    OBVIOUS
  <2>2. (s \o t)[Len(s) + i] = t[i]
    BY <2>1, ConcatSecond, Zenon
  <2> QED
    BY <2>2, Zenon
<1>5. Len(s \o t) = 8
  BY <1>1, <1>2, Zenon
<1> QED
  BY <1>1, <1>3, <1>4, <1>5, Zenon

\* Both halves of a uint64_t are words.
LEMMA Halves ==
    ASSUME NEW v \in U64
    PROVE  /\ WordSize \in Nat \ {0}
           /\ v \div WordSize \in U32
           /\ v % WordSize \in U32
<1>1. WordSize \in Nat \ {0}
  BY BaseType DEF WordSize
<1>2. v \in 0 .. WordSize * WordSize - 1 /\ v \in Nat
  BY <1>1 DEF U64
<1> QED
  BY <1>1, <1>2, DivBound, DivMod DEF U32

\* An encoded uint64_t is eight bytes.
LEMMA EncodeU64Type ==
    ASSUME NEW v \in U64
    PROVE  /\ EncodeU64(v) \in Seq(Byte)
           /\ Len(EncodeU64(v)) = 2 * WordBytes
<1> DEFINE hi == EncodeU32(v \div WordSize)
           lo == EncodeU32(v % WordSize)
<1>1. /\ hi \in Seq(Byte) /\ Len(hi) = 4
      /\ lo \in Seq(Byte) /\ Len(lo) = 4
  BY Halves, EncodeU32Type DEF U32
<1> HIDE DEF hi, lo
<1>2. hi \o lo \in Seq(Byte) /\ Len(hi \o lo) = 8
  BY <1>1, WordAfterWord, Zenon
<1> QED
  BY <1>2 DEF EncodeU64, hi, lo

\* decode_u64 keeps the low word of what encode_u64 put there, and nothing
\* else (xdr.cpp:17-36, 93-109).
THEOREM U64LosesHighWord ==
    ASSUME NEW v \in U64, NEW offset0 \in Nat, NEW src,
           \A i \in 1 .. 2 * WordBytes : src[offset0 + i] = EncodeU64(v)[i]
    PROVE  DecodeU64(src, offset0) = v % WordSize
<1> DEFINE hi == v \div WordSize
           lo == v % WordSize
<1>1. WordSize \in Nat \ {0}
  BY Halves
<1>2. hi \in U32 /\ lo \in U32
  BY Halves
<1> HIDE DEF hi, lo
<1> DEFINE his == EncodeU32(hi)
           los == EncodeU32(lo)
<1>3. /\ his \in Seq(Byte) /\ Len(his) = 4
      /\ los \in Seq(Byte) /\ Len(los) = 4
  BY <1>2, EncodeU32Type DEF U32
<1>4. EncodeU64(v) = his \o los
  BY DEF EncodeU64, hi, lo
<1> HIDE DEF his, los
<1>5. \A i \in 1 .. 4 : EncodeU64(v)[i] = his[i]
  <2>1. \A i \in 1 .. 4 : (his \o los)[i] = his[i]
    BY <1>3, WordAfterWord, Zenon
  <2> QED
    BY <1>4, <2>1, Zenon
<1>6. \A i \in 1 .. 4 : EncodeU64(v)[4 + i] = los[i]
  <2>1. \A i \in 1 .. 4 : (his \o los)[4 + i] = los[i]
    BY <1>3, WordAfterWord, Zenon
  <2> QED
    BY <1>4, <2>1, Zenon
<1>7. DecodeU32(src, offset0) = hi
  BY <1>2, <1>5, U32RoundTrip DEF his
<1>8. DecodeU32(src, offset0 + 4) = lo
  <2>1. \A i \in 1 .. 4 : src[(offset0 + 4) + i] = los[i]
    <3> TAKE i \in 1 .. 4
    <3>1. (offset0 + 4) + i = offset0 + (4 + i) /\ 4 + i \in 1 .. 8
      OBVIOUS
    <3> QED
      BY <1>6, <3>1
  <2> QED
    BY <1>2, <2>1, U32RoundTrip DEF los
<1>9. (WordSize * hi + lo) % WordSize = lo
  BY <1>1, <1>2, ModOfSum DEF U32
<1>10. hi * WordSize = WordSize * hi
  BY <1>1, <1>2 DEF U32
<1> QED
  BY <1>7, <1>8, <1>9, <1>10 DEF DecodeU64, lo

-----------------------------------------------------------------------------
(***************************************************************************)
(* The record mark.                                                        *)
(***************************************************************************)

\* The highest byte of a size that leaves the bit of a last fragment free.
LEMMA HighByteOfSize ==
    ASSUME NEW n \in 0 .. HighBit * (Base * Base * Base) - 1
    PROVE  n \in U32 /\ EncodeU32(n)[1] \in 0 .. HighBit - 1
<1> DEFINE q1 == n \div Base
           q2 == q1 \div Base
           q3 == q2 \div Base
<1>1. Base \in Nat \ {0} /\ HighBit \in Nat \ {0} /\ Base = 2 * HighBit
  BY BaseType
<1>2. /\ HighBit * (Base * Base * Base) = Base * (Base * (Base * HighBit))
      /\ Base * (Base * HighBit) \in Nat /\ Base * HighBit \in Nat
      /\ Base * Base * Base \in Nat
  BY <1>1
<1>3. q1 \in 0 .. Base * (Base * HighBit) - 1
  BY <1>1, <1>2, DivBound
<1>4. q2 \in 0 .. Base * HighBit - 1
  BY <1>1, <1>2, <1>3, DivBound
<1>5. q3 \in 0 .. HighBit - 1
  BY <1>1, <1>4, DivBound
<1>6. n \in U32
  <2> DEFINE c == Base * Base * Base
  <2>1. WordSize = HighBit * c + HighBit * c /\ HighBit * c \in Nat
    BY <1>1, <1>2 DEF WordSize
  <2> HIDE DEF c
  <2> QED
    BY <2>1 DEF U32, c
<1>7. q3 % Base = q3
  BY <1>1, <1>5
<1>8. EncodeU32(n)[1] = q3 % Base
  BY DEF EncodeU32, Shifted
<1> QED
  BY <1>5, <1>6, <1>7, <1>8

\* Whatever the size, below 2^31, the receiver strips the bit and decodes the
\* size the sender encoded (xdr.cpp:61-63, 74-76, Mount.cpp:52-53,
\* Context.cpp:170-171).
THEOREM MarkRoundTrip ==
    ASSUME NEW n \in 0 .. HighBit * (Base * Base * Base) - 1
    PROVE  /\ LastFragment(EncodeU32(n)) \in Seq(Byte)
           /\ Len(LastFragment(EncodeU32(n))) = WordBytes
           /\ DecodeU32(StripLastFragment(LastFragment(EncodeU32(n))), 0) = n
<1> DEFINE word == EncodeU32(n)
           mark == LastFragment(word)
           size == StripLastFragment(mark)
<1>1. n \in U32 /\ word[1] \in 0 .. HighBit - 1
  BY HighByteOfSize
<1>2. /\ word \in Seq(Byte) /\ Len(word) = 4
      /\ \A i \in 1 .. 4 : word[i] \in Byte
  BY <1>1, EncodeU32Type DEF U32
<1>3. HighBit \in Nat \ {0} /\ Base = 2 * HighBit
  BY BaseType
<1> HIDE DEF word
<1>4. word[1] % HighBit = word[1]
  BY <1>1, <1>3
<1>5. mark = [word EXCEPT ![1] = HighBit + word[1]]
  BY <1>4 DEF LastFragment
<1>6. HighBit + word[1] \in Byte /\ (HighBit + word[1]) % HighBit = word[1]
  <2>1. (HighBit * 1 + word[1]) % HighBit = word[1]
    BY <1>1, <1>3, ModOfSum
  <2> QED
    BY <1>1, <1>3, <2>1 DEF Byte
<1>7. mark \in Seq(Byte) /\ Len(mark) = 4
  BY <1>2, <1>5, <1>6
<1>8. /\ mark[1] = HighBit + word[1]
      /\ \A i \in 2 .. 4 : mark[i] = word[i]
  BY <1>2, <1>5
<1> HIDE DEF mark
<1>9. \A i \in 1 .. 4 : size[i] = word[i]
  BY <1>6, <1>7, <1>8 DEF StripLastFragment
<1>10. \A i \in 1 .. WordBytes : size[0 + i] = EncodeU32(n)[i]
  BY <1>9 DEF word
<1> HIDE DEF size
<1>11. DecodeU32(size, 0) = n
  BY <1>1, <1>10, U32RoundTrip
<1> QED
  BY <1>7, <1>11 DEF size, mark, word

-----------------------------------------------------------------------------
(***************************************************************************)
(* Alignment.                                                              *)
(***************************************************************************)

\* encode_align fills up to the next word, with fewer bytes than a word
\* (xdr.cpp:48-59).
LEMMA PaddingAligns ==
    ASSUME NEW n \in Nat
    PROVE  /\ Padding(n, WordBytes) \in 0 .. WordBytes - 1
           /\ (n + Padding(n, WordBytes)) % WordBytes = 0
BY DEF Padding

\* What encode_string and encode_nBytes write.
LEMMA EncodeBytesType ==
    ASSUME NEW b \in Seq(Byte)
    PROVE  /\ EncodeBytes(b) \in Seq(Byte)
           /\ Len(EncodeBytes(b)) = WordBytes + Len(b)
<1> DEFINE length == EncodeU32(Len(b))
<1>1. length \in Seq(Byte) /\ Len(length) = 4
  BY EncodeU32Type
<1> HIDE DEF length
<1>2. length \o b \in Seq(Byte) /\ Len(length \o b) = 4 + Len(b)
  BY <1>1, ConcatBytes
<1> QED
  BY <1>2 DEF EncodeBytes, length

\* What encode_align writes.
LEMMA ZerosType ==
    ASSUME NEW n \in Nat
    PROVE  Zeros(n) \in Seq(Byte) /\ Len(Zeros(n)) = n
BY BaseType DEF Zeros, Byte

-----------------------------------------------------------------------------
(***************************************************************************)
(* What lies in a buffer.                                                  *)
(***************************************************************************)

\* Of two sequences one after the other, each lies at its place.
LEMMA HoldsConcat ==
    ASSUME NEW s \in Seq(Byte), NEW t \in Seq(Byte), NEW src, NEW at \in Nat
    PROVE  Holds(src, at, s \o t) <=> Holds(src, at, s) /\ Holds(src, at + Len(s), t)
<1>1. Len(s) \in Nat /\ Len(t) \in Nat /\ Len(s \o t) = Len(s) + Len(t)
  BY ConcatBytes
<1>2. ASSUME Holds(src, at, s \o t) PROVE Holds(src, at, s)
  <2>1. ASSUME NEW i \in 1 .. Len(s) PROVE src[at + i] = s[i]
    <3>1. (s \o t)[i] = s[i]
      BY <2>1, ConcatFirst, Zenon
    <3>2. i \in 1 .. Len(s \o t)
      BY <1>1
    <3> QED
      BY <1>2, <3>1, <3>2, Zenon DEF Holds
  <2> QED
    BY <2>1 DEF Holds
<1>3. ASSUME Holds(src, at, s \o t) PROVE Holds(src, at + Len(s), t)
  <2>1. ASSUME NEW i \in 1 .. Len(t) PROVE src[at + Len(s) + i] = t[i]
    <3>1. (s \o t)[Len(s) + i] = t[i]
      BY <2>1, ConcatSecond, Zenon
    <3>2. Len(s) + i \in 1 .. Len(s \o t) /\ at + (Len(s) + i) = at + Len(s) + i
      BY <1>1
    <3> QED
      BY <1>3, <3>1, <3>2 DEF Holds
  <2> QED
    BY <2>1 DEF Holds
<1>4. ASSUME Holds(src, at, s), Holds(src, at + Len(s), t)
      PROVE  Holds(src, at, s \o t)
  <2>1. ASSUME NEW i \in 1 .. Len(s \o t) PROVE src[at + i] = (s \o t)[i]
    <3>1. CASE i <= Len(s)
      <4>1. i \in 1 .. Len(s)
        BY <1>1, <3>1
      <4>2. (s \o t)[i] = s[i]
        BY <4>1, ConcatFirst, Zenon
      <4> QED
        BY <1>4, <4>1, <4>2, Zenon DEF Holds
    <3>2. CASE ~ (i <= Len(s))
      <4> DEFINE j == i - Len(s)
      <4>1. j \in 1 .. Len(t) /\ Len(s) + j = i /\ at + Len(s) + j = at + i
        BY <1>1, <3>2
      <4> HIDE DEF j
      <4>2. (s \o t)[Len(s) + j] = t[j]
        BY <4>1, ConcatSecond, Zenon
      <4>3. src[at + Len(s) + j] = t[j]
        BY <1>4, <4>1, Zenon DEF Holds
      <4> QED
        BY <4>1, <4>2, <4>3
    <3> QED
      BY <3>1, <3>2
  <2> QED
    BY <2>1, Zenon DEF Holds
<1> QED
  BY <1>2, <1>3, <1>4

\* A sequence lies at the beginning of itself.
LEMMA HoldsItself ==
    ASSUME NEW s \in Seq(Byte)
    PROVE  Holds(s, 0, s)
BY DEF Holds

\* Behind one sequence lies the other.
LEMMA HoldsBehind ==
    ASSUME NEW s \in Seq(Byte), NEW t \in Seq(Byte)
    PROVE  Holds(s \o t, 0, s) /\ Holds(s \o t, Len(s), t)
<1>1. s \o t \in Seq(Byte) /\ 0 + Len(s) = Len(s)
  BY ConcatBytes
<1>2. Holds(s \o t, 0, s \o t)
  BY <1>1, HoldsItself, Zenon
<1> QED
  BY <1>1, <1>2, HoldsConcat

\* What lies in a message still does when it grows.
LEMMA HoldsGrown ==
    ASSUME NEW s \in Seq(Byte), NEW t \in Seq(Byte), NEW b, NEW at \in Nat,
           Len(b) \in Nat, at + Len(b) <= Len(s), Holds(s, at, b)
    PROVE  Holds(s \o t, at, b)
<1> SUFFICES ASSUME NEW i \in 1 .. Len(b) PROVE (s \o t)[at + i] = b[i]
  BY DEF Holds
<1>1. at + i \in 1 .. Len(s)
  OBVIOUS
<1>2. (s \o t)[at + i] = s[at + i]
  BY <1>1, ConcatFirst, Zenon
<1> QED
  BY <1>2, Zenon DEF Holds

\* What lies in a message lies in the buffer it is read from.
LEMMA SourceHolds ==
    ASSUME NEW s \in Seq(Byte), NEW b, NEW at \in Nat, NEW junk,
           Len(b) \in Nat, at + Len(b) <= Len(s), Holds(s, at, b)
    PROVE  Holds(Source(s, junk), at, b)
<1> SUFFICES ASSUME NEW i \in 1 .. Len(b) PROVE Source(s, junk)[at + i] = b[i]
  BY DEF Holds
<1>1. at + i \in Nat /\ at + i <= Len(s)
  OBVIOUS
<1>2. Source(s, junk)[at + i] = s[at + i]
  BY <1>1 DEF Source
<1> QED
  BY <1>2, Zenon DEF Holds

\* What is read from a buffer is bytes.
LEMMA SourceType ==
    ASSUME NEW s \in Seq(Byte), NEW junk \in Byte
    PROVE  \A i \in Nat \ {0} : Source(s, junk)[i] \in Byte
<1> SUFFICES ASSUME NEW i \in Nat \ {0} PROVE Source(s, junk)[i] \in Byte
  OBVIOUS
<1>1. Source(s, junk)[i] = IF i <= Len(s) THEN s[i] ELSE junk
  BY DEF Source
<1> QED
  BY <1>1

\* One more digit.
LEMMA DigitBound ==
    ASSUME NEW m \in Nat, NEW q \in 0 .. m - 1, NEW b \in Nat \ {0}, NEW r \in 0 .. b - 1
    PROVE  q * b + r \in 0 .. m * b - 1
<1>1. q \in Nat /\ m - 1 - q \in Nat /\ r \in Nat
  OBVIOUS
<1>2. q * b >= 0 /\ (m - 1 - q) * b >= 0
  BY <1>1
<1>3. (m - 1 - q) * b = m * b - b - q * b
  OBVIOUS
<1>4. q * b \in Int /\ m * b \in Int
  OBVIOUS
<1> QED
  BY <1>1, <1>2, <1>3, <1>4

\* What is decoded from bytes is a word.
LEMMA DecodeU32Type ==
    ASSUME NEW src, NEW at \in Nat, \A i \in Nat \ {0} : src[i] \in Byte
    PROVE  DecodeU32(src, at) \in U32
<1> DEFINE b1 == src[at + 1]
           b2 == src[at + 2]
           b3 == src[at + 3]
           b4 == src[at + 4]
<1>1. /\ b1 \in 0 .. Base - 1 /\ b2 \in 0 .. Base - 1
      /\ b3 \in 0 .. Base - 1 /\ b4 \in 0 .. Base - 1
  BY DEF Byte
<1>2. Base \in Nat \ {0} /\ Base * Base \in Nat /\ Base * Base * Base \in Nat
  BY BaseType
<1>3. DecodeU32(src, at)
        = b1 * (Base * Base * Base) + b2 * (Base * Base) + b3 * Base + b4
  BY DEF DecodeU32
<1> HIDE DEF b1, b2, b3, b4
<1> DEFINE q2 == b1 * Base + b2
           q3 == q2 * Base + b3
<1>4. q2 \in 0 .. Base * Base - 1
  BY <1>1, <1>2, DigitBound
<1> HIDE DEF q2
<1>5. q3 \in 0 .. (Base * Base) * Base - 1
  BY <1>1, <1>2, <1>4, DigitBound
<1> HIDE DEF q3
<1>6. q3 * Base + b4 \in 0 .. ((Base * Base) * Base) * Base - 1
  BY <1>1, <1>2, <1>5, DigitBound
<1>7. q3 * Base + b4
        = b1 * (Base * Base * Base) + b2 * (Base * Base) + b3 * Base + b4
  <2>1. /\ b1 \in Int /\ b2 \in Int /\ b3 \in Int /\ b4 \in Int /\ Base \in Int
    BY <1>1, <1>2
  <2>2. q3 * Base = ((b1 * Base + b2) * Base + b3) * Base
    BY DEF q3, q2
  <2> QED
    BY <2>1, <2>2
<1> QED
  BY <1>3, <1>6, <1>7 DEF U32, WordSize

\* So is what decode_u64 keeps of eight.
LEMMA DecodeU64Type ==
    ASSUME NEW src, NEW at \in Nat, \A i \in Nat \ {0} : src[i] \in Byte
    PROVE  DecodeU64(src, at) \in U32
<1>1. WordSize \in Nat \ {0}
  BY BaseType DEF WordSize
<1>2. DecodeU32(src, at) \in Nat /\ DecodeU32(src, at + 4) \in Nat
  BY DecodeU32Type DEF U32
<1>3. DecodeU32(src, at) * WordSize + DecodeU32(src, at + 4) \in Nat
  BY <1>1, <1>2
<1> QED
  BY <1>1, <1>3, DivMod DEF DecodeU64, U32

\* What lies behind a length is bytes, as many as it says.
LEMMA OpaqueType ==
    ASSUME NEW src, NEW at \in Nat, \A i \in Nat \ {0} : src[i] \in Byte
    PROVE  Opaque(src, at) \in Seq(Byte) /\ Len(Opaque(src, at)) = DecodeU32(src, at)
<1>1. DecodeU32(src, at) \in Nat
  BY DecodeU32Type DEF U32
<1>2. \A i \in 1 .. DecodeU32(src, at) : src[at + WordBytes + i] \in Byte
  BY <1>1
<1> QED
  BY <1>1, <1>2 DEF Opaque

\* A word that was encoded is decoded, wherever it lies.
LEMMA WordIsRead ==
    ASSUME NEW w \in U32, NEW src, NEW at \in Nat, Holds(src, at, EncodeU32(w))
    PROVE  DecodeU32(src, at) = w
<1>1. Len(EncodeU32(w)) = 4
  BY EncodeU32Type DEF U32
<1>2. \A i \in 1 .. WordBytes : src[at + i] = EncodeU32(w)[i]
  BY <1>1 DEF Holds
<1> QED
  BY <1>2, U32RoundTrip

\* Of a uint64_t, the low word.
LEMMA LongIsRead ==
    ASSUME NEW v \in U64, NEW src, NEW at \in Nat, Holds(src, at, EncodeU64(v))
    PROVE  DecodeU64(src, at) = v % WordSize
<1>1. Len(EncodeU64(v)) = 8
  BY EncodeU64Type
<1>2. \A i \in 1 .. 2 * WordBytes : src[at + i] = EncodeU64(v)[i]
  BY <1>1 DEF Holds
<1> QED
  BY <1>2, U64LosesHighWord

\* A string or vector of a size that fits a word is found again, with its
\* length (xdr.cpp:38-46, 65-72, 111-140).
THEOREM OpaqueRoundTrip ==
    ASSUME NEW b \in Seq(Byte), Len(b) \in U32, NEW src, NEW at \in Nat,
           Holds(src, at, EncodeBytes(b))
    PROVE  DecodeU32(src, at) = Len(b) /\ Opaque(src, at) = b
<1> DEFINE length == EncodeU32(Len(b))
<1>1. length \in Seq(Byte) /\ Len(length) = 4
  BY EncodeU32Type
<1> HIDE DEF length
<1>2. Holds(src, at, length) /\ Holds(src, at + 4, b)
  <2>1. Holds(src, at, length \o b)
    BY DEF EncodeBytes, length
  <2> QED
    BY <1>1, <2>1, HoldsConcat
<1>3. DecodeU32(src, at) = Len(b)
  BY <1>2, WordIsRead DEF length
<1>4. \A i \in 1 .. Len(b) : src[at + 4 + i] = b[i]
  BY <1>2, Zenon DEF Holds
<1>5. Opaque(src, at) = [i \in 1 .. Len(b) |-> src[at + 4 + i]]
  BY <1>3, Zenon DEF Opaque
<1>6. b = [i \in 1 .. Len(b) |-> b[i]]
  OBVIOUS
<1> QED
  BY <1>3, <1>4, <1>5, <1>6
=============================================================================
