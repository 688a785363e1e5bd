-------------------------------- MODULE Xdr --------------------------------
(***************************************************************************)
(* The encoders and decoders of xdr.cpp, on sequences of bytes.            *)
(*                                                                         *)
(* A byte has Base values, 256 in the code; a uint32_t is four of them, a  *)
(* uint64_t eight.  Sequences count from 1, the offsets of the code from   *)
(* 0: the byte at offset o of src is src[o + 1].                           *)
(***************************************************************************)
EXTENDS Integers, Sequences

CONSTANT Base     \* values of a byte

\* Even, so that a byte has a highest bit.
ASSUME BaseAssumption == Base \in Nat /\ Base > 0 /\ Base % 2 = 0

Byte == 0 .. Base - 1
WordBytes == 4
WordSize == Base * Base * Base * Base
U32 == 0 .. WordSize - 1
U64 == 0 .. WordSize * WordSize - 1

\* w >> 8, applied n <= 3 times.
Shifted(w, n) == CASE n = 0 -> w
                   [] n = 1 -> w \div Base
                   [] n = 2 -> (w \div Base) \div Base
                   [] n = 3 -> ((w \div Base) \div Base) \div Base

\* Mutant of EncodeU32: the bytes in the order of the machine.
EncodeU32LittleEndian(w) == [i \in 1 .. WordBytes |-> Shifted(w, i - 1) % Base]

\* The highest byte comes first.
EncodeU32(w) == [i \in 1 .. WordBytes |-> Shifted(w, WordBytes - i) % Base]

EncodeU64(w) == EncodeU32(w \div WordSize) \o EncodeU32(w % WordSize)

\* The four bytes of src from offset on, put together.
DecodeU32(src, offset) ==
    src[offset + 1] * (Base * Base * Base) + src[offset + 2] * (Base * Base)
      + src[offset + 3] * Base + src[offset + 4]

\* All eight bytes are shifted into place, and gathered in a uint32_t.
DecodeU64(src, offset) ==
    (DecodeU32(src, offset) * WordSize + DecodeU32(src, offset + WordBytes))
      % WordSize

\* Mutant of Padding: the remainder is added, not what is missing.
PaddingRemainder(currentSize, alignSize) == currentSize % alignSize

\* The number of bytes encode_align adds.
Padding(currentSize, alignSize) ==
    IF currentSize % alignSize = 0 THEN 0
                                   ELSE alignSize - (currentSize % alignSize)

\* Bytes to read from: a buffer is larger than what is in it and not initialised,
\* so that whatever is read behind it is junk.
Source(bytes, junk) == [i \in Nat |-> IF i <= Len(bytes) THEN bytes[i] ELSE junk]

\* A length, and as many bytes behind it.
Opaque(src, at) == [i \in 1 .. DecodeU32(src, at) |-> src[at + WordBytes + i]]

\* These bytes are in src at this offset.
Holds(src, at, bytes) == \A i \in 1 .. Len(bytes) : src[at + i] = bytes[i]

Zeros(n) == [i \in 1 .. n |-> 0]

\* The length, then the bytes; no null byte after a string.
EncodeBytes(bytes) == EncodeU32(Len(bytes)) \o bytes

\* Mutant of HighBit: 1 << 8 for 1 << 7.
HighBitOffByOne == Base

HighBit == Base \div 2

\* The record mark: a last fragment has the highest bit set.
LastFragment(src) == [src EXCEPT ![1] = HighBit + (@ % HighBit)]
StripLastFragment(src) == [src EXCEPT ![1] = @ % HighBit]
=============================================================================
