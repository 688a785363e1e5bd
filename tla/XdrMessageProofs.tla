-------------------------- MODULE XdrMessageProofs --------------------------
(***************************************************************************)
(* Proofs about XdrMessage, for any fields and any values.                 *)
(***************************************************************************)
EXTENDS XdrMessage, XdrProofs

USE DEF WordBytes

-----------------------------------------------------------------------------
(***************************************************************************)
(* The message.                                                            *)
(***************************************************************************)

\* A field of each kind, and what may be read for one.
Field ==
    [kind : {"u32"}, value : U32, start : Nat]
    \cup [kind : {"u64"}, value : U64, start : Nat]
    \cup [kind : {"string", "bytes"}, value : Seq(Byte), start : Nat]

\* The types the properties rest on.
WireType ==
    /\ wire \in Seq(Byte) /\ Len(wire) \in WordBytes .. BufferSize
    /\ junk \in Byte
    /\ fields \in Seq(Field)
    /\ read = [i \in 1 .. Len(read) |-> read[i]]
    /\ Len(read) \in 0 .. Len(fields)
    /\ \A i \in 1 .. Len(read) : read[i] \in Decodes(fields[i].kind)
    /\ announced \in U32
    /\ offset \in Nat
    /\ stage \in {"encode", "decode", "failed"}
    /\ stage = "encode" => read = <<>>

\* The bytes a decoder takes for a field, and where they end.
Bytes(kind, value) == IF kind = "u32" THEN EncodeU32(value)
                      ELSE IF kind = "u64" THEN EncodeU64(value)
                      ELSE EncodeBytes(value)

FieldBytes(i) == Bytes(fields[i].kind, fields[i].value)

End(i) == fields[i].start + Len(FieldBytes(i))

\* Where field i starts, or the next one would.
Start(i) == IF i <= Len(fields) THEN fields[i].start ELSE Len(wire)

\* Field after field lies in the message, from the word of the mark on.
Layout ==
    /\ Start(1) = WordBytes
    /\ \A i \in 1 .. Len(fields) :
          /\ fields[i].start >= WordBytes
          /\ End(i) <= Len(wire)
          /\ Holds(wire, fields[i].start, FieldBytes(i))
          /\ Unpadded(i) => Start(i + 1) = End(i)

\* The offset is where the next field starts, until padding is passed.
InStep ==
    stage = "decode" /\ (\A i \in 1 .. Len(read) : Unpadded(i))
        => offset = Start(Len(read) + 1)

WireIInv == /\ WireType /\ MarkIsTruthful /\ WholeWords
            /\ Layout /\ InStep /\ ReadsBack

\* The constants a message is made of.
LEMMA Encoded ==
    /\ Words \subseteq U32 /\ Longs \subseteq U64
    /\ Texts \subseteq Seq(Byte) /\ Handles \subseteq Seq(Byte)
    /\ BufferSize \in Nat
    /\ BufferSize <= HighBit * (Base * Base * Base) - 1
    /\ BufferSize >= WordBytes
<1>1. \A t \in Seq(Byte \ {0}) : t \in Seq(Byte)
  OBVIOUS
<1>2. HighBit * (Base * Base * Base) \in Nat
  BY BaseType
<1> QED
  BY <1>1, <1>2, WordsAssumption, TextsAssumption, HandlesAssumption,
     LimitsAssumption

\* A size up to that of the buffer fits a word.
LEMMA SizeFits ==
    ASSUME NEW n \in 0 .. BufferSize
    PROVE  n \in U32
<1>1. n \in 0 .. HighBit * (Base * Base * Base) - 1
  BY Encoded, BaseType
<1> QED
  BY <1>1, HighByteOfSize

\* What the bytes of a field are.
LEMMA FieldType ==
    ASSUME NEW f \in Field
    PROVE  /\ f.start \in Nat
           /\ Bytes(f.kind, f.value) \in Seq(Byte)
           /\ \/ /\ f.kind = "u32" /\ f.value \in U32
                 /\ Bytes(f.kind, f.value) = EncodeU32(f.value)
                 /\ Len(Bytes(f.kind, f.value)) = 4
              \/ /\ f.kind = "u64" /\ f.value \in U64
                 /\ Bytes(f.kind, f.value) = EncodeU64(f.value)
                 /\ Len(Bytes(f.kind, f.value)) = 8
              \/ /\ f.kind \in {"string", "bytes"} /\ f.value \in Seq(Byte)
                 /\ Bytes(f.kind, f.value) = EncodeBytes(f.value)
                 /\ Len(Bytes(f.kind, f.value)) = 4 + Len(f.value)
<1>1. CASE f \in [kind : {"u32"}, value : U32, start : Nat]
  <2>1. f.kind = "u32" /\ f.value \in U32 /\ f.start \in Nat
    BY <1>1
  <2>2. EncodeU32(f.value) \in Seq(Byte) /\ Len(EncodeU32(f.value)) = 4
    BY <2>1, EncodeU32Type DEF U32
  <2> QED
    BY <2>1, <2>2 DEF Bytes
<1>2. CASE f \in [kind : {"u64"}, value : U64, start : Nat]
  <2>1. f.kind = "u64" /\ f.value \in U64 /\ f.start \in Nat
    BY <1>2
  <2>2. EncodeU64(f.value) \in Seq(Byte) /\ Len(EncodeU64(f.value)) = 8
    BY <2>1, EncodeU64Type
  <2> QED
    BY <2>1, <2>2 DEF Bytes
<1>3. CASE f \in [kind : {"string", "bytes"}, value : Seq(Byte), start : Nat]
  <2>1. f.kind \in {"string", "bytes"} /\ f.value \in Seq(Byte) /\ f.start \in Nat
    BY <1>3
  <2>2. EncodeBytes(f.value) \in Seq(Byte) /\ Len(EncodeBytes(f.value)) = 4 + Len(f.value)
    BY <2>1, EncodeBytesType
  <2>3. f.kind # "u32" /\ f.kind # "u64"
    BY <2>1
  <2> QED
    BY <2>1, <2>2, <2>3 DEF Bytes
<1> QED
  BY <1>1, <1>2, <1>3 DEF Field

\* Every field lies in the buffer the decoders read.
LEMMA FieldIsHeld ==
    ASSUME WireType, Layout, NEW i \in 1 .. Len(fields)
    PROVE  /\ fields[i] \in Field
           /\ Holds(Buffer, fields[i].start, FieldBytes(i))
           /\ Len(FieldBytes(i)) <= BufferSize
<1>1. fields[i] \in Field /\ wire \in Seq(Byte) /\ Len(wire) <= BufferSize
  BY DEF WireType
<1>2. fields[i].start \in Nat /\ FieldBytes(i) \in Seq(Byte)
  BY <1>1, FieldType DEF FieldBytes
<1>3. /\ fields[i].start + Len(FieldBytes(i)) <= Len(wire)
      /\ Holds(wire, fields[i].start, FieldBytes(i))
  BY DEF Layout, End
<1>4. Len(FieldBytes(i)) \in Nat
  BY <1>2
<1>5. Holds(Source(wire, junk), fields[i].start, FieldBytes(i))
  BY <1>1, <1>2, <1>3, <1>4, SourceHolds
<1>6. Len(FieldBytes(i)) <= BufferSize
  <2>1. BufferSize \in Nat /\ Len(wire) \in Nat
    BY <1>1, Encoded
  <2> QED
    BY <1>1, <1>2, <1>3, <1>4, <2>1
<1> QED
  BY <1>1, <1>5, <1>6 DEF Buffer

\* What was read is a sequence.
LEMMA ReadIsSequence ==
    ASSUME WireType
    PROVE  read \in Seq(U32 \cup Seq(Byte))
<1>1. \A i \in 1 .. Len(read) : read[i] \in U32 \cup Seq(Byte)
  BY DEF WireType, Decodes
<1>2. Len(read) \in Nat /\ read = [i \in 1 .. Len(read) |-> read[i]]
  BY DEF WireType
<1> QED
  BY <1>1, <1>2

\* The types the runs check.
LEMMA WireTypeSuffices == WireType => TypeOK
<1> SUFFICES ASSUME WireType PROVE TypeOK
  OBVIOUS
<1>1. ASSUME NEW i \in 1 .. Len(fields)
      PROVE  /\ fields[i].kind \in {"u32", "u64", "string", "bytes"}
             /\ fields[i].value \in Encodes(fields[i].kind)
             /\ fields[i].start \in Nat
  <2>1. fields[i] \in Field
    BY DEF WireType
  <2> QED
    BY <2>1, FieldType DEF Encodes
<1>2. Len(read) <= Len(fields)
  BY DEF WireType
<1> QED
  BY <1>1, <1>2, Zenon DEF WireType, TypeOK

\* A field keeps the invariant if its bytes come first of what is put, and are all
\* of it unless padding follows, and if it ends at a word whenever it starts at one
\* and, being a vector, is whole words.
LEMMA PutKeepsInv ==
    ASSUME NEW kind, NEW value, NEW bytes \in Seq(Byte),
           [kind |-> kind, value |-> value, start |-> Len(wire)] \in Field,
           WireIInv, Put(kind, value, bytes),
           \/ (Len(wire) + Len(bytes)) % WordBytes = 0
           \/ Len(wire) % WordBytes # 0
           \/ kind = "bytes" /\ Len(value) % WordBytes # 0,
           Len(Bytes(kind, value)) <= Len(bytes), Holds(bytes, 0, Bytes(kind, value)),
           \/ Len(bytes) = Len(Bytes(kind, value))
           \/ kind = "string" /\ (Len(wire) + WordBytes + Len(value)) % WordBytes # 0
    PROVE  WireIInv'
<1> DEFINE f == [kind |-> kind, value |-> value, start |-> Len(wire)]
<1>0. PICK n \in Nat : n = Len(fields)
  <2>1. fields \in Seq(Field)
    BY DEF WireIInv, WireType
  <2> QED
    BY <2>1
<1>1. /\ wire \in Seq(Byte) /\ Len(wire) \in Nat /\ Len(wire) >= WordBytes
      /\ fields \in Seq(Field) /\ BufferSize \in Nat /\ Len(bytes) \in Nat
  BY Encoded DEF WireIInv, WireType
<1>2. /\ wire' = wire \o bytes
      /\ fields' = Append(fields, f)
      /\ Len(wire) + Len(bytes) <= BufferSize
      /\ stage = "encode" /\ stage' = "encode"
      /\ UNCHANGED <<junk, announced, offset, read>>
  BY DEF Put
<1>3. wire \o bytes \in Seq(Byte) /\ Len(wire \o bytes) = Len(wire) + Len(bytes)
  BY <1>1, ConcatBytes, Zenon
<1>4. wire' \in Seq(Byte) /\ Len(wire') = Len(wire) + Len(bytes)
  BY <1>2, <1>3, Zenon
<1>5. f \in Field /\ f.kind = kind /\ f.value = value /\ f.start = Len(wire)
  OBVIOUS
<1> HIDE DEF f
<1>6. /\ fields' \in Seq(Field)
      /\ Len(fields') = n + 1
      /\ \A i \in 1 .. n : fields'[i] = fields[i]
      /\ fields'[n + 1] = f
  BY <1>0, <1>1, <1>2, <1>5
<1>7. /\ 1 .. n \subseteq 1 .. Len(fields') /\ n + 1 \in 1 .. Len(fields')
      /\ \A i \in 1 .. Len(fields') : i \in 1 .. n \/ i = n + 1
  BY <1>6
<1>8. read = <<>> /\ read' = <<>>
  BY <1>2 DEF WireIInv, WireType
<1>9. WireType'
  <2>1. /\ junk' \in Byte /\ announced' \in U32 /\ offset' \in Nat
        /\ stage' \in {"encode", "decode", "failed"}
    BY <1>2 DEF WireIInv, WireType
  <2>2. /\ read' = [i \in 1 .. Len(read') |-> read'[i]]
        /\ Len(read') \in 0 .. Len(fields')
        /\ \A i \in 1 .. Len(read') : read'[i] \in Decodes(fields'[i].kind)
    BY <1>1, <1>6, <1>8
  <2>3. Len(wire') \in WordBytes .. BufferSize
    BY <1>1, <1>2, <1>4
  <2> QED
    BY <1>4, <1>6, <1>8, <2>1, <2>2, <2>3 DEF WireType
<1>10. MarkIsTruthful' /\ InStep'
  BY <1>2 DEF MarkIsTruthful, InStep
<1>11. ReadsBack'
  BY <1>8 DEF ReadsBack
<1>12. WholeWords'
  <2> SUFFICES ASSUME \A i \in 1 .. Len(fields') : fields'[i].kind = "bytes"
                         => Len(fields'[i].value) % WordBytes = 0
               PROVE  /\ \A i \in 1 .. Len(fields') :
                            fields'[i].start % WordBytes = 0
                      /\ Len(wire') % WordBytes = 0
    BY DEF WholeWords
  <2>1. \A i \in 1 .. n : fields[i].kind = "bytes"
            => Len(fields[i].value) % WordBytes = 0
    BY <1>6, <1>7
  <2>2. /\ \A i \in 1 .. n : fields[i].start % WordBytes = 0
        /\ Len(wire) % WordBytes = 0
    BY <1>0, <2>1 DEF WireIInv, WholeWords
  <2>3. kind = "bytes" => Len(value) % WordBytes = 0
    BY <1>5, <1>6, <1>7
  <2>4. (Len(wire) + Len(bytes)) % WordBytes = 0
    BY <2>2, <2>3
  <2> QED
    BY <1>4, <1>5, <1>6, <1>7, <2>2, <2>4
<1>13. Start(1)' = WordBytes
  <2>1. Start(1) = WordBytes
    BY DEF WireIInv, Layout
  <2>2. CASE n = 0
    <3>1. Len(wire) = WordBytes
      BY <1>0, <2>1, <2>2 DEF Start
    <3>2. Len(fields') = 1 /\ fields'[1].start = Len(wire)
      BY <1>5, <1>6, <2>2
    <3> QED
      BY <3>1, <3>2 DEF Start
  <2>3. CASE n # 0
    <3>1. 1 \in 1 .. n
      BY <1>0, <1>1, <2>3
    <3> QED
      BY <1>0, <1>6, <2>1, <3>1 DEF Start
  <2> QED
    BY <2>2, <2>3
<1>14. ASSUME NEW i \in 1 .. n
       PROVE  /\ fields'[i].start >= WordBytes
              /\ End(i)' <= Len(wire')
              /\ Holds(wire, fields[i].start, FieldBytes(i))'
              /\ Unpadded(i)' => Start(i + 1)' = End(i)'
  <2>1. fields'[i] = fields[i] /\ fields[i] \in Field
    BY <1>0, <1>1, <1>6
  <2>2. /\ FieldBytes(i)' = FieldBytes(i)
        /\ End(i)' = End(i)
        /\ Unpadded(i)' = Unpadded(i)
    BY <2>1 DEF FieldBytes, Bytes, End, Unpadded
  <2>3. /\ fields[i].start >= WordBytes
        /\ fields[i].start + Len(FieldBytes(i)) <= Len(wire)
        /\ Holds(wire, fields[i].start, FieldBytes(i))
        /\ Unpadded(i) => Start(i + 1) = End(i)
    BY <1>0 DEF WireIInv, Layout, End
  <2>4. Len(FieldBytes(i)) \in Nat /\ fields[i].start \in Nat
    BY <2>1, FieldType DEF FieldBytes
  <2>5. Holds(wire \o bytes, fields[i].start, FieldBytes(i))
    BY <1>1, <2>3, <2>4, HoldsGrown
  <2>6. Start(i + 1)' = Start(i + 1)
    <3>1. CASE i = n
      <4>1. i + 1 <= Len(fields') /\ ~ (i + 1 <= Len(fields)) /\ i + 1 = n + 1
        BY <1>0, <1>1, <1>6, <3>1
      <4> QED
        BY <1>0, <1>5, <1>6, <4>1 DEF Start
    <3>2. CASE i # n
      <4>1. i + 1 <= Len(fields') /\ i + 1 <= Len(fields) /\ i + 1 \in 1 .. n
        BY <1>0, <1>1, <1>6, <3>2
      <4> QED
        BY <1>0, <1>6, <4>1 DEF Start
    <3> QED
      BY <3>1, <3>2
  <2>7. End(i) <= Len(wire')
    <3>1. \A e \in Nat : e <= Len(wire) => e <= Len(wire) + Len(bytes)
      BY <1>1
    <3>2. End(i) \in Nat /\ End(i) <= Len(wire)
      BY <2>3, <2>4 DEF End
    <3> QED
      BY <1>4, <3>1, <3>2, Zenon
  <2>8. /\ fields'[i].start >= WordBytes
        /\ End(i)' <= Len(wire')
        /\ Unpadded(i)' => Start(i + 1)' = End(i)'
    BY <2>1, <2>2, <2>3, <2>6, <2>7, Zenon
  <2>9. Holds(wire, fields[i].start, FieldBytes(i))'
    BY <1>2, <2>1, <2>2, <2>5, Zenon DEF Holds
  <2> QED
    BY <2>8, <2>9, Zenon
<1>15. /\ fields'[n + 1].start >= WordBytes
       /\ End(n + 1)' <= Len(wire')
       /\ Holds(wire, fields[n + 1].start, FieldBytes(n + 1))'
       /\ Unpadded(n + 1)' => Start(n + 2)' = End(n + 1)'
  <2>1. FieldBytes(n + 1)' = Bytes(kind, value)
    BY <1>5, <1>6 DEF FieldBytes, Bytes
  <2>2. End(n + 1)' = Len(wire) + Len(Bytes(kind, value))
    BY <1>5, <1>6, <2>1 DEF End
  <2>3. Bytes(kind, value) \in Seq(Byte) /\ Len(Bytes(kind, value)) \in Nat
    BY <1>5, FieldType
  <2>4. Holds(wire \o bytes, Len(wire), Bytes(kind, value))
    <3>1. Holds(wire \o bytes, Len(wire), bytes)
      BY <1>1, HoldsBehind
    <3> SUFFICES ASSUME NEW i \in 1 .. Len(Bytes(kind, value))
                 PROVE  (wire \o bytes)[Len(wire) + i] = Bytes(kind, value)[i]
      BY DEF Holds
    <3>2. i \in 1 .. Len(bytes) /\ 0 + i = i
      BY <1>0, <1>1, <2>3
    <3> QED
      BY <3>1, <3>2 DEF Holds
  <2>5. Start(n + 2)' = Len(wire) + Len(bytes)
    BY <1>1, <1>4, <1>6 DEF Start
  <2>6. Unpadded(n + 1)' => Len(bytes) = Len(Bytes(kind, value))
    BY <1>5, <1>6 DEF Unpadded
  <2>7. Len(Bytes(kind, value)) <= Len(bytes) /\ fields'[n + 1].start = Len(wire)
    BY <1>5, <1>6
  <2>8. End(n + 1)' <= Len(wire') /\ fields'[n + 1].start >= WordBytes
    BY <1>1, <1>4, <2>2, <2>3, <2>7
  <2> QED
    BY <1>2, <2>1, <2>2, <2>4, <2>5, <2>6, <2>7, <2>8
<1>16. Layout'
  <2>1. ASSUME NEW i \in 1 .. Len(fields')
        PROVE  /\ fields'[i].start >= WordBytes
               /\ End(i)' <= Len(wire')
               /\ Holds(wire, fields[i].start, FieldBytes(i))'
               /\ Unpadded(i)' => Start(i + 1)' = End(i)'
    <3>1. CASE i \in 1 .. n
      BY <1>14, <3>1
    <3>2. CASE i = n + 1
      <4>1. i + 1 = n + 2
        BY <1>1, <3>2
      <4> QED
        BY <1>15, <3>2, <4>1
    <3> QED
      BY <1>7, <3>1, <3>2
  <2> QED
    BY <1>13, <2>1, Zenon DEF Layout
<1> QED
  BY <1>9, <1>10, <1>11, <1>12, <1>16 DEF WireIInv

\* Sealing puts the mark into the first word and leaves the fields alone.
LEMMA SealKeepsInv ==
    ASSUME WireIInv, Seal
    PROVE  WireIInv'
<1> DEFINE mark == LastFragment(EncodeU32(MarkSize))
<1>0. /\ wire \in Seq(Byte) /\ Len(wire) \in Nat /\ Len(wire) >= 4
      /\ fields \in Seq(Field)
  BY DEF WireIInv, WireType
<1>1. MarkSize = Len(wire) - 4 /\ MarkSize \in 0 .. HighBit * (Base * Base * Base) - 1
  <2> DEFINE limit == HighBit * (Base * Base * Base)
  <2>1. limit \in Nat /\ BufferSize \in Nat /\ BufferSize <= limit - 1
    BY Encoded, BaseType
  <2>2. Len(wire) <= BufferSize
    BY DEF WireIInv, WireType
  <2> HIDE DEF limit
  <2>3. MarkSize = Len(wire) - 4 /\ MarkSize \in 0 .. limit - 1
    BY <1>0, <2>1, <2>2 DEF MarkSize
  <2> QED
    BY <2>3 DEF limit
<1>2. /\ mark \in Seq(Byte) /\ Len(mark) = 4
      /\ DecodeU32(StripLastFragment(mark), 0) = MarkSize
  BY <1>1, MarkRoundTrip
<1> HIDE DEF mark
<1>3. /\ wire' = [i \in 1 .. Len(wire) |-> IF i <= 4 THEN mark[i] ELSE wire[i]]
      /\ announced' = DecodeU32(StripLastFragment(mark), 0)
      /\ offset' = 4 /\ stage = "encode" /\ stage' = "decode"
      /\ fields' = fields /\ junk' = junk /\ read' = read
  BY DEF Seal, mark
<1>4. \A i \in 1 .. 4 : mark[i] \in Byte
  BY <1>2, ByteOfSequence, Zenon
<1>5. \A i \in 1 .. Len(wire) : (IF i <= 4 THEN mark[i] ELSE wire[i]) \in Byte
  BY <1>0, <1>4
<1>6. wire' \in Seq(Byte) /\ Len(wire') = Len(wire)
  BY <1>0, <1>3, <1>5
<1>7. read = <<>>
  BY <1>3 DEF WireIInv, WireType
<1>8. WireType'
  <2>1. announced' \in U32
    BY <1>1, <1>2, <1>3, HighByteOfSize
  <2>2. /\ read' = [i \in 1 .. Len(read') |-> read'[i]]
        /\ Len(read') \in 0 .. Len(fields')
        /\ \A i \in 1 .. Len(read') : read'[i] \in Decodes(fields'[i].kind)
    BY <1>0, <1>3, <1>7
  <2>3. Len(wire') \in WordBytes .. BufferSize /\ junk' \in Byte
    BY <1>3, <1>6 DEF WireIInv, WireType
  <2> QED
    BY <1>0, <1>3, <1>6, <2>1, <2>2, <2>3 DEF WireType
<1>9. WholeWords'
  BY <1>3, <1>6 DEF WireIInv, WholeWords
<1>10. MarkIsTruthful'
  BY <1>1, <1>2, <1>3, <1>6 DEF MarkIsTruthful
<1>11. \A i : Start(i)' = Start(i) /\ End(i)' = End(i) /\ FieldBytes(i)' = FieldBytes(i)
               /\ Unpadded(i)' = Unpadded(i)
  BY <1>3, <1>6 DEF Start, End, FieldBytes, Unpadded
<1>12. ASSUME NEW i \in 1 .. Len(fields)
       PROVE  /\ fields'[i].start >= WordBytes
              /\ End(i)' <= Len(wire')
              /\ Holds(wire, fields[i].start, FieldBytes(i))'
              /\ Unpadded(i)' => Start(i + 1)' = End(i)'
  <2>1. /\ fields[i].start >= WordBytes
        /\ fields[i].start + Len(FieldBytes(i)) <= Len(wire)
        /\ Holds(wire, fields[i].start, FieldBytes(i))
        /\ Unpadded(i) => Start(i + 1) = End(i)
    BY DEF WireIInv, Layout, End
  <2>2. fields[i].start \in Nat /\ Len(FieldBytes(i)) \in Nat
    BY <1>0, FieldType DEF FieldBytes
  <2>3. ASSUME NEW j \in 1 .. Len(FieldBytes(i))
        PROVE  wire'[fields[i].start + j] = FieldBytes(i)[j]
    <3>1. fields[i].start + j \in 1 .. Len(wire) /\ ~ (fields[i].start + j <= 4)
      BY <1>0, <2>1, <2>2
    <3>2. wire'[fields[i].start + j] = wire[fields[i].start + j]
      BY <1>3, <3>1
    <3> QED
      BY <2>1, <3>2 DEF Holds
  <2>4. Holds(wire', fields[i].start, FieldBytes(i))
    BY <2>3 DEF Holds
  <2> QED
    BY <1>3, <1>6, <1>11, <2>1, <2>4 DEF End
<1>13. Layout'
  <2>1. Start(1)' = WordBytes
    BY <1>11 DEF WireIInv, Layout
  <2> QED
    BY <1>3, <1>12, <2>1 DEF Layout
<1>14. InStep'
  <2>1. Len(read') + 1 = 1
    BY <1>3, <1>7
  <2>2. Start(1)' = WordBytes
    BY <1>13 DEF Layout
  <2> QED
    BY <1>3, <2>1, <2>2 DEF InStep
<1>15. ReadsBack'
  BY <1>3, <1>7 DEF ReadsBack
<1> QED
  BY <1>8, <1>9, <1>10, <1>13, <1>14, <1>15 DEF WireIInv

\* A decoder keeps the invariant if, started where the next field starts, it gives
\* back the field and stops where that ends.
LEMMA GotKeepsInv ==
    ASSUME WireIInv, stage = "decode",
           NEW n \in Nat, n = Len(read) + 1, n <= Len(fields),
           NEW value \in Decodes(fields[n].kind), NEW next \in Nat, Got(value, next),
           offset = fields[n].start => value = ReadAs(fields[n]) /\ next = End(n)
    PROVE  WireIInv'
<1>1. /\ read' = Append(read, value) /\ offset' = next
      /\ wire' = wire /\ junk' = junk /\ fields' = fields
      /\ announced' = announced /\ stage' = stage
  BY DEF Got
<1>2. read \in Seq(U32 \cup Seq(Byte)) /\ value \in U32 \cup Seq(Byte)
  BY ReadIsSequence DEF WireIInv, Decodes
<1>3. fields \in Seq(Field) /\ Len(fields) \in Nat
  <2>1. fields \in Seq(Field)
    BY DEF WireIInv, WireType
  <2> QED
    BY <2>1
<1>4. /\ read' \in Seq(U32 \cup Seq(Byte))
      /\ Len(read') = n
      /\ \A i \in 1 .. n - 1 : read'[i] = read[i]
      /\ read'[n] = value
  BY <1>1, <1>2
<1>5. /\ n \in 1 .. n /\ n \in 1 .. Len(fields)
      /\ Len(read) = n - 1
      /\ \A i \in 1 .. n : i \in 1 .. n - 1 \/ i = n
      /\ 1 .. n - 1 \subseteq 1 .. n
  BY <1>2, <1>3
<1>6. WireType'
  <2>1. read' = [i \in 1 .. Len(read') |-> read'[i]]
    BY <1>4
  <2>2. Len(read') \in 0 .. Len(fields')
    BY <1>1, <1>3, <1>4
  <2>3. \A i \in 1 .. Len(read') : read'[i] \in Decodes(fields'[i].kind)
    <3>1. \A i \in 1 .. n - 1 : read[i] \in Decodes(fields[i].kind)
      BY <1>5 DEF WireIInv, WireType
    <3> QED
      BY <1>1, <1>4, <1>5, <3>1
  <2> QED
    BY <1>1, <2>1, <2>2, <2>3 DEF WireIInv, WireType
<1>7. MarkIsTruthful' /\ WholeWords'
  BY <1>1 DEF WireIInv, MarkIsTruthful, WholeWords
<1>8. \A i : Start(i)' = Start(i) /\ End(i)' = End(i) /\ FieldBytes(i)' = FieldBytes(i)
              /\ Unpadded(i)' = Unpadded(i)
  BY <1>1 DEF Start, End, FieldBytes, Unpadded
<1>9. Layout'
  BY <1>1, <1>8 DEF WireIInv, Layout
<1>10. (\A i \in 1 .. n - 1 : Unpadded(i)) => offset = fields[n].start
  <2>1. Start(n) = fields[n].start
    BY <1>5 DEF Start
  <2> QED
    BY <1>5, <2>1 DEF WireIInv, InStep
<1>11. InStep'
  <2> SUFFICES ASSUME \A i \in 1 .. n : Unpadded(i)
               PROVE  offset' = Start(n + 1)'
    BY <1>4, <1>8 DEF InStep
  <2>1. next = End(n)
    BY <1>5, <1>10
  <2>2. Start(n + 1) = End(n)
    BY <1>5 DEF WireIInv, Layout
  <2> QED
    BY <1>1, <1>8, <2>1, <2>2
<1>12. ReadsBack'
  <2> SUFFICES ASSUME NEW i \in 1 .. n, \A j \in 1 .. i - 1 : Unpadded(j)
               PROVE  read'[i] = ReadAs(fields[i])
    BY <1>1, <1>4, <1>8 DEF ReadsBack, ReadAs
  <2>1. CASE i = n
    BY <1>4, <1>10, <2>1
  <2>2. CASE i # n
    <3>1. i \in 1 .. n - 1
      BY <2>2
    <3> QED
      BY <1>4, <1>5, <3>1 DEF WireIInv, ReadsBack
  <2> QED
    BY <2>1, <2>2
<1> QED
  BY <1>6, <1>7, <1>9, <1>11, <1>12 DEF WireIInv

\* A decoder that returns -1 ends the decoding.
LEMMA GotNothingKeepsInv ==
    ASSUME WireIInv, GotNothing, stage # "encode"
    PROVE  WireIInv'
<1>1. /\ wire' = wire /\ junk' = junk /\ fields' = fields /\ read' = read
      /\ announced' = announced /\ stage' = "failed" /\ offset' = offset + 4
  BY DEF GotNothing
<1>2. offset' \in Nat
  BY <1>1 DEF WireIInv, WireType
<1>3. WireType'
  BY <1>1, <1>2 DEF WireIInv, WireType
<1>4. Layout'
  BY <1>1 DEF WireIInv, Layout, Start, End, FieldBytes, Unpadded
<1>5. MarkIsTruthful' /\ WholeWords' /\ InStep'
  BY <1>1 DEF WireIInv, MarkIsTruthful, WholeWords, InStep
<1>6. ReadsBack'
  BY <1>1 DEF WireIInv, ReadsBack, Unpadded
<1> QED
  BY <1>3, <1>4, <1>5, <1>6 DEF WireIInv

\* The encoders.
LEMMA PutsKeepInv ==
    ASSUME WireIInv
    PROVE  /\ \A w \in Words : PutU32(w) => WireIInv'
           /\ \A v \in Longs : PutU64(v) => WireIInv'
           /\ \A s \in Texts : PutString(s) => WireIInv'
           /\ \A h \in Handles : PutBytes(h) => WireIInv'
<1>0. wire \in Seq(Byte) /\ Len(wire) \in Nat
  BY DEF WireIInv, WireType
<1>1. ASSUME NEW w \in Words, PutU32(w) PROVE WireIInv'
  <2>1. EncodeU32(w) \in Seq(Byte) /\ Len(EncodeU32(w)) = 4 /\ w \in U32
    BY Encoded, EncodeU32Type DEF U32
  <2>2. \/ (Len(wire) + Len(EncodeU32(w))) % 4 = 0
        \/ Len(wire) % 4 # 0
    BY <1>0, <2>1
  <2>3. Bytes("u32", w) = EncodeU32(w)
    BY DEF Bytes
  <2>4. [kind |-> "u32", value |-> w, start |-> Len(wire)] \in Field
    BY <1>0, <2>1 DEF Field
  <2>5. Holds(EncodeU32(w), 0, EncodeU32(w)) /\ Len(EncodeU32(w)) <= Len(EncodeU32(w))
    BY <2>1, HoldsItself
  <2> QED
    BY <1>1, <2>1, <2>2, <2>3, <2>4, <2>5, PutKeepsInv DEF PutU32
<1>2. ASSUME NEW v \in Longs, PutU64(v) PROVE WireIInv'
  <2>1. EncodeU64(v) \in Seq(Byte) /\ Len(EncodeU64(v)) = 8 /\ v \in U64
    BY Encoded, EncodeU64Type
  <2>2. \/ (Len(wire) + Len(EncodeU64(v))) % 4 = 0
        \/ Len(wire) % 4 # 0
    BY <1>0, <2>1
  <2>3. Bytes("u64", v) = EncodeU64(v)
    BY DEF Bytes
  <2>4. [kind |-> "u64", value |-> v, start |-> Len(wire)] \in Field
    BY <1>0, <2>1 DEF Field
  <2>5. Holds(EncodeU64(v), 0, EncodeU64(v)) /\ Len(EncodeU64(v)) <= Len(EncodeU64(v))
    BY <2>1, HoldsItself
  <2> QED
    BY <1>2, <2>1, <2>2, <2>3, <2>4, <2>5, PutKeepsInv DEF PutU64
<1>3. ASSUME NEW s \in Texts, PutString(s) PROVE WireIInv'
  <2> DEFINE bytes == EncodeBytes(s)
             n == Len(wire) + Len(bytes)
             padding == Padding(n, WordBytes)
             zeros == Zeros(padding)
  <2>1. /\ bytes \in Seq(Byte) /\ Len(bytes) = 4 + Len(s) /\ s \in Seq(Byte)
        /\ Bytes("string", s) = bytes
    BY Encoded, EncodeBytesType DEF Bytes
  <2>2. Put("string", s, bytes \o zeros)
    BY <1>3 DEF PutString
  <2>3. [kind |-> "string", value |-> s, start |-> Len(wire)] \in Field
    BY <1>0, <2>1 DEF Field
  <2> HIDE DEF bytes
  <2>4. n \in Nat
    BY <1>0, <2>1
  <2>5. /\ padding \in 0 .. WordBytes - 1 /\ (n + padding) % WordBytes = 0
        /\ n % WordBytes = 0 => padding = 0
    <3> HIDE DEF n
    <3> QED
      BY <2>4, PaddingAligns DEF Padding
  <2> HIDE DEF padding
  <2>6. zeros \in Seq(Byte) /\ Len(zeros) = padding
    BY <2>5, ZerosType
  <2> HIDE DEF zeros
  <2>7. /\ bytes \o zeros \in Seq(Byte)
        /\ Len(bytes \o zeros) = Len(bytes) + padding
        /\ Holds(bytes \o zeros, 0, bytes)
    BY <2>1, <2>6, ConcatBytes, HoldsBehind
  <2>8. (Len(wire) + Len(bytes \o zeros)) % 4 = 0 /\ Len(bytes) <= Len(bytes \o zeros)
    BY <1>0, <2>1, <2>5, <2>7
  <2>9. \/ Len(bytes \o zeros) = Len(bytes)
        \/ (Len(wire) + 4 + Len(s)) % 4 # 0
    BY <1>0, <2>1, <2>5, <2>7
  <2> QED
    BY <2>1, <2>2, <2>3, <2>7, <2>8, <2>9, PutKeepsInv
<1>4. ASSUME NEW h \in Handles, PutBytes(h) PROVE WireIInv'
  <2>1. /\ EncodeBytes(h) \in Seq(Byte) /\ h \in Seq(Byte)
        /\ Len(EncodeBytes(h)) = 4 + Len(h)
    BY Encoded, EncodeBytesType
  <2>2. \/ (Len(wire) + Len(EncodeBytes(h))) % 4 = 0
        \/ Len(wire) % 4 # 0
        \/ Len(h) % 4 # 0
    BY <1>0, <2>1
  <2>3. Bytes("bytes", h) = EncodeBytes(h)
    BY DEF Bytes
  <2>4. [kind |-> "bytes", value |-> h, start |-> Len(wire)] \in Field
    BY <1>0, <2>1 DEF Field
  <2>5. Holds(EncodeBytes(h), 0, EncodeBytes(h)) /\ Len(EncodeBytes(h)) <= Len(EncodeBytes(h))
    BY <2>1, HoldsItself
  <2> QED
    BY <1>4, <2>1, <2>2, <2>3, <2>4, <2>5, PutKeepsInv DEF PutBytes
<1> QED
  BY <1>1, <1>2, <1>3, <1>4

\* The decoders.
LEMMA GetsKeepInv ==
    ASSUME WireIInv, GetU32 \/ GetU64 \/ GetBytes \/ GetString
    PROVE  WireIInv'
<1>1. PICK n \in Nat : n = Len(read) + 1
  BY DEF WireIInv, WireType
<1>2. /\ stage = "decode" /\ n <= Len(fields) /\ n \in 1 .. Len(fields)
      /\ \A kind : Expected(kind) => fields[n].kind = kind
  <2>1. \E kind : Expected(kind)
    BY DEF GetU32, GetU64, GetBytes, GetString
  <2>2. stage = "decode" /\ Len(read) < Len(fields)
    BY <2>1 DEF Expected
  <2>3. fields \in Seq(Field) /\ Len(read) \in Nat
    BY DEF WireIInv, WireType
  <2>4. Len(fields) \in Nat
    BY <2>3
  <2> QED
    BY <1>1, <2>2, <2>3, <2>4 DEF Expected
<1>3. /\ fields[n] \in Field
      /\ Holds(Buffer, fields[n].start, FieldBytes(n))
      /\ Len(FieldBytes(n)) <= BufferSize
      /\ fields[n].start \in Nat
  BY <1>2, FieldIsHeld, FieldType DEF WireIInv
<1>4. \A i \in Nat \ {0} : Buffer[i] \in Byte
  BY SourceType DEF WireIInv, WireType, Buffer
<1>5. offset \in Nat
  BY DEF WireIInv, WireType
<1>6. CASE GetU32
  <2>1. fields[n].kind = "u32" /\ Got(DecodeU32(Buffer, offset), offset + 4)
    BY <1>2, <1>6 DEF GetU32
  <2>2. /\ fields[n].value \in U32 /\ FieldBytes(n) = EncodeU32(fields[n].value)
        /\ Len(FieldBytes(n)) = 4
    BY <1>3, <2>1, FieldType DEF FieldBytes
  <2>3. DecodeU32(Buffer, offset) \in Decodes(fields[n].kind)
    BY <1>4, <1>5, <2>1, DecodeU32Type DEF Decodes
  <2>4. offset = fields[n].start =>
          DecodeU32(Buffer, offset) = ReadAs(fields[n]) /\ offset + 4 = End(n)
    BY <1>3, <2>1, <2>2, WordIsRead DEF ReadAs, End
  <2>5. offset + 4 \in Nat
    BY <1>5
  <2> QED
    BY <1>1, <1>2, <2>1, <2>3, <2>4, <2>5, GotKeepsInv
<1>7. CASE GetU64
  <2>1. fields[n].kind = "u64" /\ Got(DecodeU64(Buffer, offset), offset + 2 * 4)
    BY <1>2, <1>7 DEF GetU64
  <2>2. /\ fields[n].value \in U64 /\ FieldBytes(n) = EncodeU64(fields[n].value)
        /\ Len(FieldBytes(n)) = 8
    BY <1>3, <2>1, FieldType DEF FieldBytes
  <2>3. DecodeU64(Buffer, offset) \in Decodes(fields[n].kind)
    BY <1>4, <1>5, <2>1, DecodeU64Type DEF Decodes
  <2>4. offset = fields[n].start =>
          DecodeU64(Buffer, offset) = ReadAs(fields[n]) /\ offset + 2 * 4 = End(n)
    BY <1>3, <2>1, <2>2, LongIsRead DEF ReadAs, End
  <2>5. offset + 2 * 4 \in Nat
    BY <1>5
  <2> QED
    BY <1>1, <1>2, <2>1, <2>3, <2>4, <2>5, GotKeepsInv
<1>8. CASE GetBytes \/ GetString
  <2>1. fields[n].kind \in {"string", "bytes"} /\ (GotOpaque \/ GotNothing)
    BY <1>2, <1>8 DEF GetBytes, GetString
  <2>2. CASE GotOpaque
    <3> DEFINE length == DecodeU32(Buffer, offset)
    <3>1. Got(Opaque(Buffer, offset), offset + 4 + length)
      BY <2>2 DEF GotOpaque
    <3>2. /\ fields[n].value \in Seq(Byte)
          /\ FieldBytes(n) = EncodeBytes(fields[n].value)
          /\ Len(FieldBytes(n)) = 4 + Len(fields[n].value)
      BY <1>3, <2>1, FieldType DEF FieldBytes
    <3>3. Len(fields[n].value) \in U32
      <4>1. Len(fields[n].value) \in 0 .. BufferSize
        BY <1>3, <3>2, Encoded
      <4> QED
        BY <4>1, SizeFits
    <3>4. Opaque(Buffer, offset) \in Decodes(fields[n].kind) /\ length \in Nat
      <4>1. Opaque(Buffer, offset) \in Seq(Byte)
        BY <1>4, <1>5, OpaqueType
      <4>2. length \in U32
        BY <1>4, <1>5, DecodeU32Type
      <4> QED
        BY <2>1, <4>1, <4>2 DEF Decodes, U32
    <3>5. offset = fields[n].start =>
            Opaque(Buffer, offset) = fields[n].value /\ length = Len(fields[n].value)
      BY <1>3, <1>5, <3>2, <3>3, OpaqueRoundTrip
    <3> HIDE DEF length
    <3>6. offset = fields[n].start =>
            Opaque(Buffer, offset) = ReadAs(fields[n]) /\ offset + 4 + length = End(n)
      <4>1. ReadAs(fields[n]) = fields[n].value
        BY <2>1 DEF ReadAs
      <4>2. End(n) = fields[n].start + (4 + Len(fields[n].value))
        BY <3>2 DEF End
      <4>3. \A a, l \in Nat : a + 4 + l = a + (4 + l)
        OBVIOUS
      <4>4. Len(fields[n].value) \in Nat /\ fields[n].start \in Nat
        BY <1>3, <3>2
      <4>5. End(n) = fields[n].start + 4 + Len(fields[n].value)
        BY <4>2, <4>3, <4>4, Zenon
      <4> QED
        BY <3>5, <4>1, <4>5, Zenon
    <3>7. offset + 4 + length \in Nat
      BY <1>5, <3>4
    <3> QED
      BY <1>1, <1>2, <3>1, <3>4, <3>6, <3>7, GotKeepsInv
  <2>3. CASE GotNothing
    BY <1>2, <2>3, GotNothingKeepsInv
  <2> QED
    BY <2>1, <2>2, <2>3
<1> QED
  BY <1>6, <1>7, <1>8

\* The invariant holds at the start and after every step.
LEMMA WireInvariance == Spec => []WireIInv
<1>1. Init => WireIInv
  <2> SUFFICES ASSUME Init PROVE WireIInv
    OBVIOUS
  <2>1. wire \in Seq(Byte) /\ Len(wire) = WordBytes
    BY ZerosType DEF Init
  <2>2. /\ fields = <<>> /\ read = <<>> /\ announced = 0 /\ offset = 0
        /\ stage = "encode" /\ junk \in {0, Base - 1}
    BY DEF Init
  <2>3. WireType
    <3>1. announced \in U32 /\ junk \in Byte
      BY <2>2, SizeFits, Encoded, BaseType DEF Byte
    <3> QED
      BY <2>1, <2>2, <3>1, Encoded DEF WireType
  <2>4. WholeWords /\ Layout
    BY <2>1, <2>2 DEF WholeWords, Layout, Start
  <2>5. MarkIsTruthful /\ InStep /\ ReadsBack
    BY <2>2 DEF MarkIsTruthful, InStep, ReadsBack
  <2> QED
    BY <2>3, <2>4, <2>5 DEF WireIInv
<1>2. WireIInv /\ [Next]_vars => WireIInv'
  <2> SUFFICES ASSUME WireIInv, [Next]_vars PROVE WireIInv'
    OBVIOUS
  <2>1. CASE UNCHANGED vars
    BY <2>1 DEF vars, WireIInv, WireType, MarkIsTruthful, WholeWords, Layout, InStep,
                ReadsBack, Start, End, FieldBytes, Unpadded
  <2> QED
    BY <2>1, PutsKeepInv, SealKeepsInv, GetsKeepInv DEF Next
<1> QED
  BY <1>1, <1>2, PTL DEF Spec

\* Every variable keeps its type, whatever is encoded, and also when a decoder
\* starts at the wrong place (xdr.cpp:5-140).
THEOREM XdrTypeCorrect == Spec => []TypeOK
<1>1. WireIInv => TypeOK
  BY WireTypeSuffices DEF WireIInv
<1> QED
  BY <1>1, WireInvariance, PTL

\* Whatever fields a message has, in any order and of any sizes, the decoders give
\* them back up to the first padding, but for the high halves of uint64_t values
\* (xdr.cpp:78-140).
THEOREM ReadsBackHolds == Spec => []ReadsBack
<1>1. WireIInv => ReadsBack
  BY DEF WireIInv
<1> QED
  BY <1>1, WireInvariance, PTL

\* The receiver learns the size of the message from its mark, whatever the
\* fields and their values (Mount.cpp:52-53, Context.cpp:170-171).
THEOREM MarkIsTruthfulHolds == Spec => []MarkIsTruthful
<1>1. WireIInv => MarkIsTruthful
  BY DEF WireIInv
<1> QED
  BY <1>1, WireInvariance, PTL

\* Fields start at words and messages end at one, in messages of any length,
\* as long as the vectors are whole words (xdr.cpp:48-59).
THEOREM WholeWordsHolds == Spec => []WholeWords
<1>1. WireIInv => WholeWords
  BY DEF WireIInv
<1> QED
  BY <1>1, WireInvariance, PTL
=============================================================================
