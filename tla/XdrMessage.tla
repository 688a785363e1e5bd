----------------------------- MODULE XdrMessage -----------------------------
(***************************************************************************)
(* A message, put together field by field by the encoders and taken apart  *)
(* in the same order by the decoders, as RPC, PortMapperContext and        *)
(* MountContext use them: the first word is left for the record mark,      *)
(* which is put in when the size is known (rpc.hpp:13-29, Mount.cpp:25-53).*)
(*                                                                         *)
(* The buffer is larger than the message and not initialised: behind the   *)
(* message every byte reads junk.                                          *)
(***************************************************************************)
EXTENDS Xdr

CONSTANTS
    Words,       \* uint32_t values encoded
    Longs,       \* uint64_t values encoded
    Texts,       \* strings encoded, without null bytes
    Handles,     \* byte vectors encoded
    MaxBytes,    \* the longest vector or string a decoder is told to accept
    BufferSize,  \* size of the callers' buffers
    MaxFields    \* bound: fields of a message

ASSUME WordsAssumption == Words \subseteq U32 /\ Longs \subseteq U64
ASSUME TextsAssumption == Texts \subseteq Seq(Byte \ {0})
ASSUME HandlesAssumption == Handles \subseteq Seq(Byte)
ASSUME LimitsAssumption ==
    /\ MaxBytes \in Nat
    /\ MaxFields \in Nat
    /\ BufferSize \in WordBytes .. HighBit * (Base * Base * Base) - 1

VARIABLES
    wire,       \* the bytes of the message so far
    junk,       \* the bytes behind it
    fields,     \* what was encoded, and where
    announced,  \* the size Context::receive decodes from the mark
    offset,     \* where the next decoder starts
    read,       \* what was decoded
    stage       \* "encode", "decode", or "failed" when a decoder returned -1

vars == <<wire, junk, fields, announced, offset, read, stage>>

Init ==
    /\ wire = Zeros(WordBytes)
    /\ junk \in {0, Base - 1}
    /\ fields = <<>>
    /\ announced = 0
    /\ offset = 0
    /\ read = <<>>
    /\ stage = "encode"

-----------------------------------------------------------------------------
(***************************************************************************)
(* Encoding.                                                               *)
(***************************************************************************)

\* A field of this kind and value becomes these bytes of the message, which
\* the caller's buffer has room for.
Put(kind, value, bytes) ==
    /\ stage = "encode"
    /\ Len(fields) < MaxFields
    /\ Len(wire) + Len(bytes) <= BufferSize
    /\ wire' = wire \o bytes
    /\ fields' = Append(fields, [kind |-> kind, value |-> value,
                                 start |-> Len(wire)])
    /\ UNCHANGED <<junk, announced, offset, read, stage>>

PutU32(w) == Put("u32", w, EncodeU32(w))

PutU64(w) == Put("u64", w, EncodeU64(w))

\* Every caller aligns the message after a string.
PutString(s) ==
    LET bytes == EncodeBytes(s) IN
    Put("string", s, bytes \o Zeros(Padding(Len(wire) + Len(bytes), WordBytes)))

\* No caller aligns it after a vector.
PutBytes(h) == Put("bytes", h, EncodeBytes(h))

\* Mutant of MarkSize: the mark counts itself in.
MarkSizeWithMark == Len(wire)

\* The size the mark announces: that of the message without the mark.
MarkSize == Len(wire) - WordBytes

\* The mark is encoded; Context::receive strips the bit and decodes the size.
Seal ==
    LET mark == LastFragment(EncodeU32(MarkSize)) IN
    /\ stage = "encode"
    /\ wire' = [i \in 1 .. Len(wire) |->
                   IF i <= WordBytes THEN mark[i] ELSE wire[i]]
    /\ announced' = DecodeU32(StripLastFragment(mark), 0)
    /\ offset' = WordBytes
    /\ stage' = "decode"
    /\ UNCHANGED <<junk, fields, read>>

-----------------------------------------------------------------------------
(***************************************************************************)
(* Decoding.                                                               *)
(***************************************************************************)

\* What a decoder is given: the message, with junk behind it.
Buffer == Source(wire, junk)

\* The next field to decode is of this kind.
Expected(kind) ==
    /\ stage = "decode"
    /\ Len(read) < Len(fields)
    /\ fields[Len(read) + 1].kind = kind

Got(value, next) ==
    /\ read' = Append(read, value)
    /\ offset' = next
    /\ UNCHANGED <<wire, junk, fields, announced, stage>>

\* A decoder returned -1: it has gone past the length only.
GotNothing ==
    /\ stage' = "failed"
    /\ offset' = offset + WordBytes
    /\ UNCHANGED <<wire, junk, fields, announced, read>>

GetU32 ==
    /\ Expected("u32")
    /\ Got(DecodeU32(Buffer, offset), offset + WordBytes)

GetU64 ==
    /\ Expected("u64")
    /\ Got(DecodeU64(Buffer, offset), offset + 2 * WordBytes)

\* The length and the bytes behind it.
GotOpaque ==
    Got(Opaque(Buffer, offset), offset + WordBytes + DecodeU32(Buffer, offset))

\* A vector of at most MaxBytes bytes.
GetBytes ==
    /\ Expected("bytes")
    /\ IF DecodeU32(Buffer, offset) <= MaxBytes THEN GotOpaque ELSE GotNothing

\* The first null byte behind the length is where the length says.
EndsWithNull ==
    LET text == Opaque(Buffer, offset) IN
    /\ \A i \in 1 .. Len(text) : text[i] # 0
    /\ Buffer[offset + WordBytes + Len(text) + 1] = 0

\* A string of fewer than MaxBytes bytes.  It is taken up to the first null
\* byte of the buffer.
GetString ==
    /\ Expected("string")
    /\ IF DecodeU32(Buffer, offset) < MaxBytes /\ EndsWithNull
       THEN GotOpaque
       ELSE GotNothing

-----------------------------------------------------------------------------
Next ==
    \/ \E w \in Words : PutU32(w)
    \/ \E w \in Longs : PutU64(w)
    \/ \E s \in Texts : PutString(s)
    \/ \E h \in Handles : PutBytes(h)
    \/ Seal
    \/ GetU32
    \/ GetU64
    \/ GetBytes
    \/ GetString

Spec == Init /\ [][Next]_vars

-----------------------------------------------------------------------------
(***************************************************************************)
(* Properties.                                                             *)
(***************************************************************************)

\* The values of a kind of field, and what a decoder makes of them.
Encodes(kind) == IF kind = "u32" THEN U32 ELSE IF kind = "u64" THEN U64 ELSE Seq(Byte)
Decodes(kind) == IF kind \in {"u32", "u64"} THEN U32 ELSE Seq(Byte)

\* Every variable has its type; what was read has the type of its field, also
\* when it was read from the wrong place.
TypeOK ==
    /\ wire \in Seq(Byte)
    /\ junk \in Byte
    /\ \A i \in 1 .. Len(fields) :
          /\ fields[i].kind \in {"u32", "u64", "string", "bytes"}
          /\ fields[i].value \in Encodes(fields[i].kind)
          /\ fields[i].start \in Nat
    /\ announced \in U32
    /\ offset \in Nat
    /\ Len(read) <= Len(fields)
    /\ \A i \in 1 .. Len(read) : read[i] \in Decodes(fields[i].kind)
    /\ stage \in {"encode", "decode", "failed"}

\* The mark announces what follows it, whatever the fields are
\* (Mount.cpp:52-53, Context.cpp:170-171): setting and stripping the bit of a
\* last fragment leaves the size alone.
MarkIsTruthful == stage # "encode" => announced = Len(wire) - WordBytes

\* As long as the vectors are whole words, every field starts at a word and
\* the message ends at one (Mount.cpp:49-50, xdr.cpp:48-59).
WholeWords ==
    (\A i \in 1 .. Len(fields) :
        fields[i].kind = "bytes" => Len(fields[i].value) % WordBytes = 0)
    => /\ \A i \in 1 .. Len(fields) : fields[i].start % WordBytes = 0
       /\ Len(wire) % WordBytes = 0

\* What a field reads as: a uint64_t loses its high word (xdr.cpp:95).
ReadAs(f) == IF f.kind = "u64" THEN f.value % WordSize ELSE f.value

\* Field i is no string that has padding behind it.
Unpadded(i) ==
    fields[i].kind = "string" =>
        (fields[i].start + WordBytes + Len(fields[i].value)) % WordBytes = 0

\* Every decoder leaves the offset at the next field, so that each reads what
\* was encoded, up to the first string with padding, behind which the offset
\* stops short (xdr.cpp:78-140).
ReadsBack ==
    \A i \in 1 .. Len(read) :
        (\A j \in 1 .. i - 1 : Unpadded(j)) => read[i] = ReadAs(fields[i])

-----------------------------------------------------------------------------
\* "But copy the null byte at the end" (xdr.cpp:41): behind the last string of
\* a message there is a null byte.
NullIsCopied ==
    (fields # <<>> /\ fields[Len(fields)].kind = "string")
        => LET f == fields[Len(fields)]
           IN  Buffer[f.start + WordBytes + Len(f.value) + 1] = 0
=============================================================================
