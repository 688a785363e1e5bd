-------------------------- MODULE RpcMessageProofs --------------------------
(***************************************************************************)
(* Proofs about RpcMessage: for host names, paths and handles of any       *)
(* length, any xids and stamps, and any reply.                             *)
(***************************************************************************)
EXTENDS RpcMessage, XdrProofs

USE DEF WordBytes

-----------------------------------------------------------------------------
(***************************************************************************)
(* Words, opaques and the record mark.                                     *)
(***************************************************************************)

\* The programs are three, and what is not larger than a word is one.
LEMMA SmallFits ==
    /\ WordSize \in Nat
    /\ {PORTMAP, NFS, MOUNT} \subseteq U32
    /\ PORTMAP # NFS /\ PORTMAP # MOUNT
    /\ \A n \in 0 .. 100 : n \in U32
    /\ \A m \in U32 : m \in Nat /\ \A n \in 0 .. m : n \in U32
<1>1. WordSize \in Nat
  BY BaseType DEF WordSize
<1>2. {PORTMAP, NFS, MOUNT} \subseteq U32
  BY SizesAssumption
<1>3. PORTMAP # NFS /\ PORTMAP # MOUNT /\ MOUNT > 100
  BY DEF PORTMAP, NFS, MOUNT
<1>4. MOUNT \in Nat /\ MOUNT < WordSize
  BY <1>1, <1>2 DEF U32
<1>5. ASSUME NEW n \in 0 .. 100 PROVE n \in U32
  BY <1>1, <1>3, <1>4 DEF U32
<1>6. ASSUME NEW m \in U32 PROVE m \in Nat /\ \A n \in 0 .. m : n \in U32
  BY <1>1 DEF U32
<1> QED
  BY <1>1, <1>2, <1>3, <1>5, <1>6, Zenon

\* The sizes of texts are words, and that of a request is one below its highest bit.
LEMMA SizesFit ==
    /\ \A text \in Machines \cup Paths : Len(text) + 32 \in U32
    /\ \A name \in Machines, path \in Paths \cup {<<>>} :
          \A n \in Nat : n <= Len(name) + Len(path) + 83
                            => n \in 0 .. HighBit * (Base * Base * Base) - 1
<1> DEFINE top == HighBit * (Base * Base * Base)
<1>1. top \in Nat
  BY BaseType
<1>2. RequestSize \in Nat /\ RequestSize < top
  BY SizesAssumption DEF RequestSize
<1>3. /\ \A text \in Machines \cup Paths : text \in Seq(Byte) /\ Len(text) \in Nat
      /\ <<>> \in Seq(Byte) /\ Len(<<>>) = 0
  BY TextsAssumption
<1> HIDE DEF top
<1>4. ASSUME NEW text \in Machines \cup Paths PROVE Len(text) + 32 \in U32
  <2>1. Len(text) + 0 + 87 <= RequestSize \/ 0 + Len(text) + 87 <= RequestSize
    BY <1>3, SizesAssumption
  <2>2. Len(text) + 32 \in 0 .. top - 1
    BY <1>1, <1>2, <1>3, <2>1
  <2> QED
    BY <2>2, HighByteOfSize DEF top
<1>5. ASSUME NEW name \in Machines, NEW path \in Paths \cup {<<>>}, NEW n \in Nat,
             n <= Len(name) + Len(path) + 83
      PROVE  n \in 0 .. top - 1
  <2>1. Len(name) + Len(path) + 87 <= RequestSize
    BY SizesAssumption
  <2>2. Len(name) \in Nat /\ Len(path) \in Nat
    BY <1>3
  <2> QED
    BY <1>1, <1>2, <1>5, <2>1, <2>2
<1> QED
  BY <1>4, <1>5 DEF top

\* Words are four bytes each, one word after the other.
LEMMA WordsType ==
    ASSUME NEW ws \in Seq(U32)
    PROVE  /\ EncodeWords(ws) \in Seq(Byte)
           /\ Len(EncodeWords(ws)) = 4 * Len(ws)
           /\ \A i \in 1 .. Len(ws) : \A j \in 1 .. 4 :
                 EncodeWords(ws)[4 * (i - 1) + j] = EncodeU32(ws[i])[j]
<1> DEFINE byte(i) == EncodeU32(ws[((i - 1) \div 4) + 1])[((i - 1) % 4) + 1]
<1>1. Len(ws) \in Nat /\ 4 * Len(ws) \in Nat
  OBVIOUS
<1>2. \A k \in 1 .. Len(ws) : EncodeU32(ws[k]) \in Seq(Byte) /\ Len(EncodeU32(ws[k])) = 4
  <2> TAKE k \in 1 .. Len(ws)
  <2>1. ws[k] \in U32
    OBVIOUS
  <2>2. ws[k] \in Int
    BY <2>1 DEF U32
  <2> QED
    BY <2>2, EncodeU32Type
<1>3. ASSUME NEW i \in 1 .. 4 * Len(ws) PROVE byte(i) \in Byte
  <2>1. ((i - 1) \div 4) + 1 \in 1 .. Len(ws) /\ ((i - 1) % 4) + 1 \in 1 .. 4
    BY <1>1
  <2> QED
    BY <1>2, <2>1
<1>4. ASSUME NEW i \in 1 .. Len(ws), NEW j \in 1 .. 4
      PROVE  /\ 4 * (i - 1) + j \in 1 .. 4 * Len(ws)
             /\ byte(4 * (i - 1) + j) = EncodeU32(ws[i])[j]
  <2> DEFINE m == 4 * (i - 1) + j
  <2>1. m \in 1 .. 4 * Len(ws)
    BY <1>1
  <2>2. ((m - 1) \div 4) + 1 = i /\ ((m - 1) % 4) + 1 = j
    BY <1>1
  <2> QED
    BY <2>1, <2>2
<1>5. EncodeWords(ws) = [i \in 1 .. 4 * Len(ws) |-> byte(i)]
  BY DEF EncodeWords
<1> HIDE DEF byte
<1> QED
  BY <1>1, <1>3, <1>4, <1>5

\* Each of the words lies in its place.
LEMMA WordsAreHeld ==
    ASSUME NEW ws \in Seq(U32), NEW src, NEW at \in Nat, Holds(src, at, EncodeWords(ws)),
           NEW i \in 1 .. Len(ws)
    PROVE  /\ ws[i] \in U32 /\ at + 4 * (i - 1) \in Nat
           /\ Len(EncodeU32(ws[i])) = 4
           /\ Holds(src, at + 4 * (i - 1), EncodeU32(ws[i]))
<1>1. ws[i] \in U32
  OBVIOUS
<1>2. ws[i] \in Int /\ at + 4 * (i - 1) \in Nat
  BY <1>1 DEF U32
<1>3. Len(EncodeU32(ws[i])) = 4
  BY <1>2, EncodeU32Type
<1>4. ASSUME NEW j \in 1 .. 4 PROVE src[at + 4 * (i - 1) + j] = EncodeU32(ws[i])[j]
  <2>1. /\ 4 * (i - 1) + j \in 1 .. 4 * Len(ws)
        /\ at + (4 * (i - 1) + j) = at + 4 * (i - 1) + j
    OBVIOUS
  <2>2. Len(EncodeWords(ws)) = 4 * Len(ws)
        /\ EncodeWords(ws)[4 * (i - 1) + j] = EncodeU32(ws[i])[j]
    BY WordsType
  <2> QED
    BY <2>1, <2>2 DEF Holds
<1>5. Holds(src, at + 4 * (i - 1), EncodeU32(ws[i]))
  BY <1>3, <1>4 DEF Holds
<1> QED
  BY <1>1, <1>2, <1>3, <1>5

\* Words that were encoded are decoded, wherever they lie.
LEMMA WordsAreRead ==
    ASSUME NEW ws \in Seq(U32), NEW src, NEW at \in Nat, Holds(src, at, EncodeWords(ws))
    PROVE  /\ \A i \in 1 .. Len(ws) : DecodeU32(src, at + 4 * (i - 1)) = ws[i]
           /\ WordsAt(src, at, Len(ws)) = ws
<1>1. ASSUME NEW i \in 1 .. Len(ws) PROVE DecodeU32(src, at + 4 * (i - 1)) = ws[i]
  BY WordsAreHeld, WordIsRead
<1>2. WordsAt(src, at, Len(ws)) = [i \in 1 .. Len(ws) |-> ws[i]]
  BY <1>1 DEF WordsAt
<1> QED
  BY <1>1, <1>2

\* Two words.
LEMMA TwoWords ==
    ASSUME NEW a \in U32, NEW b \in U32
    PROVE  /\ EncodeWords(<<a, b>>) \in Seq(Byte) /\ Len(EncodeWords(<<a, b>>)) = 8
           /\ \A src : \A at \in Nat : Holds(src, at, EncodeWords(<<a, b>>)) =>
                 /\ DecodeU32(src, at) = a /\ DecodeU32(src, at + 4) = b
                 /\ WordsAt(src, at, 2) = <<a, b>>
<1> DEFINE ws == <<a, b>>
<1>1. ws \in Seq(U32) /\ Len(ws) = 2 /\ ws[1] = a /\ ws[2] = b
  OBVIOUS
<1>2. 4 * 2 = 8 /\ 1 \in 1 .. 2 /\ 2 \in 1 .. 2
  OBVIOUS
<1> HIDE DEF ws
<1>3. EncodeWords(ws) \in Seq(Byte) /\ Len(EncodeWords(ws)) = 8
  BY <1>1, <1>2, WordsType, Zenon
<1>4. ASSUME NEW src, NEW at \in Nat, Holds(src, at, EncodeWords(ws))
      PROVE  /\ DecodeU32(src, at) = a /\ DecodeU32(src, at + 4) = b
             /\ WordsAt(src, at, 2) = ws
  <2>0. /\ \A i \in 1 .. Len(ws) : DecodeU32(src, at + 4 * (i - 1)) = ws[i]
        /\ WordsAt(src, at, Len(ws)) = ws
    BY <1>1, <1>4, WordsAreRead, Zenon
  <2>1. /\ DecodeU32(src, at + 4 * (1 - 1)) = a /\ DecodeU32(src, at + 4 * (2 - 1)) = b
        /\ WordsAt(src, at, 2) = ws
    BY <1>1, <1>2, <2>0, Zenon
  <2>2. at + 4 * (1 - 1) = at /\ at + 4 * (2 - 1) = at + 4
    OBVIOUS
  <2> QED
    BY <2>1, <2>2, Zenon
<1> QED
  BY <1>3, <1>4, Zenon DEF ws

\* Four words.
LEMMA FourWords ==
    ASSUME NEW a \in U32, NEW b \in U32, NEW c \in U32, NEW d \in U32
    PROVE  /\ EncodeWords(<<a, b, c, d>>) \in Seq(Byte)
           /\ Len(EncodeWords(<<a, b, c, d>>)) = 16
           /\ \A src : \A at \in Nat : Holds(src, at, EncodeWords(<<a, b, c, d>>)) =>
                 /\ DecodeU32(src, at) = a /\ DecodeU32(src, at + 4) = b
                 /\ DecodeU32(src, at + 8) = c /\ DecodeU32(src, at + 12) = d
                 /\ WordsAt(src, at, 4) = <<a, b, c, d>>
<1> DEFINE ws == <<a, b, c, d>>
<1>1. ws \in Seq(U32) /\ Len(ws) = 4 /\ ws[1] = a /\ ws[2] = b /\ ws[3] = c /\ ws[4] = d
  OBVIOUS
<1>2. 4 * 4 = 16 /\ 1 \in 1 .. 4 /\ 2 \in 1 .. 4 /\ 3 \in 1 .. 4 /\ 4 \in 1 .. 4
  OBVIOUS
<1> HIDE DEF ws
<1>3. EncodeWords(ws) \in Seq(Byte) /\ Len(EncodeWords(ws)) = 16
  BY <1>1, <1>2, WordsType, Zenon
<1>4. ASSUME NEW src, NEW at \in Nat, Holds(src, at, EncodeWords(ws))
      PROVE  /\ DecodeU32(src, at) = a /\ DecodeU32(src, at + 4) = b
             /\ DecodeU32(src, at + 8) = c /\ DecodeU32(src, at + 12) = d
             /\ WordsAt(src, at, 4) = ws
  <2>0. /\ \A i \in 1 .. Len(ws) : DecodeU32(src, at + 4 * (i - 1)) = ws[i]
        /\ WordsAt(src, at, Len(ws)) = ws
    BY <1>1, <1>4, WordsAreRead, Zenon
  <2>1. /\ DecodeU32(src, at + 4 * (1 - 1)) = a /\ DecodeU32(src, at + 4 * (2 - 1)) = b
        /\ DecodeU32(src, at + 4 * (3 - 1)) = c /\ DecodeU32(src, at + 4 * (4 - 1)) = d
        /\ WordsAt(src, at, 4) = ws
    BY <1>1, <1>2, <2>0, Zenon
  <2>2. /\ at + 4 * (1 - 1) = at /\ at + 4 * (2 - 1) = at + 4
        /\ at + 4 * (3 - 1) = at + 8 /\ at + 4 * (4 - 1) = at + 12
    OBVIOUS
  <2> QED
    BY <2>1, <2>2, Zenon
<1> QED
  BY <1>3, <1>4, Zenon DEF ws

\* An opaque that was encoded is decoded, and what follows starts behind its padding.
LEMMA OpaqueIsRead ==
    ASSUME NEW b \in Seq(Byte), Len(b) \in U32, NEW src, NEW at \in Nat,
           Holds(src, at, EncodeBytes(b))
    PROVE  /\ DecodeU32(src, at) = Len(b)
           /\ Opaque(src, at) = b
           /\ Behind(src, at) = at + 4 + Len(b) + Padding(Len(b), 4)
BY OpaqueRoundTrip DEF Behind

\* Padding is what is missing to the next word.
LEMMA PaddingIsMissing ==
    ASSUME NEW n \in Nat
    PROVE  /\ Padding(n, 4) \in 0 .. 3
           /\ (n + Padding(n, 4)) % 4 = 0
           /\ n % 4 = 0 => Padding(n, 4) = 0
           /\ \A k \in Nat : k % 4 = 0 => Padding(k + n, 4) = Padding(n, 4)
BY DEF Padding

\* The record mark is a word.
LEMMA MarkType ==
    ASSUME NEW word \in Seq(Byte), Len(word) = 4
    PROVE  LastFragment(word) \in Seq(Byte) /\ Len(LastFragment(word)) = 4
<1>1. \A i \in 1 .. 4 : word[i] \in Byte
  <2>1. \A i \in 1 .. Len(word) : word[i] \in Byte
    BY ByteOfSequence, Zenon
  <2> QED
    BY <2>1, Zenon
<1>2. HighBit + (word[1] % HighBit) \in Byte
  <2>1. HighBit \in Nat \ {0} /\ Base = 2 * HighBit /\ word[1] \in Nat
    BY <1>1, BaseType DEF Byte
  <2>2. word[1] % HighBit \in 0 .. HighBit - 1
    BY <2>1
  <2> QED
    BY <2>1, <2>2 DEF Byte
<1> DEFINE b == HighBit + (word[1] % HighBit)
<1>3. LastFragment(word) = [word EXCEPT ![1] = b]
  BY DEF LastFragment
<1> HIDE DEF b
<1>4. [word EXCEPT ![1] = b] \in Seq(Byte) /\ Len([word EXCEPT ![1] = b]) = 4
  BY <1>2 DEF b
<1> QED
  BY <1>3, <1>4, Zenon

\* What is behind the first word.
LEMMA RestType ==
    ASSUME NEW s \in Seq(Byte), Len(s) >= 5
    PROVE  /\ SubSeq(s, 5, Len(s)) \in Seq(Byte)
           /\ Len(SubSeq(s, 5, Len(s))) = Len(s) - 4
           /\ \A i \in 1 .. Len(s) - 4 : SubSeq(s, 5, Len(s))[i] = s[i + 4]
<1>1. Len(s) \in Nat
  OBVIOUS
<1>2. SubSeq(s, 5, Len(s)) \in Seq(Byte)
  BY <1>1
<1>3. Len(SubSeq(s, 5, Len(s))) = Len(s) - 4
  <2>1. Len(SubSeq(s, 5, Len(s))) = IF 5 <= Len(s) THEN Len(s) - 5 + 1 ELSE 0
    BY <1>1, <1>2
  <2> QED
    BY <1>1, <2>1
<1>4. ASSUME NEW i \in 1 .. Len(s) - 4 PROVE SubSeq(s, 5, Len(s))[i] = s[i + 4]
  BY <1>1
<1> QED
  BY <1>2, <1>3, <1>4

\* The record mark changes the first word and nothing else.
LEMMA SealedHolds ==
    ASSUME NEW bytes \in Seq(Byte), Len(bytes) >= 5
    PROVE  /\ Sealed(bytes) \in Seq(Byte)
           /\ Len(Sealed(bytes)) = Len(bytes)
           /\ \A i \in 5 .. Len(bytes) : Sealed(bytes)[i] = bytes[i]
<1> DEFINE mark == LastFragment(EncodeU32(Len(bytes) - 4))
           rest == SubSeq(bytes, 5, Len(bytes))
<1>1. Len(bytes) \in Nat /\ Len(bytes) - 4 \in Int
  OBVIOUS
<1>2. mark \in Seq(Byte) /\ Len(mark) = 4
  BY <1>1, EncodeU32Type, MarkType
<1>3. /\ rest \in Seq(Byte) /\ Len(rest) = Len(bytes) - 4
      /\ \A i \in 1 .. Len(bytes) - 4 : rest[i] = bytes[i + 4]
  BY RestType
<1>4. Sealed(bytes) = mark \o rest
  BY DEF Sealed
<1> HIDE DEF mark, rest
<1>5. mark \o rest \in Seq(Byte) /\ Len(mark \o rest) = Len(mark) + Len(rest)
  BY <1>2, <1>3, ConcatBytes, Zenon
<1>6. Len(mark) + Len(rest) = Len(bytes)
  BY <1>1, <1>2, <1>3
<1>7. ASSUME NEW i \in 5 .. Len(bytes) PROVE (mark \o rest)[i] = bytes[i]
  <2>1. i - 4 \in 1 .. Len(rest) /\ Len(mark) + (i - 4) = i /\ (i - 4) + 4 = i
    BY <1>1, <1>2, <1>3
  <2>2. (mark \o rest)[Len(mark) + (i - 4)] = rest[i - 4]
    BY <1>2, <1>3, <2>1, ConcatSecond, Zenon
  <2> QED
    BY <1>1, <1>3, <2>1, <2>2
<1> QED
  BY <1>4, <1>5, <1>6, <1>7, Zenon

\* What lies behind the first word still does when the record mark is put in.
LEMMA SealedKeeps ==
    ASSUME NEW bytes \in Seq(Byte), Len(bytes) >= 5, NEW b, Len(b) \in Nat,
           NEW at \in Nat, at >= 4, at + Len(b) <= Len(bytes), Holds(bytes, at, b)
    PROVE  Holds(Source(Sealed(bytes), 0), at, b)
<1>1. Holds(Sealed(bytes), at, b)
  <2> SUFFICES ASSUME NEW i \in 1 .. Len(b) PROVE Sealed(bytes)[at + i] = b[i]
    BY DEF Holds
  <2>1. at + i \in 5 .. Len(bytes)
    OBVIOUS
  <2>2. bytes[at + i] = b[i]
    BY Zenon DEF Holds
  <2> QED
    BY <2>1, <2>2, SealedHolds
<1> QED
  BY <1>1, SealedHolds, SourceHolds

\* Whoever strips the bit of the record mark finds the size of what is behind it.
LEMMA SealedMark ==
    ASSUME NEW bytes \in Seq(Byte), Len(bytes) >= 5,
           Len(bytes) - 4 \in 0 .. HighBit * (Base * Base * Base) - 1
    PROVE  LET src == Source(Sealed(bytes), 0) IN
           /\ src[1] >= HighBit
           /\ DecodeU32(StripLastFragment(src), 0) = Len(bytes) - 4
<1> DEFINE word == EncodeU32(Len(bytes) - 4)
           mark == LastFragment(word)
           rest == SubSeq(bytes, 5, Len(bytes))
           src == Source(Sealed(bytes), 0)
<1>1. /\ mark \in Seq(Byte) /\ Len(mark) = 4
      /\ DecodeU32(StripLastFragment(mark), 0) = Len(bytes) - 4
  BY MarkRoundTrip
<1>2. /\ word \in Seq(Byte) /\ Len(word) = 4
  BY EncodeU32Type
<1>3. mark[1] >= HighBit
  <2>1. HighBit \in Nat \ {0} /\ word[1] \in Nat
    <3>1. word[1] \in Byte
      BY <1>2
    <3> QED
      BY <3>1, BaseType DEF Byte
  <2>2. word[1] % HighBit \in Nat
    BY <2>1
  <2>3. mark[1] = HighBit + (word[1] % HighBit)
    BY <1>2 DEF LastFragment
  <2> QED
    BY <2>1, <2>2, <2>3
<1>4. Sealed(bytes) = mark \o rest
  BY DEF Sealed
<1>5. rest \in Seq(Byte)
  BY RestType
<1> HIDE DEF mark, word, rest
<1>6. \A i \in 1 .. 4 : src[i] = mark[i]
  <2>1. /\ Len(mark \o rest) >= 4 /\ Len(mark \o rest) \in Nat
        /\ \A i \in 1 .. 4 : (mark \o rest)[i] = mark[i]
    <3>1. Len(rest) \in Nat
      BY <1>5
    <3>2. Len(mark \o rest) = Len(mark) + Len(rest)
      BY <1>1, <1>5, ConcatBytes, Zenon
    <3>3. \A i \in 1 .. Len(mark) : (mark \o rest)[i] = mark[i]
      BY <1>1, <1>5, ConcatFirst, Zenon
    <3> QED
      BY <1>1, <3>1, <3>2, <3>3
  <2> QED
    BY <1>4, <2>1 DEF Source
<1>7. \A i \in 1 .. 4 : StripLastFragment(src)[i] = StripLastFragment(mark)[i]
  <2>1. DOMAIN src = Nat /\ DOMAIN mark = 1 .. 4
    BY <1>1 DEF Source
  <2> QED
    BY <1>6, <2>1 DEF StripLastFragment
<1> HIDE DEF src
<1>8. DecodeU32(StripLastFragment(src), 0) = DecodeU32(StripLastFragment(mark), 0)
  BY <1>7 DEF DecodeU32
<1> QED
  BY <1>1, <1>3, <1>6, <1>8 DEF src

-----------------------------------------------------------------------------
(***************************************************************************)
(* The request.                                                            *)
(***************************************************************************)

\* Numbers on the way.
LEMMA CredentialsSize ==
    ASSUME NEW L \in Nat, NEW pad \in 0 .. 3, (L + pad) % 4 = 0
    PROVE  /\ 24 + L + pad \in 0 .. L + 32 /\ (24 + L + pad) % 4 = 0
           /\ \A at \in Nat : /\ at + (24 + L + pad) - 16 = at + (8 + L + pad)
                             /\ at + (8 + L + pad) \in Nat
OBVIOUS

\* The credentials: a stamp, a machine, and four words, which end at a word.
LEMMA CredentialsAreRead ==
    ASSUME stamp \in U32, machine \in Machines
    PROVE  LET size == 24 + Len(machine) + Padding(Len(machine), 4)
           IN  /\ Credentials \in Seq(Byte)
               /\ Len(Credentials) = size /\ size % 4 = 0 /\ size \in U32
               /\ \A src : \A at \in Nat : Holds(src, at, Credentials) =>
                     /\ DecodeU32(src, at) = stamp
                     /\ Opaque(src, at + 4) = machine
                     /\ Behind(src, at + 4) = at + size - 16
                     /\ WordsAt(src, at + size - 16, 4) = <<0, 0, 1, 0>>
<1> DEFINE L == Len(machine)
           pad == Padding(8 + Len(EncodeWords(<<stamp>>) \o EncodeBytes(machine)), 4)
           first == EncodeWords(<<stamp>>)
           second == EncodeBytes(machine)
           third == Zeros(pad)
           fourth == EncodeWords(<<0, 0, 1, 0>>)
<1>1. machine \in Seq(Byte) /\ L \in Nat /\ L + 32 \in U32 /\ L \in U32
  <2>1. machine \in Seq(Byte) /\ L + 32 \in U32
    BY TextsAssumption, SizesFit
  <2>2. L \in Nat
    BY <2>1
  <2>3. L \in 0 .. L + 32
    BY <2>2
  <2> QED
    BY <2>1, <2>2, <2>3, SmallFits, Zenon
<1> HIDE DEF L
<1>2. <<stamp>> \in Seq(U32) /\ Len(<<stamp>>) = 1
  OBVIOUS
<1>3. <<0, 0, 1, 0>> \in Seq(U32) /\ Len(<<0, 0, 1, 0>>) = 4
  <2>1. 0 \in U32 /\ 1 \in U32
    BY SmallFits
  <2> QED
    BY <2>1
<1>4. first \in Seq(Byte) /\ Len(first) = 4
  <2>1. first \in Seq(Byte) /\ Len(first) = 4 * Len(<<stamp>>)
    BY <1>2, WordsType, Zenon
  <2>2. 4 * 1 = 4
    OBVIOUS
  <2> QED
    BY <1>2, <2>1, <2>2, Zenon
<1>5. second \in Seq(Byte) /\ Len(second) = 4 + L
  BY <1>1, EncodeBytesType DEF L
<1>6. fourth \in Seq(Byte) /\ Len(fourth) = 16
  <2>1. fourth \in Seq(Byte) /\ Len(fourth) = 4 * Len(<<0, 0, 1, 0>>)
    BY <1>3, WordsType, Zenon
  <2>2. 4 * 4 = 16
    OBVIOUS
  <2> QED
    BY <1>3, <2>1, <2>2, Zenon
<1> HIDE DEF first, second, fourth
<1>7. first \o second \in Seq(Byte) /\ Len(first \o second) = 8 + L
  <2>1. first \o second \in Seq(Byte) /\ Len(first \o second) = 4 + (4 + L)
    BY <1>4, <1>5, ConcatBytes, Zenon
  <2>2. 4 + (4 + L) = 8 + L
    BY <1>1
  <2> QED
    BY <2>1, <2>2, Zenon
<1>8. pad = Padding(L, 4) /\ pad \in 0 .. 3 /\ (L + pad) % 4 = 0
  <2>1. pad = Padding(16 + L, 4)
    <3>1. pad = Padding(8 + (8 + L), 4)
      BY <1>7, Zenon DEF first, second, pad
    <3>2. 8 + (8 + L) = 16 + L
      BY <1>1
    <3> QED
      BY <3>1, <3>2, Zenon
  <2>2. 16 \in Nat /\ 16 % 4 = 0
    OBVIOUS
  <2>3. Padding(16 + L, 4) = Padding(L, 4)
    BY <1>1, <2>2, PaddingIsMissing, Zenon
  <2>4. Padding(L, 4) \in 0 .. 3 /\ (L + Padding(L, 4)) % 4 = 0
    BY <1>1, PaddingIsMissing, Zenon
  <2> HIDE DEF pad
  <2> QED
    BY <2>1, <2>3, <2>4, Zenon
<1> HIDE DEF pad
<1>9. third \in Seq(Byte) /\ Len(third) = pad
  <2>1. pad \in Nat
    BY <1>8
  <2> QED
    BY <2>1, ZerosType, Zenon DEF third
<1> HIDE DEF third
<1>10. /\ (first \o second) \o third \in Seq(Byte)
       /\ Len((first \o second) \o third) = 8 + L + pad
  BY <1>7, <1>9, ConcatBytes, Zenon
<1>11. Credentials = ((first \o second) \o third) \o fourth
  BY DEF Credentials, first, second, third, fourth, pad
<1>12. Credentials \in Seq(Byte) /\ Len(Credentials) = 24 + L + pad
  <2>1. /\ ((first \o second) \o third) \o fourth \in Seq(Byte)
        /\ Len(((first \o second) \o third) \o fourth) = (8 + L + pad) + 16
    BY <1>6, <1>10, ConcatBytes, Zenon
  <2>2. (8 + L + pad) + 16 = 24 + L + pad
    BY <1>1, <1>8
  <2> QED
    BY <1>11, <2>1, <2>2, Zenon
<1>13. (24 + L + pad) % 4 = 0 /\ 24 + L + pad \in U32
  <2>1. 24 + L + pad \in 0 .. L + 32 /\ (24 + L + pad) % 4 = 0
    BY <1>1, <1>8, CredentialsSize, Zenon
  <2> QED
    BY <1>1, <2>1, SmallFits, Zenon
<1>14. ASSUME NEW src, NEW at \in Nat, Holds(src, at, Credentials)
       PROVE  /\ DecodeU32(src, at) = stamp
              /\ Opaque(src, at + 4) = machine
              /\ Behind(src, at + 4) = at + (24 + L + pad) - 16
              /\ WordsAt(src, at + (24 + L + pad) - 16, 4) = <<0, 0, 1, 0>>
  <2>1. /\ Holds(src, at, (first \o second) \o third)
        /\ Holds(src, at + (8 + L + pad), fourth)
    BY <1>6, <1>10, <1>11, <1>14, HoldsConcat
  <2>2. Holds(src, at, first \o second)
    BY <1>7, <1>9, <2>1, HoldsConcat
  <2>3. Holds(src, at, first) /\ Holds(src, at + 4, second)
    BY <1>4, <1>5, <2>2, HoldsConcat
  <2>4. DecodeU32(src, at) = stamp
    <3>1. Holds(src, at, EncodeWords(<<stamp>>)) /\ 1 \in 1 .. Len(<<stamp>>)
      BY <1>2, <2>3 DEF first
    <3>2. DecodeU32(src, at + 4 * (1 - 1)) = <<stamp>>[1]
      BY <1>2, <3>1, WordsAreRead
    <3> QED
      BY <3>2
  <2>5. Opaque(src, at + 4) = machine /\ Behind(src, at + 4) = (at + 4) + 4 + L + Padding(L, 4)
    <3>1. at + 4 \in Nat /\ Holds(src, at + 4, EncodeBytes(machine))
      BY <2>3 DEF second
    <3> QED
      BY <1>1, <3>1, OpaqueIsRead, Zenon DEF L
  <2>6. Behind(src, at + 4) = at + (24 + L + pad) - 16
    <3>1. \A p \in 0 .. 3 : (at + 4) + 4 + L + p = at + (24 + L + p) - 16
      BY <1>1
    <3>2. (at + 4) + 4 + L + pad = at + (24 + L + pad) - 16
      BY <1>8, <3>1, Zenon
    <3>3. pad = Padding(L, 4)
      BY <1>8, Zenon
    <3> QED
      BY <2>5, <3>2, <3>3, Zenon
  <2>7. at + (24 + L + pad) - 16 = at + (8 + L + pad) /\ at + (8 + L + pad) \in Nat
    BY <1>1, <1>8, CredentialsSize, Zenon
  <2>8. WordsAt(src, at + (8 + L + pad), 4) = <<0, 0, 1, 0>>
    <3>1. Holds(src, at + (8 + L + pad), EncodeWords(<<0, 0, 1, 0>>))
      BY <2>1 DEF fourth
    <3> QED
      BY <1>3, <2>7, <3>1, WordsAreRead, Zenon
  <2> QED
    BY <2>4, <2>5, <2>6, <2>7, <2>8, Zenon
<1> QED
  BY <1>8, <1>12, <1>13, <1>14, Zenon DEF L

\* The flavor, the size, the credentials, and no verifier.
LEMMA AuthIsRead ==
    ASSUME stamp \in U32, machine \in Machines
    PROVE  /\ AddAuthSys \in Seq(Byte) /\ Len(AddAuthSys) = 16 + Len(Credentials)
           /\ \A src : \A at \in Nat : Holds(src, at, AddAuthSys) =>
                 /\ DecodeU32(src, at) = 1 /\ DecodeU32(src, at + 4) = Len(Credentials)
                 /\ Holds(src, at + 8, Credentials)
                 /\ WordsAt(src, at + (8 + Len(Credentials)), 2) = <<0, 0>>
                 /\ DecodeU32(src, (at + (8 + Len(Credentials))) + 4) = 0
<1> DEFINE size == Len(Credentials)
           first == EncodeWords(<<1, size>>)
           last == EncodeWords(<<0, 0>>)
<1>1. Credentials \in Seq(Byte) /\ size \in U32 /\ size \in Nat
  <2>1. Credentials \in Seq(Byte) /\ size \in U32
    BY CredentialsAreRead, Zenon
  <2> QED
    BY <2>1, SmallFits, Zenon
<1>2. 0 \in U32 /\ 1 \in U32
  BY SmallFits
<1>3. AddAuthSys = (first \o Credentials) \o last
  BY Zenon DEF AddAuthSys
<1> HIDE DEF size
<1>4. first \in Seq(Byte) /\ Len(first) = 8 /\ last \in Seq(Byte) /\ Len(last) = 8
  BY <1>1, <1>2, TwoWords, Zenon
<1> HIDE DEF first, last
<1>5. first \o Credentials \in Seq(Byte) /\ Len(first \o Credentials) = 8 + size
  BY <1>1, <1>4, ConcatBytes, Zenon DEF size
<1>6. AddAuthSys \in Seq(Byte) /\ Len(AddAuthSys) = (8 + size) + 8
  BY <1>3, <1>4, <1>5, ConcatBytes, Zenon
<1>7. (8 + size) + 8 = 16 + size
  BY <1>1
<1>8. ASSUME NEW src, NEW at \in Nat, Holds(src, at, AddAuthSys)
      PROVE  /\ DecodeU32(src, at) = 1 /\ DecodeU32(src, at + 4) = size
             /\ Holds(src, at + 8, Credentials)
             /\ WordsAt(src, at + (8 + size), 2) = <<0, 0>>
             /\ DecodeU32(src, (at + (8 + size)) + 4) = 0
  <2>1. Holds(src, at, first \o Credentials) /\ Holds(src, at + (8 + size), last)
    BY <1>3, <1>4, <1>5, <1>8, HoldsConcat, Zenon
  <2>2. Holds(src, at, first) /\ Holds(src, at + 8, Credentials)
    BY <1>1, <1>4, <2>1, HoldsConcat, Zenon
  <2>3. at + (8 + size) \in Nat
    BY <1>1
  <2>4. DecodeU32(src, at) = 1 /\ DecodeU32(src, at + 4) = size
    <3>1. Holds(src, at, EncodeWords(<<1, size>>))
      BY <2>2 DEF first
    <3> QED
      BY <1>1, <1>2, <3>1, TwoWords
  <2>5. /\ WordsAt(src, at + (8 + size), 2) = <<0, 0>>
        /\ DecodeU32(src, (at + (8 + size)) + 4) = 0
    <3>1. Holds(src, at + (8 + size), EncodeWords(<<0, 0>>))
      BY <2>1 DEF last
    <3> QED
      BY <1>2, <2>3, <3>1, TwoWords
  <2> QED
    BY <2>2, <2>4, <2>5, Zenon
<1> QED
  BY <1>6, <1>7, <1>8, Zenon DEF size

\* What is asked for.
LEMMA CallsType ==
    ASSUME call \in Calls
    PROVE  /\ call.program \in U32 /\ call.version \in U32 /\ call.procedure \in U32
           /\ IsGetPort(call) =>
                 \E program \in U32 : call.argument = <<program, 3, 6, 0>>
           /\ ~ IsGetPort(call) => call.argument \in Paths
<1>1. 1 \in U32 /\ 2 \in U32 /\ 3 \in U32
  BY SmallFits
<1>2. ASSUME NEW program \in {NFS, MOUNT}, call = GetPort(program)
      PROVE  /\ call.program \in U32 /\ call.version \in U32 /\ call.procedure \in U32
             /\ IsGetPort(call) /\ program \in U32 /\ call.argument = <<program, 3, 6, 0>>
  BY <1>1, <1>2, SmallFits DEF GetPort, IsGetPort
<1>3. ASSUME NEW path \in Paths, call = Mount(path) \/ call = Umount(path)
      PROVE  /\ call.program \in U32 /\ call.version \in U32 /\ call.procedure \in U32
             /\ ~ IsGetPort(call) /\ call.argument \in Paths
  BY <1>1, <1>3, SmallFits DEF Mount, Umount, IsGetPort
<1> QED
  BY <1>2, <1>3 DEF Calls

\* The argument, at a word: four words, or a path and its padding.
LEMMA ArgumentIsRead ==
    ASSUME call \in Calls, NEW at \in Nat, at % 4 = 0
    PROVE  /\ Argument(call, at) \in Seq(Byte)
           /\ IsGetPort(call) => Len(Argument(call, at)) = 16
           /\ ~ IsGetPort(call) => Len(Argument(call, at)) <= Len(call.argument) + 7
           /\ \A src : Holds(src, at, Argument(call, at)) =>
                 IF IsGetPort(call)
                 THEN WordsAt(src, at, 4) = call.argument
                 ELSE /\ Opaque(src, at) = call.argument
                      /\ Behind(src, at) = at + Len(Argument(call, at))
<1>1. CASE IsGetPort(call)
  <2>1. PICK program \in U32 : call.argument = <<program, 3, 6, 0>>
    BY <1>1, CallsType
  <2>2. Argument(call, at) = EncodeWords(<<program, 3, 6, 0>>)
    BY <1>1, <2>1, Zenon DEF Argument
  <2>3. 0 \in U32 /\ 3 \in U32 /\ 6 \in U32
    BY SmallFits
  <2> DEFINE ws == <<program, 3, 6, 0>>
  <2>31. /\ EncodeWords(ws) \in Seq(Byte) /\ Len(EncodeWords(ws)) = 16
        /\ \A src : Holds(src, at, EncodeWords(ws)) => WordsAt(src, at, 4) = ws
    <3>1. program \in U32
      BY <2>1
    <3>2. EncodeWords(ws) \in Seq(Byte) /\ Len(EncodeWords(ws)) = 16
      BY <2>3, <3>1, FourWords
    <3>3. ASSUME NEW src, Holds(src, at, EncodeWords(ws)) PROVE WordsAt(src, at, 4) = ws
      BY <2>3, <3>1, <3>3, FourWords
    <3> QED
      BY <3>2, <3>3, Zenon
  <2> HIDE DEF ws
  <2>4. /\ Argument(call, at) \in Seq(Byte) /\ Len(Argument(call, at)) = 16
        /\ \A src : Holds(src, at, Argument(call, at)) => WordsAt(src, at, 4) = call.argument
    <3>1. call.argument = ws /\ Argument(call, at) = EncodeWords(ws)
      BY <2>1, <2>2, Zenon DEF ws
    <3> QED
      BY <2>31, <3>1, Zenon
  <2> QED
    BY <1>1, <2>4, Zenon
<1>2. CASE ~ IsGetPort(call)
  <2> DEFINE L == Len(call.argument)
             path == EncodeBytes(call.argument)
             pad == Padding(at + Len(path), 4)
             zeros == Zeros(pad)
  <2>1. call.argument \in Paths
    BY <1>2, CallsType, Zenon
  <2>2. call.argument \in Seq(Byte) /\ L + 32 \in U32
    BY <2>1, TextsAssumption, SizesFit
  <2>3. L \in Nat
    BY <2>2
  <2>4. path \in Seq(Byte) /\ Len(path) = 4 + L
    BY <2>2, EncodeBytesType, Zenon DEF WordBytes
  <2>5. Argument(call, at) = path \o zeros
    BY <1>2, Zenon DEF Argument, WordBytes
  <2> HIDE DEF L, path
  <2>6. L \in U32
    <3>1. L \in 0 .. L + 32
      BY <2>3
    <3> QED
      BY <2>2, <3>1, SmallFits, Zenon
  <2>7. pad = Padding(L, 4) /\ pad \in 0 .. 3
    <3>1. /\ at + (4 + L) = (at + 4) + L /\ at + 4 \in Nat /\ (at + 4) % 4 = 0
      BY <2>3
    <3>2. pad = Padding((at + 4) + L, 4)
      BY <2>4, <3>1, Zenon
    <3> QED
      BY <2>3, <3>1, <3>2, PaddingIsMissing, Zenon
  <2> HIDE DEF pad
  <2>8. pad \in Nat
    BY <2>7
  <2>9. zeros \in Seq(Byte) /\ Len(zeros) = pad
    BY <2>8, ZerosType, Zenon
  <2> HIDE DEF zeros
  <2>10. Argument(call, at) \in Seq(Byte) /\ Len(Argument(call, at)) = (4 + L) + pad
    BY <2>4, <2>5, <2>9, ConcatBytes, Zenon
  <2>11. ASSUME NEW src, Holds(src, at, Argument(call, at))
         PROVE  /\ Opaque(src, at) = call.argument
                /\ Behind(src, at) = at + Len(Argument(call, at))
    <3>1. Holds(src, at, path)
      BY <2>4, <2>5, <2>9, <2>11, HoldsConcat, Zenon
    <3>2. Opaque(src, at) = call.argument /\ Behind(src, at) = at + 4 + L + pad
      BY <2>2, <2>6, <2>7, <3>1, OpaqueIsRead, Zenon DEF L, path
    <3>3. at + 4 + L + pad = at + ((4 + L) + pad)
      BY <2>3, <2>8
    <3> QED
      BY <2>10, <3>2, <3>3, Zenon
  <2>12. Len(Argument(call, at)) <= L + 7
    BY <2>3, <2>7, <2>10
  <2> QED
    BY <1>2, <2>10, <2>11, <2>12, Zenon DEF L
<1> QED
  BY <1>1, <1>2, Zenon
\* The credentials are at most 27 bytes longer than the name in them.
LEMMA CredentialsFit ==
    ASSUME stamp \in U32, machine \in Machines
    PROVE  Len(machine) \in Nat /\ Len(Credentials) <= 27 + Len(machine)
<1>1. Len(Credentials) = 24 + Len(machine) + Padding(Len(machine), 4)
  BY CredentialsAreRead, Zenon
<1>2. Len(machine) \in Nat
  BY TextsAssumption
<1>3. Padding(Len(machine), 4) \in 0 .. 3
  BY <1>2, PaddingIsMissing
<1> QED
  BY <1>1, <1>2, <1>3

\* A message behind its mark is at most 83 bytes longer than its texts.
LEMMA MessageFits ==
    ASSUME NEW name \in Nat, NEW text \in Nat, NEW size \in Nat, NEW argument \in Nat,
           size <= 27 + name, argument <= text + 16
    PROVE  /\ ((44 + size) + argument) - 4 \in Nat
           /\ ((44 + size) + argument) - 4 <= name + text + 83
<1>1. ((44 + size) + argument) - 4 = 40 + size + argument
  OBVIOUS
<1>2. 40 + size + argument <= 40 + (27 + name) + (text + 16)
  OBVIOUS
<1> QED
  BY <1>1, <1>2

\* The argument is at most 16 bytes longer than the path in it, if there is one.
LEMMA ArgumentFits ==
    ASSUME call \in Calls, NEW at \in Nat, at % 4 = 0
    PROVE  \E path \in Paths \cup {<<>>} :
              Len(path) \in Nat /\ Len(Argument(call, at)) <= Len(path) + 16
<1>1. CASE IsGetPort(call)
  <2>1. Len(Argument(call, at)) = 16 /\ Len(<<>>) = 0
    BY <1>1, ArgumentIsRead
  <2> QED
    BY <2>1
<1>2. CASE ~ IsGetPort(call)
  <2>1. call.argument \in Paths /\ Len(Argument(call, at)) <= Len(call.argument) + 7
    BY <1>2, CallsType, ArgumentIsRead
  <2>2. Len(call.argument) \in Nat
    BY <2>1, TextsAssumption
  <2>3. Len(Argument(call, at)) \in Nat
    BY ArgumentIsRead
  <2>4. Len(Argument(call, at)) <= Len(call.argument) + 16
    BY <2>1, <2>2, <2>3
  <2> QED
    BY <2>1, <2>2, <2>4
<1> QED
  BY <1>1, <1>2

\* Numbers on the way.
LEMMA LongEnough ==
    ASSUME NEW size \in Nat, NEW rest \in Nat, NEW n, n = (44 + size) + rest
    PROVE  /\ n \in Nat /\ n >= 44 + size /\ n >= 5
           /\ \A at \in 4 .. 24 : at \in Nat /\ at >= 4 /\ at + 4 <= n
           /\ 28 >= 4 /\ 16 + size \in Nat /\ 28 + (16 + size) <= n
           /\ 44 + size \in Nat /\ 44 + size >= 4 /\ (44 + size) + rest <= n
OBVIOUS

\* The six words of RPC::makeRPC, each in its place.
LEMMA HeaderIsHeld ==
    ASSUME xid \in U32, call \in Calls
    PROVE  /\ MakeRPC(xid, call) \in Seq(Byte) /\ Len(MakeRPC(xid, call)) = 24
           /\ \A src : Holds(src, 0, MakeRPC(xid, call)) =>
                 /\ Holds(src, 4, EncodeU32(xid)) /\ Holds(src, 8, EncodeU32(0))
                 /\ Holds(src, 12, EncodeU32(2)) /\ Holds(src, 16, EncodeU32(call.program))
                 /\ Holds(src, 20, EncodeU32(call.version))
<1> DEFINE ws == <<0, xid, 0, 2, call.program, call.version>>
<1>1. 0 \in U32 /\ 2 \in U32 /\ call.program \in U32 /\ call.version \in U32
  BY SmallFits, CallsType
<1>2. /\ ws \in Seq(U32) /\ Len(ws) = 6
      /\ ws[2] = xid /\ ws[3] = 0 /\ ws[4] = 2
      /\ ws[5] = call.program /\ ws[6] = call.version
  BY <1>1
<1>3. MakeRPC(xid, call) = EncodeWords(ws)
  BY DEF MakeRPC
<1> HIDE DEF ws
<1>4. 4 * 6 = 24 /\ \A i \in 2 .. 6 : i \in 1 .. 6
  OBVIOUS
<1>5. EncodeWords(ws) \in Seq(Byte) /\ Len(EncodeWords(ws)) = 24
  BY <1>2, <1>4, WordsType, Zenon
<1>6. ASSUME NEW src, Holds(src, 0, EncodeWords(ws)), NEW i \in 1 .. 6
      PROVE  Holds(src, 0 + 4 * (i - 1), EncodeU32(ws[i]))
  <2>1. 0 \in Nat
    OBVIOUS
  <2> QED
    BY <1>2, <1>6, <2>1, WordsAreHeld, Zenon
<1>7. /\ 0 + 4 * (2 - 1) = 4 /\ 0 + 4 * (3 - 1) = 8 /\ 0 + 4 * (4 - 1) = 12
      /\ 0 + 4 * (5 - 1) = 16 /\ 0 + 4 * (6 - 1) = 20
      /\ 2 \in 1 .. 6 /\ 3 \in 1 .. 6 /\ 4 \in 1 .. 6 /\ 5 \in 1 .. 6 /\ 6 \in 1 .. 6
  OBVIOUS
<1>8. ASSUME NEW src, Holds(src, 0, EncodeWords(ws))
      PROVE  /\ Holds(src, 4, EncodeU32(xid)) /\ Holds(src, 8, EncodeU32(0))
             /\ Holds(src, 12, EncodeU32(2)) /\ Holds(src, 16, EncodeU32(call.program))
             /\ Holds(src, 20, EncodeU32(call.version))
  <2>1. Holds(src, 0 + 4 * (2 - 1), EncodeU32(ws[2]))
    BY <1>6, <1>7, <1>8, Zenon
  <2>2. Holds(src, 0 + 4 * (3 - 1), EncodeU32(ws[3]))
    BY <1>6, <1>7, <1>8, Zenon
  <2>3. Holds(src, 0 + 4 * (4 - 1), EncodeU32(ws[4]))
    BY <1>6, <1>7, <1>8, Zenon
  <2>4. Holds(src, 0 + 4 * (5 - 1), EncodeU32(ws[5]))
    BY <1>6, <1>7, <1>8, Zenon
  <2>5. Holds(src, 0 + 4 * (6 - 1), EncodeU32(ws[6]))
    BY <1>6, <1>7, <1>8, Zenon
  <2> QED
    BY <1>2, <1>7, <2>1, <2>2, <2>3, <2>4, <2>5, Zenon
<1> QED
  BY <1>3, <1>5, <1>8, Zenon

\* What the server finds in a request, part by part.
LEMMA RequestIsRead ==
    ASSUME xid \in U32, stamp \in U32, machine \in Machines, call \in Calls
    PROVE  LET src == Source(Request, 0)
               size == Len(Credentials)
               argument == Argument(call, 44 + size)
           IN  /\ size \in Nat /\ size % 4 = 0
               /\ Request \in Seq(Byte) /\ argument \in Seq(Byte)
               /\ Len(Request) = (44 + size) + Len(argument)
               /\ src[1] >= HighBit
               /\ DecodeU32(StripLastFragment(src), 0) = Len(Request) - 4
               /\ DecodeU32(src, 4) = xid /\ DecodeU32(src, 8) = 0
               /\ DecodeU32(src, 12) = 2 /\ DecodeU32(src, 16) = call.program
               /\ DecodeU32(src, 20) = call.version /\ DecodeU32(src, 24) = call.procedure
               /\ DecodeU32(src, 28) = 1 /\ DecodeU32(src, 32) = size
               /\ Holds(src, 36, Credentials)
               /\ WordsAt(src, 36 + size, 2) = <<0, 0>>
               /\ DecodeU32(src, 40 + size) = 0
               /\ Holds(src, 44 + size, argument)
<1> DEFINE first == MakeRPC(xid, call)
           second == EncodeU32(call.procedure)
           third == AddAuthSys
           head == (first \o second) \o third
           argument == Argument(call, Len(head))
           message == head \o argument
           src == Source(Request, 0)
           size == Len(Credentials)
<1>1. 0 \in U32 /\ 2 \in U32 /\ call.program \in U32 /\ call.version \in U32
      /\ call.procedure \in U32
  BY SmallFits, CallsType
<1>2. Credentials \in Seq(Byte) /\ size \in U32 /\ size % 4 = 0 /\ size \in Nat
  <2>1. Credentials \in Seq(Byte) /\ size \in U32 /\ size % 4 = 0
    BY CredentialsAreRead, Zenon
  <2> QED
    BY <2>1, SmallFits, Zenon
<1>3. first \in Seq(Byte) /\ Len(first) = 24
  BY HeaderIsHeld, Zenon
<1>4. second \in Seq(Byte) /\ Len(second) = 4
  <2>1. call.procedure \in Int
    BY <1>1 DEF U32
  <2> QED
    BY <2>1, EncodeU32Type, Zenon DEF WordBytes
<1>5. third \in Seq(Byte) /\ Len(third) = 16 + size
  BY AuthIsRead, Zenon
<1>6. Request = Sealed(message)
  BY Zenon DEF Request
<1> HIDE DEF first, second, third, size
<1>7. first \o second \in Seq(Byte) /\ Len(first \o second) = 24 + 4
  BY <1>3, <1>4, ConcatBytes, Zenon
<1>8. head \in Seq(Byte) /\ Len(head) = 44 + size
  <2>1. head \in Seq(Byte) /\ Len(head) = (24 + 4) + (16 + size)
    BY <1>5, <1>7, ConcatBytes, Zenon
  <2>2. (24 + 4) + (16 + size) = 44 + size
    BY <1>2
  <2> QED
    BY <2>1, <2>2, Zenon
<1> HIDE DEF head
<1>9. argument \in Seq(Byte) /\ argument = Argument(call, 44 + size)
  <2>1. 44 + size \in Nat /\ (44 + size) % 4 = 0
    BY <1>2
  <2> QED
    BY <1>8, <2>1, ArgumentIsRead, Zenon
<1> HIDE DEF argument
<1>10. message \in Seq(Byte) /\ Len(message) = (44 + size) + Len(argument)
  <2>1. head \in Seq(Byte) /\ argument \in Seq(Byte)
    BY <1>8, <1>9, Zenon
  <2>2. message \in Seq(Byte) /\ Len(message) = Len(head) + Len(argument)
    BY <2>1, ConcatBytes, Zenon
  <2>3. Len(head) = 44 + size
    BY <1>8, Zenon
  <2> HIDE DEF message
  <2> QED
    BY <2>2, <2>3, Zenon
<1> HIDE DEF message
<1>11. Len(argument) \in Nat /\ Len(message) \in Nat /\ Len(message) >= 44 + size
       /\ Len(message) >= 5
  <2>1. Len(argument) \in Nat
    BY <1>9
  <2> QED
    BY <1>2, <1>10, <2>1, LongEnough, Zenon
<1>12. Request \in Seq(Byte) /\ Len(Request) = (44 + size) + Len(argument)
  BY <1>6, <1>10, <1>11, SealedHolds, Zenon
<1>21. /\ src[1] >= HighBit
       /\ DecodeU32(StripLastFragment(src), 0) = Len(Request) - 4
  <2>1. Len(message) - 4 \in 0 .. HighBit * (Base * Base * Base) - 1
    <3>1. size <= 27 + Len(machine) /\ Len(machine) \in Nat
      BY CredentialsFit DEF size
    <3>2. PICK path \in Paths \cup {<<>>} :
             Len(path) \in Nat /\ Len(argument) <= Len(path) + 16
      BY <1>2, <1>8, <1>9, ArgumentFits DEF argument
    <3>3. Len(message) - 4 \in Nat /\ Len(message) - 4 <= Len(machine) + Len(path) + 83
      <4>1. Len(path) \in Nat /\ Len(argument) \in Nat /\ size \in Nat
        BY <1>2, <1>11, <3>2, Zenon
      <4>2. /\ ((44 + size) + Len(argument)) - 4 \in Nat
            /\ ((44 + size) + Len(argument)) - 4 <= Len(machine) + Len(path) + 83
        BY <3>1, <3>2, <4>1, MessageFits
      <4> QED
        BY <1>10, <4>2
    <3> QED
      BY <3>3, SizesFit
  <2>2. /\ Source(Sealed(message), 0)[1] >= HighBit
        /\ DecodeU32(StripLastFragment(Source(Sealed(message), 0)), 0) = Len(message) - 4
    BY <1>10, <1>11, <2>1, SealedMark
  <2> QED
    BY <1>6, <1>10, <1>12, <2>2
<1>13. Holds(message, 0, head) /\ Holds(message, 44 + size, argument)
  BY <1>8, <1>9, HoldsBehind, Zenon DEF message
<1>14. Holds(message, 0, first) /\ Holds(message, 24, second) /\ Holds(message, 28, third)
  <2>1. 0 \in Nat /\ 0 + 24 = 24 /\ 0 + (24 + 4) = 28
    OBVIOUS
  <2>2. /\ Holds(message, 0, first \o second)
        /\ Holds(message, 0 + Len(first \o second), third)
    <3>1. Holds(message, 0, (first \o second) \o third)
      BY <1>13 DEF head
    <3> QED
      BY <1>5, <1>7, <2>1, <3>1, HoldsConcat, Zenon
  <2>3. 0 + Len(first \o second) = 28 /\ 0 + Len(first) = 24
    BY <1>3, <1>7, <2>1, Zenon
  <2>4. Holds(message, 0, first) /\ Holds(message, 0 + Len(first), second)
    BY <1>3, <1>4, <2>1, <2>2, HoldsConcat, Zenon
  <2> QED
    BY <2>2, <2>3, <2>4, Zenon
<1>15. ASSUME NEW at \in {4, 8, 12, 16, 20, 24}, NEW w \in U32, Holds(message, at, EncodeU32(w))
       PROVE  DecodeU32(src, at) = w
  <2>1. Len(EncodeU32(w)) = 4 /\ 4 \in Nat
    <3>1. w \in Int
      BY DEF U32
    <3> QED
      BY <3>1, EncodeU32Type, Zenon DEF WordBytes
  <2>2. at \in Nat /\ at >= 4 /\ at + 4 <= Len(message)
    <3>1. at \in 4 .. 24
      OBVIOUS
    <3> QED
      BY <1>2, <1>11, <3>1, LongEnough
  <2>3. Holds(src, at, EncodeU32(w))
    BY <1>6, <1>10, <1>11, <1>15, <2>1, <2>2, SealedKeeps, Zenon
  <2> QED
    BY <2>2, <2>3, WordIsRead, Zenon
<1>16. /\ Holds(message, 4, EncodeU32(xid)) /\ Holds(message, 8, EncodeU32(0))
       /\ Holds(message, 12, EncodeU32(2)) /\ Holds(message, 16, EncodeU32(call.program))
       /\ Holds(message, 20, EncodeU32(call.version))
       /\ Holds(message, 24, EncodeU32(call.procedure))
  BY <1>14, HeaderIsHeld, Zenon DEF first, second
<1>17. /\ DecodeU32(src, 4) = xid /\ DecodeU32(src, 8) = 0
       /\ DecodeU32(src, 12) = 2 /\ DecodeU32(src, 16) = call.program
       /\ DecodeU32(src, 20) = call.version /\ DecodeU32(src, 24) = call.procedure
  BY <1>1, <1>15, <1>16, Zenon
<1>18. Holds(src, 28, third)
  <2>1. /\ 28 \in Nat /\ 28 >= 4 /\ 16 + size \in Nat
        /\ 28 + (16 + size) <= Len(message)
    BY <1>2, <1>11, LongEnough
  <2> QED
    BY <1>5, <1>6, <1>10, <1>11, <1>14, <2>1, SealedKeeps, Zenon
<1>19. Holds(src, 44 + size, argument)
  <2>1. 44 + size \in Nat /\ 44 + size >= 4 /\ (44 + size) + Len(argument) <= Len(message)
    BY <1>2, <1>10, <1>11, LongEnough
  <2> QED
    BY <1>6, <1>10, <1>11, <1>13, <2>1, SealedKeeps, Zenon
<1>20. /\ DecodeU32(src, 28) = 1 /\ DecodeU32(src, 32) = size
       /\ Holds(src, 36, Credentials)
       /\ WordsAt(src, 36 + size, 2) = <<0, 0>>
       /\ DecodeU32(src, 40 + size) = 0
  <2>1. /\ 28 \in Nat /\ 28 + 4 = 32 /\ 28 + 8 = 36 /\ 28 + (8 + size) = 36 + size
        /\ (28 + (8 + size)) + 4 = 40 + size
    BY <1>2
  <2>2. /\ DecodeU32(src, 28) = 1 /\ DecodeU32(src, 28 + 4) = size
        /\ Holds(src, 28 + 8, Credentials)
        /\ WordsAt(src, 28 + (8 + size), 2) = <<0, 0>>
        /\ DecodeU32(src, (28 + (8 + size)) + 4) = 0
    BY <1>18, <2>1, AuthIsRead, Zenon DEF size, third
  <2> QED
    BY <2>1, <2>2, Zenon
<1> QED
  BY <1>2, <1>9, <1>12, <1>17, <1>19, <1>20, <1>21, Zenon DEF size
\* Words one by one, seven of them.
LEMMA SevenWords ==
    ASSUME NEW src, NEW a, NEW b, NEW c, NEW d, NEW e, NEW f, NEW g,
           DecodeU32(src, 4) = a, DecodeU32(src, 8) = b, DecodeU32(src, 12) = c,
           DecodeU32(src, 16) = d, DecodeU32(src, 20) = e, DecodeU32(src, 24) = f,
           DecodeU32(src, 28) = g
    PROVE  WordsAt(src, 4, 7) = <<a, b, c, d, e, f, g>>
<1> DEFINE word(i) == DecodeU32(src, 4 + 4 * (i - 1))
           ws == <<a, b, c, d, e, f, g>>
<1>1. WordsAt(src, 4, 7) = [i \in 1 .. 7 |-> word(i)]
  BY Zenon DEF WordsAt, WordBytes
<1>2. /\ 4 + 4 * (1 - 1) = 4 /\ 4 + 4 * (2 - 1) = 8 /\ 4 + 4 * (3 - 1) = 12
      /\ 4 + 4 * (4 - 1) = 16 /\ 4 + 4 * (5 - 1) = 20 /\ 4 + 4 * (6 - 1) = 24
      /\ 4 + 4 * (7 - 1) = 28
  OBVIOUS
<1>3. /\ word(1) = a /\ word(2) = b /\ word(3) = c /\ word(4) = d
      /\ word(5) = e /\ word(6) = f /\ word(7) = g
  BY <1>2, Zenon
<1> HIDE DEF word
<1>4. ws = [i \in 1 .. 7 |-> ws[i]]
  OBVIOUS
<1>5. ASSUME NEW i \in 1 .. 7 PROVE word(i) = ws[i]
  BY <1>3
<1> HIDE DEF ws
<1>6. [i \in 1 .. 7 |-> word(i)] = [i \in 1 .. 7 |-> ws[i]]
  BY <1>5
<1> QED
  BY <1>1, <1>4, <1>6, Zenon DEF ws

\* A server hears what was meant.
LEMMA RequestHeard ==
    ASSUME xid \in U32, stamp \in U32, machine \in Machines, call \in Calls, wire = Request
    PROVE  LET heard == Heard(Source(wire, 0)) IN
           /\ heard.last /\ heard.size = Len(wire) - 4
           /\ heard.header = <<xid, 0, 2, call.program, call.version, call.procedure, 1>>
           /\ heard.stamp = stamp
           /\ heard.machine = machine
           /\ heard.ids = <<0, 0, 1, 0>>
           /\ heard.idsEnd = heard.verifierAt
           /\ heard.verifier = <<0, 0>>
           /\ heard.argument = call.argument
           /\ heard.end = Len(wire)
<1> DEFINE src == Source(wire, 0)
           size == Len(Credentials)
           argument == Argument(call, 44 + size)
<1>1. /\ size \in Nat /\ size % 4 = 0
      /\ Len(wire) = (44 + size) + Len(argument) /\ argument \in Seq(Byte)
      /\ src[1] >= HighBit /\ DecodeU32(StripLastFragment(src), 0) = Len(wire) - 4
      /\ DecodeU32(src, 4) = xid /\ DecodeU32(src, 8) = 0
      /\ DecodeU32(src, 12) = 2 /\ DecodeU32(src, 16) = call.program
      /\ DecodeU32(src, 20) = call.version /\ DecodeU32(src, 24) = call.procedure
      /\ DecodeU32(src, 28) = 1 /\ DecodeU32(src, 32) = size
      /\ Holds(src, 36, Credentials)
      /\ WordsAt(src, 36 + size, 2) = <<0, 0>>
      /\ DecodeU32(src, 40 + size) = 0
      /\ Holds(src, 44 + size, argument)
  BY RequestIsRead, Zenon
<1>2. /\ size = 24 + Len(machine) + Padding(Len(machine), 4)
      /\ \A at \in Nat : Holds(src, at, Credentials) =>
            /\ DecodeU32(src, at) = stamp
            /\ Opaque(src, at + 4) = machine
            /\ Behind(src, at + 4) = at + (24 + Len(machine) + Padding(Len(machine), 4)) - 16
            /\ WordsAt(src, at + (24 + Len(machine) + Padding(Len(machine), 4)) - 16, 4)
                 = <<0, 0, 1, 0>>
  BY CredentialsAreRead, Zenon
<1> HIDE DEF src, size, argument
<1>3. WordsAt(src, 4, 7)
        = <<xid, 0, 2, call.program, call.version, call.procedure, 1>>
  <2>1. /\ DecodeU32(src, 4) = xid /\ DecodeU32(src, 8) = 0 /\ DecodeU32(src, 12) = 2
        /\ DecodeU32(src, 16) = call.program /\ DecodeU32(src, 20) = call.version
        /\ DecodeU32(src, 24) = call.procedure /\ DecodeU32(src, 28) = 1
    BY <1>1, Zenon
  <2> QED
    BY <2>1, SevenWords
<1>4. /\ DecodeU32(src, 36) = stamp /\ Opaque(src, 40) = machine
      /\ Behind(src, 40) = 36 + size - 16
      /\ WordsAt(src, 36 + size - 16, 4) = <<0, 0, 1, 0>>
  <2>1. 36 \in Nat /\ 36 + 4 = 40
    OBVIOUS
  <2>2. Holds(src, 36, Credentials)
    BY <1>1, Zenon
  <2>3. /\ DecodeU32(src, 36) = stamp /\ Opaque(src, 36 + 4) = machine
        /\ Behind(src, 36 + 4)
             = 36 + (24 + Len(machine) + Padding(Len(machine), 4)) - 16
        /\ WordsAt(src, 36 + (24 + Len(machine) + Padding(Len(machine), 4)) - 16, 4)
             = <<0, 0, 1, 0>>
    BY <1>2, <2>1, <2>2, Zenon
  <2>4. /\ Behind(src, 36 + 4) = 36 + size - 16
        /\ WordsAt(src, 36 + size - 16, 4) = <<0, 0, 1, 0>>
    BY <1>2, <2>3, Zenon
  <2> QED
    BY <2>1, <2>3, <2>4, Zenon
<1>5. Behind(src, 32) = 36 + size
  <2>1. Padding(size, 4) = 0
    BY <1>1, PaddingIsMissing, Zenon
  <2>2. Behind(src, 32) = 32 + 4 + size + 0
    BY <1>1, <2>1, Zenon DEF Behind, WordBytes
  <2>3. 32 + 4 + size + 0 = 36 + size
    BY <1>1
  <2> QED
    BY <2>2, <2>3, Zenon
<1>6. Behind(src, (36 + size) + 4) = 44 + size
  <2>1. (36 + size) + 4 = 40 + size /\ 40 + size + 4 + 0 + 0 = 44 + size
    BY <1>1
  <2>2. Padding(0, 4) = 0
    BY DEF Padding
  <2>3. Behind(src, 40 + size) = 40 + size + 4 + 0 + 0
    BY <1>1, <2>2, Zenon DEF Behind, WordBytes
  <2> QED
    BY <2>1, <2>3, Zenon
<1>7. (36 + size - 16) + 16 = 36 + size
  BY <1>1
<1>8. /\ argument \in Seq(Byte)
      /\ IsGetPort(call) => Len(argument) = 16
      /\ IF IsGetPort(call)
         THEN WordsAt(src, 44 + size, 4) = call.argument
         ELSE /\ Opaque(src, 44 + size) = call.argument
              /\ Behind(src, 44 + size) = (44 + size) + Len(argument)
  <2>1. 44 + size \in Nat /\ (44 + size) % 4 = 0
    BY <1>1
  <2> QED
    BY <1>1, <2>1, ArgumentIsRead, Zenon DEF argument
<1>9. (DecodeU32(src, 16) = PORTMAP) <=> IsGetPort(call)
  BY <1>1, Zenon DEF IsGetPort
<1> DEFINE heard == Heard(src)
<1>10. heard = [last |-> src[1] >= HighBit,
                size |-> DecodeU32(StripLastFragment(src), 0),
                header |-> WordsAt(src, 4, 7),
                stamp |-> DecodeU32(src, 36),
                machine |-> Opaque(src, 40),
                ids |-> WordsAt(src, 36 + size - 16, 4),
                idsEnd |-> (36 + size - 16) + 16,
                verifierAt |-> 36 + size,
                verifier |-> WordsAt(src, 36 + size, 2),
                argument |-> IF DecodeU32(src, 16) = PORTMAP
                             THEN WordsAt(src, 44 + size, 4) ELSE Opaque(src, 44 + size),
                end |-> IF DecodeU32(src, 16) = PORTMAP
                        THEN (44 + size) + 16 ELSE Behind(src, 44 + size)]
  BY <1>4, <1>5, <1>6, Zenon DEF Heard, WordBytes
<1> HIDE DEF heard
<1>11. /\ heard.last = (src[1] >= HighBit)
       /\ heard.size = DecodeU32(StripLastFragment(src), 0)
       /\ heard.header = WordsAt(src, 4, 7)
       /\ heard.stamp = DecodeU32(src, 36)
       /\ heard.machine = Opaque(src, 40)
       /\ heard.ids = WordsAt(src, 36 + size - 16, 4)
       /\ heard.idsEnd = (36 + size - 16) + 16
       /\ heard.verifierAt = 36 + size
       /\ heard.verifier = WordsAt(src, 36 + size, 2)
       /\ heard.argument = IF DecodeU32(src, 16) = PORTMAP
                           THEN WordsAt(src, 44 + size, 4) ELSE Opaque(src, 44 + size)
       /\ heard.end = IF DecodeU32(src, 16) = PORTMAP
                      THEN (44 + size) + 16 ELSE Behind(src, 44 + size)
  BY <1>10
<1>12. heard.argument = call.argument /\ heard.end = Len(wire)
  <2>1. Len(wire) = (44 + size) + Len(argument)
    BY <1>1, Zenon
  <2>2. CASE IsGetPort(call)
    <3>1. heard.argument = WordsAt(src, 44 + size, 4) /\ heard.end = (44 + size) + 16
      BY <1>9, <1>11, <2>2, Zenon
    <3> QED
      BY <1>8, <2>1, <2>2, <3>1, Zenon
  <2>3. CASE ~ IsGetPort(call)
    <3>1. heard.argument = Opaque(src, 44 + size) /\ heard.end = Behind(src, 44 + size)
      BY <1>9, <1>11, <2>3, Zenon
    <3> QED
      BY <1>8, <2>1, <2>3, <3>1, Zenon
  <2> QED
    BY <2>2, <2>3, Zenon
<1>13. heard.last /\ heard.size = Len(wire) - 4
  BY <1>1, <1>11, Zenon
<1>14. /\ heard.header = <<xid, 0, 2, call.program, call.version, call.procedure, 1>>
       /\ heard.stamp = stamp /\ heard.machine = machine /\ heard.ids = <<0, 0, 1, 0>>
       /\ heard.idsEnd = heard.verifierAt /\ heard.verifier = <<0, 0>>
  BY <1>3, <1>4, <1>1, <1>7, <1>11, Zenon
<1> QED
  BY <1>12, <1>13, <1>14, Zenon DEF heard, src
-----------------------------------------------------------------------------
(***************************************************************************)
(* The reply.                                                              *)
(***************************************************************************)

\* A padded opaque is found again, and its end is known.
LEMMA PaddedIsRead ==
    ASSUME NEW b \in Seq(Byte), Len(b) \in U32
    PROVE  /\ Padded(b) \in Seq(Byte)
           /\ Len(Padded(b)) = 4 + Len(b) + Padding(Len(b), 4)
           /\ \A src : \A at \in Nat : Holds(src, at, Padded(b)) =>
                 DecodeU32(src, at) = Len(b) /\ Opaque(src, at) = b
<1> DEFINE L == Len(b)
           pad == Padding(L, 4)
           zeros == Zeros(pad)
           bytes == EncodeBytes(b)
<1>1. L \in Nat
  OBVIOUS
<1>2. bytes \in Seq(Byte) /\ Len(bytes) = 4 + L
  BY EncodeBytesType, Zenon DEF WordBytes
<1>3. Padded(b) = bytes \o zeros
  BY Zenon DEF Padded, WordBytes
<1> HIDE DEF L, bytes
<1>4. pad \in Nat
  <2>1. pad \in 0 .. 3
    BY <1>1, PaddingIsMissing, Zenon
  <2> QED
    BY <2>1
<1> HIDE DEF pad
<1>5. zeros \in Seq(Byte) /\ Len(zeros) = pad
  BY <1>4, ZerosType, Zenon
<1> HIDE DEF zeros
<1>6. Padded(b) \in Seq(Byte) /\ Len(Padded(b)) = (4 + L) + pad
  BY <1>2, <1>3, <1>5, ConcatBytes, Zenon
<1>7. ASSUME NEW src, NEW at \in Nat, Holds(src, at, Padded(b))
      PROVE  DecodeU32(src, at) = L /\ Opaque(src, at) = b
  <2>1. Holds(src, at, bytes)
    <3>1. Holds(src, at, bytes \o zeros)
      BY <1>3, <1>7, Zenon
    <3>2. bytes \in Seq(Byte) /\ zeros \in Seq(Byte)
      BY <1>2, <1>5, Zenon
    <3> QED
      BY <3>1, <3>2, HoldsConcat, Zenon
  <2> QED
    BY <2>1, OpaqueIsRead, Zenon DEF L, bytes
<1> QED
  BY <1>6, <1>7, Zenon DEF L, pad

\* No verifier is a length.
LEMMA NoVerifier ==
    Padded(<<>>) \in Seq(Byte) /\ Len(Padded(<<>>)) = 4
<1>1. <<>> \in Seq(Byte) /\ Len(<<>>) = 0 /\ 0 \in U32
  BY SmallFits
<1>2. Padding(0, 4) = 0 /\ 4 + 0 + 0 = 4
  BY DEF Padding
<1> QED
  BY <1>1, <1>2, PaddedIsRead, Zenon

\* Words before words.
LEMMA ConcatWords ==
    ASSUME NEW s \in Seq(U32), NEW t \in Seq(U32)
    PROVE  /\ s \o t \in Seq(U32) /\ Len(s \o t) = Len(s) + Len(t)
           /\ \A i \in 1 .. Len(s) : (s \o t)[i] = s[i]
           /\ \A i \in 1 .. Len(t) : (s \o t)[Len(s) + i] = t[i]
<1>1. s \o t \in Seq(U32) /\ Len(s \o t) = Len(s) + Len(t)
  OBVIOUS
<1>2. ASSUME NEW i \in 1 .. Len(s) PROVE (s \o t)[i] = s[i]
  OBVIOUS
<1>3. ASSUME NEW i \in 1 .. Len(t) PROVE (s \o t)[Len(s) + i] = t[i]
  <2>1. Len(s) + i \in 1 .. Len(s) + Len(t) /\ ~(Len(s) + i <= Len(s))
    OBVIOUS
  <2>2. (Len(s) + i) - Len(s) = i
    OBVIOUS
  <2> QED
    BY <2>1, <2>2
<1> QED
  BY <1>1, <1>2, <1>3

\* A word before others.
LEMMA WordBeforeWords ==
    ASSUME NEW one \in Seq(U32), Len(one) = 1, NEW a \in Seq(U32)
    PROVE  /\ one \o a \in Seq(U32) /\ Len(one \o a) = 1 + Len(a)
           /\ (one \o a)[1] = one[1]
           /\ \A i \in 1 .. Len(a) : (one \o a)[1 + i] = a[i]
<1>1. 1 \in 1 .. 1
  OBVIOUS
<1>2. /\ one \o a \in Seq(U32) /\ Len(one \o a) = Len(one) + Len(a)
      /\ \A i \in 1 .. Len(one) : (one \o a)[i] = one[i]
      /\ \A i \in 1 .. Len(a) : (one \o a)[Len(one) + i] = a[i]
  BY ConcatWords, Zenon
<1> QED
  BY <1>1, <1>2, Zenon

\* Handles are short, and the number of flavors before the flavors is a word more.
LEMMA GrantsType ==
    ASSUME NEW h \in Granted, NEW a \in AuthLists
    PROVE  /\ h \in Seq(Byte) /\ Len(h) \in Nat /\ Len(h) <= 64 /\ Len(h) \in U32
           /\ a \in Seq(U32) /\ Len(a) \in Nat /\ Len(a) \in U32
           /\ <<Len(a)>> \o a \in Seq(U32)
           /\ Len(<<Len(a)>> \o a) = 1 + Len(a)
           /\ (<<Len(a)>> \o a)[1] = Len(a)
           /\ \A i \in 1 .. Len(a) : (<<Len(a)>> \o a)[1 + i] = a[i]
<1>1. h \in Seq(Byte) /\ Len(h) <= 64
  BY TextsAssumption
<1>2. Len(h) \in Nat
  BY <1>1
<1>3. Len(h) \in 0 .. 100
  <2>1. ASSUME NEW n \in Nat, n <= 64 PROVE n \in 0 .. 100
    BY <2>1
  <2> QED
    BY <1>1, <1>2, <2>1, Zenon
<1>4. Len(h) \in U32
  BY <1>3, SmallFits, Zenon
<1>5. a \in Seq(U32) /\ Len(a) \in U32
  BY WordsAssumption, SizesAssumption
<1>6. Len(a) \in Nat
  BY <1>5
<1> DEFINE n == Len(a)
           one == <<n>>
<1>7. one \in Seq(U32) /\ Len(one) = 1 /\ one[1] = n
  BY <1>5
<1> HIDE DEF one
<1>8. /\ one \o a \in Seq(U32) /\ Len(one \o a) = 1 + n /\ (one \o a)[1] = n
      /\ \A i \in 1 .. n : (one \o a)[1 + i] = a[i]
  BY <1>5, <1>7, WordBeforeWords, Zenon
<1> QED
  BY <1>1, <1>2, <1>4, <1>5, <1>6, <1>8, Zenon DEF one

\* The results of a call that succeeds.
LEMMA ResultsAre ==
    ASSUME NEW r \in Results(call)
    PROVE  /\ IsGetPort(call) => \E port \in Ports : r = [port |-> port]
           /\ ~ IsGetPort(call) /\ IsMount(call) =>
                \/ r = [status |-> 13, handle |-> <<>>, auths |-> <<>>]
                \/ \E h \in Granted, a \in AuthLists :
                     r = [status |-> 0, handle |-> h, auths |-> a]
           /\ ~ IsGetPort(call) /\ ~ IsMount(call) => r = [done |-> TRUE]
<1>1. CASE IsGetPort(call)
  BY <1>1 DEF Results
<1>2. CASE ~ IsGetPort(call) /\ IsMount(call)
  <2>1. \/ r = [status |-> 13, handle |-> <<>>, auths |-> <<>>]
        \/ \E h \in Granted, a \in AuthLists :
             r = [status |-> 0, handle |-> h, auths |-> a]
    BY <1>2 DEF Results
  <2> QED
    BY <1>2, <2>1, Zenon
<1>3. CASE ~ IsGetPort(call) /\ ~ IsMount(call)
  <2>1. r = [done |-> TRUE]
    BY <1>3 DEF Results
  <2> QED
    BY <1>3, <2>1, Zenon
<1> QED
  BY <1>1, <1>2, <1>3

\* What the results of a call that succeeds are sent as.
LEMMA ResultsType ==
    ASSUME NEW r \in Results(call)
    PROVE  ResultBytes(call, r) \in Seq(Byte)
<1>1. CASE IsGetPort(call)
  <2>1. PICK port \in Ports : r = [port |-> port]
    BY <1>1, ResultsAre, Zenon
  <2>2. port \in Int
    BY WordsAssumption DEF U32
  <2>3. ResultBytes(call, r) = EncodeU32(port)
    BY <1>1, <2>1 DEF ResultBytes
  <2> QED
    BY <2>2, <2>3, EncodeU32Type
<1>2. CASE ~ IsGetPort(call) /\ IsMount(call)
  <2>1. CASE r = [status |-> 13, handle |-> <<>>, auths |-> <<>>]
    <3>1. ResultBytes(call, r) = EncodeU32(13)
      BY <1>2, <2>1 DEF ResultBytes
    <3> QED
      BY <3>1, EncodeU32Type
  <2>2. CASE \E h \in Granted, a \in AuthLists : r = [status |-> 0, handle |-> h, auths |-> a]
    <3>1. PICK h \in Granted, a \in AuthLists : r = [status |-> 0, handle |-> h, auths |-> a]
      BY <2>2
    <3> DEFINE word == EncodeU32(0)
               ws == <<Len(a)>> \o a
               words == EncodeWords(ws)
               handle == Padded(h)
    <3>2. h \in Seq(Byte) /\ Len(h) \in U32
      BY GrantsType
    <3>3. ws \in Seq(U32)
      BY GrantsType
    <3>4. ResultBytes(call, r) = (word \o handle) \o words
      BY <1>2, <3>1 DEF ResultBytes
    <3>5. word \in Seq(Byte)
      BY EncodeU32Type
    <3>6. handle \in Seq(Byte)
      BY <3>2, PaddedIsRead, Zenon
    <3> HIDE DEF ws
    <3>7. words \in Seq(Byte)
      BY <3>3, WordsType, Zenon
    <3> HIDE DEF word, handle, words
    <3>8. word \o handle \in Seq(Byte)
      BY <3>5, <3>6, ConcatBytes, Zenon
    <3>9. (word \o handle) \o words \in Seq(Byte)
      BY <3>7, <3>8, ConcatBytes, Zenon
    <3> QED
      BY <3>4, <3>9, Zenon
  <2> QED
    BY <1>2, <2>1, <2>2, ResultsAre, Zenon
<1>3. CASE ~ IsGetPort(call) /\ ~ IsMount(call)
  <2>1. ResultBytes(call, r) = <<>>
    BY <1>3, Zenon DEF ResultBytes
  <2> QED
    BY <2>1
<1> QED
  BY <1>1, <1>2, <1>3

\* What lies behind accept_stat.
BehindStat(r) ==
    IF r.stat = 0 THEN ResultBytes(call, r.result)
    ELSE IF r.stat = 2 THEN EncodeWords(<<2, 3>>) ELSE <<>>

\* An accepted call without a verifier: where its words are, and its results.
LEMMA AcceptedIsRead ==
    ASSUME NEW r, r.accepted, r.verifier = <<>>, r.xid \in U32, r.stat \in U32,
           BehindStat(r) \in Seq(Byte)
    PROVE  /\ ReplyBytes(r) \in Seq(Byte) /\ Len(ReplyBytes(r)) = 24 + Len(BehindStat(r))
           /\ Holds(ReplyBytes(r), 24, BehindStat(r))
           /\ \A junk : LET src == Source(ReplyBytes(r), junk) IN
                 /\ DecodeU32(src, 0) = r.xid /\ DecodeU32(src, 8) = 0
                 /\ DecodeU32(src, 20) = r.stat
                 /\ Holds(src, 24, BehindStat(r))
<1> DEFINE first == EncodeWords(<<r.xid, 1, 0, 0>>)
           second == Padded(<<>>)
           third == EncodeU32(r.stat)
           last == BehindStat(r)
           bytes == ((first \o second) \o third) \o last
<1>1. 0 \in U32 /\ 1 \in U32
  BY SmallFits
<1>2. first \in Seq(Byte) /\ Len(first) = 16
  BY <1>1, FourWords
<1>3. second \in Seq(Byte) /\ Len(second) = 4
  BY NoVerifier, Zenon
<1>4. third \in Seq(Byte) /\ Len(third) = 4
  <2>1. r.stat \in Int
    BY DEF U32
  <2> QED
    BY <2>1, EncodeU32Type, Zenon DEF WordBytes
<1>5. ReplyBytes(r) = bytes
  BY Zenon DEF ReplyBytes, BehindStat
<1> HIDE DEF first, second, third, last
<1>6. last \in Seq(Byte) /\ Len(last) \in Nat
  <2>1. last \in Seq(Byte)
    BY DEF last
  <2> QED
    BY <2>1
<1>7. first \o second \in Seq(Byte) /\ Len(first \o second) = 16 + 4
  <2>1. /\ first \o second \in Seq(Byte)
        /\ Len(first \o second) = Len(first) + Len(second)
    BY <1>2, <1>3, ConcatBytes, Zenon
  <2> QED
    BY <1>2, <1>3, <2>1, Zenon
<1>8. /\ (first \o second) \o third \in Seq(Byte)
      /\ Len((first \o second) \o third) = 16 + 4 + 4
  BY <1>4, <1>7, ConcatBytes, Zenon
<1>9. bytes \in Seq(Byte) /\ Len(bytes) = 16 + 4 + 4 + Len(last)
  BY <1>6, <1>8, ConcatBytes, Zenon
<1>10. 16 + 4 + 4 = 24 /\ 0 + 16 = 16 /\ 0 + (16 + 4) = 20 /\ 0 + 24 = 24 /\ 0 \in Nat
       /\ 20 \in Nat /\ 24 \in Nat /\ 4 \in Nat /\ 16 \in Nat
  OBVIOUS
<1>11. Holds(bytes, 0, (first \o second) \o third) /\ Holds(bytes, 24, last)
  <2>1. /\ Holds(bytes, 0, (first \o second) \o third)
        /\ Holds(bytes, Len((first \o second) \o third), last)
    BY <1>6, <1>8, HoldsBehind, Zenon
  <2>2. Len((first \o second) \o third) = 24
    BY <1>8, <1>10, Zenon
  <2> QED
    BY <2>1, <2>2, Zenon
<1>12. Holds(bytes, 0, first) /\ Holds(bytes, 20, third)
  <2>1. /\ Holds(bytes, 0, first \o second)
        /\ Holds(bytes, 0 + Len(first \o second), third)
    BY <1>4, <1>7, <1>10, <1>11, HoldsConcat, Zenon
  <2>2. 0 + Len(first \o second) = 20
    BY <1>7, <1>10, Zenon
  <2>3. Holds(bytes, 0, first)
    BY <1>2, <1>3, <1>10, <2>1, HoldsConcat, Zenon
  <2> QED
    BY <2>1, <2>2, <2>3, Zenon
<1> HIDE DEF bytes
<1>13. ASSUME NEW junk
       PROVE  /\ DecodeU32(Source(bytes, junk), 0) = r.xid
              /\ DecodeU32(Source(bytes, junk), 8) = 0
              /\ DecodeU32(Source(bytes, junk), 20) = r.stat
              /\ Holds(Source(bytes, junk), 24, last)
  <2> DEFINE src == Source(bytes, junk)
  <2>1. /\ 0 + 16 <= Len(bytes) /\ 20 + 4 <= Len(bytes) /\ 24 + Len(last) <= Len(bytes)
    <3>1. ASSUME NEW n \in Nat
          PROVE  /\ 0 + 16 <= 16 + 4 + 4 + n /\ 20 + 4 <= 16 + 4 + 4 + n
                 /\ 24 + n <= 16 + 4 + 4 + n
      OBVIOUS
    <3> QED
      BY <1>6, <1>9, <3>1, Zenon
  <2>2. Holds(src, 0, first)
    BY <1>2, <1>9, <1>10, <1>12, <2>1, SourceHolds, Zenon
  <2>3. Holds(src, 20, third)
    BY <1>4, <1>9, <1>10, <1>12, <2>1, SourceHolds, Zenon
  <2>4. Holds(src, 24, last)
    BY <1>6, <1>9, <1>10, <1>11, <2>1, SourceHolds, Zenon
  <2> HIDE DEF src
  <2>5. DecodeU32(src, 0) = r.xid /\ DecodeU32(src, 8) = 0
    <3>1. Holds(src, 0, EncodeWords(<<r.xid, 1, 0, 0>>)) /\ 0 + 8 = 8
      BY <2>2 DEF first
    <3>2. \A x \in U32, m \in U32, n \in U32 :
             Holds(src, 0, EncodeWords(<<x, m, n, n>>)) =>
                DecodeU32(src, 0) = x /\ DecodeU32(src, 0 + 8) = n
      <4> SUFFICES ASSUME NEW x \in U32, NEW m \in U32, NEW n \in U32,
                          Holds(src, 0, EncodeWords(<<x, m, n, n>>))
                   PROVE  DecodeU32(src, 0) = x /\ DecodeU32(src, 0 + 8) = n
        OBVIOUS
      <4>1. \A at \in Nat : Holds(src, at, EncodeWords(<<x, m, n, n>>)) =>
               DecodeU32(src, at) = x /\ DecodeU32(src, at + 8) = n
        BY FourWords
      <4>2. 0 \in Nat
        OBVIOUS
      <4> QED
        BY <4>1, <4>2, Zenon
    <3>3. r.xid \in U32 /\ 0 \in U32 /\ 1 \in U32
      BY <1>1, Zenon
    <3>4. DecodeU32(src, 0) = r.xid /\ DecodeU32(src, 0 + 8) = 0
      BY <3>1, <3>2, <3>3, Zenon
    <3> QED
      BY <3>1, <3>4, Zenon
  <2>6. DecodeU32(src, 20) = r.stat
    <3>1. 20 \in Nat /\ Holds(src, 20, EncodeU32(r.stat))
      BY <1>10, <2>3, Zenon DEF third
    <3>2. r.stat \in U32
      BY <1>1, Zenon
    <3>3. \A at \in Nat : Holds(src, at, EncodeU32(r.stat)) => DecodeU32(src, at) = r.stat
      BY <3>2, WordIsRead, Zenon
    <3> QED
      BY <3>1, <3>3
  <2> QED
    BY <2>4, <2>5, <2>6, Zenon DEF src
<1> QED
  BY <1>5, <1>9, <1>10, <1>11, <1>13, Zenon DEF last

\* A call denied.
LEMMA DeniedIsRead ==
    ASSUME NEW r, ~ r.accepted, r.xid \in U32, r.stat \in 0 .. 2
    PROVE  \A junk : DecodeU32(Source(ReplyBytes(r), junk), 8) = 1
<1> DEFINE first == EncodeWords(<<r.xid, 1, 1, r.stat>>)
           last == IF r.stat = 0 THEN EncodeWords(<<2, 2>>) ELSE EncodeU32(5)
<1>1. 1 \in U32 /\ 2 \in U32 /\ r.stat \in U32
  BY SmallFits
<1>2. first \in Seq(Byte) /\ Len(first) = 16
  BY <1>1, FourWords
<1>3. last \in Seq(Byte)
  <2>1. EncodeWords(<<2, 2>>) \in Seq(Byte) /\ EncodeU32(5) \in Seq(Byte)
    BY <1>1, TwoWords, EncodeU32Type
  <2> QED
    BY <2>1, Zenon
<1>4. ReplyBytes(r) = first \o last
  BY Zenon DEF ReplyBytes
<1> HIDE DEF last, first
<1>5. first \o last \in Seq(Byte) /\ Len(first \o last) = 16 + Len(last)
  BY <1>2, <1>3, ConcatBytes, Zenon
<1>6. Len(last) \in Nat
  BY <1>3
<1>7. 0 + 16 <= 16 + Len(last) /\ 0 \in Nat /\ 16 \in Nat
  BY <1>6
<1>8. Holds(first \o last, 0, first)
  BY <1>2, <1>3, HoldsBehind, Zenon
<1>9. ASSUME NEW junk PROVE DecodeU32(Source(first \o last, junk), 8) = 1
  <2>1. Holds(Source(first \o last, junk), 0, EncodeWords(<<r.xid, 1, 1, r.stat>>))
    BY <1>2, <1>5, <1>7, <1>8, SourceHolds, Zenon DEF first
  <2>2. 0 + 8 = 8
    OBVIOUS
  <2>3. DecodeU32(Source(first \o last, junk), 0 + 8) = 1
    BY <1>1, <1>7, <2>1, FourWords
  <2> QED
    BY <2>2, <2>3, Zenon
<1> QED
  BY <1>4, <1>9, Zenon
\* The flavors behind a handle that is a whole number of words are those sent;
\* the handle is, whatever its length.
LEMMA GrantIsRead ==
    ASSUME NEW h \in Granted, NEW a \in AuthLists, NEW src,
           Holds(src, 28, Padded(h)),
           Holds(src, 28 + Len(Padded(h)), EncodeWords(<<Len(a)>> \o a))
    PROVE  /\ DecodedGrant(src, 28).handle = h
           /\ Len(h) % 4 = 0 =>
                DecodedGrant(src, 28) = [status |-> 0, handle |-> h, auths |-> a]
<1> DEFINE ws == <<Len(a)>> \o a
           L == Len(h)
           n == Len(a)
           end == (28 + 4) + L
<1>1. h \in Seq(Byte) /\ L \in Nat /\ L <= 64 /\ L \in U32
  BY GrantsType, Zenon
<1>2. /\ a \in Seq(U32) /\ n \in Nat /\ ws \in Seq(U32) /\ Len(ws) = 1 + n /\ ws[1] = n
      /\ \A i \in 1 .. n : ws[1 + i] = a[i]
  BY GrantsType, Zenon
<1> HIDE DEF ws, L, n
<1>3. DecodeU32(src, 28) = L /\ Opaque(src, 28) = h
  <2>1. 28 \in Nat
    OBVIOUS
  <2> QED
    BY <1>1, <2>1, PaddedIsRead, Zenon DEF L
<1> DEFINE grant == DecodedGrant(src, 28)
<1>4. grant = [status |-> 0, handle |-> h,
               auths |-> WordsAt(src, end + 4, DecodeU32(src, end))]
  <2>1. DecodedHandle(src, 28) = [bytes |-> h, end |-> end]
    BY <1>1, <1>3, Zenon DEF DecodedHandle, WordBytes
  <2>2. DecodedHandle(src, 28).bytes = h /\ DecodedHandle(src, 28).end = end
    BY <2>1
  <2> QED
    BY <2>2, Zenon DEF DecodedGrant, WordBytes
<1> HIDE DEF grant
<1>5. grant.handle = h
  BY <1>4
<1>6. ASSUME L % 4 = 0 PROVE WordsAt(src, end + 4, DecodeU32(src, end)) = a
  <2>1. 28 + Len(Padded(h)) = end /\ end \in Nat
    <3>1. Padding(L, 4) = 0
      BY <1>1, <1>6, PaddingIsMissing, Zenon
    <3>2. Len(Padded(h)) = 4 + L + 0
      BY <1>1, <3>1, PaddedIsRead, Zenon DEF L
    <3>3. 28 + (4 + L + 0) = end /\ end \in Nat
      <4>1. ASSUME NEW l \in Nat
            PROVE  28 + (4 + l + 0) = (28 + 4) + l /\ (28 + 4) + l \in Nat
        OBVIOUS
      <4> QED
        BY <1>1, <4>1, Zenon
    <3> QED
      BY <3>2, <3>3, Zenon
  <2> HIDE DEF end
  <2>2. Holds(src, end, EncodeWords(ws))
    BY <2>1, Zenon DEF ws
  <2>3. \A i \in 1 .. 1 + n : DecodeU32(src, end + 4 * (i - 1)) = ws[i]
    <3>1. ws \in Seq(U32) /\ end \in Nat
      BY <1>2, <2>1, Zenon
    <3>2. \A i \in 1 .. Len(ws) : DecodeU32(src, end + 4 * (i - 1)) = ws[i]
      BY <2>2, <3>1, WordsAreRead, Zenon
    <3> QED
      BY <1>2, <3>2, Zenon
  <2>4. DecodeU32(src, end) = n
    <3>1. 1 \in 1 .. 1 + n /\ end + 4 * (1 - 1) = end
      <4>1. n \in Nat
        BY <1>2, Zenon
      <4> QED
        BY <2>1, <4>1
    <3>2. DecodeU32(src, end + 4 * (1 - 1)) = ws[1]
      BY <2>3, <3>1, Zenon
    <3> QED
      BY <1>2, <3>1, <3>2, Zenon
  <2>5. ASSUME NEW i \in 1 .. n PROVE DecodeU32(src, (end + 4) + 4 * (i - 1)) = a[i]
    <3>1. 1 + i \in 1 .. 1 + n /\ end + 4 * ((1 + i) - 1) = (end + 4) + 4 * (i - 1)
      <4>1. n \in Nat
        BY <1>2, Zenon
      <4> QED
        BY <2>1, <4>1
    <3>2. DecodeU32(src, end + 4 * ((1 + i) - 1)) = ws[1 + i]
      BY <2>3, <3>1, Zenon
    <3> QED
      BY <1>2, <3>1, <3>2, Zenon
  <2>6. WordsAt(src, end + 4, n) = [i \in 1 .. n |-> DecodeU32(src, (end + 4) + 4 * (i - 1))]
    BY Zenon DEF WordsAt, WordBytes
  <2>7. [i \in 1 .. n |-> DecodeU32(src, (end + 4) + 4 * (i - 1))] = [i \in 1 .. n |-> a[i]]
    BY <2>5
  <2>8. a = [i \in 1 .. n |-> a[i]]
    BY <1>2 DEF n
  <2> QED
    BY <2>4, <2>6, <2>7, <2>8, Zenon
<1>7. ASSUME L % 4 = 0 PROVE grant = [status |-> 0, handle |-> h, auths |-> a]
  BY <1>4, <1>6, <1>7, Zenon
<1> QED
  BY <1>5, <1>7, Zenon DEF grant, L
-----------------------------------------------------------------------------
(***************************************************************************)
(* The invariant.                                                          *)
(***************************************************************************)

\* What is sent, and that it does not change on the way.
Meant ==
    /\ xid \in Xids /\ stamp \in Stamps /\ machine \in Machines /\ call \in Calls
    /\ stage \in {"idle", "sent", "replied", "parsed", "returned", "aborted"}

RequestSent == stage # "idle" => wire = Request

ReplySent ==
    stage \in {"replied", "parsed", "returned"} =>
        reply \in Replies /\ buffer = ReplyBytes(reply)

\* The payload is what parseAndStripRPC made of the reply, with some junk.
PayloadFound ==
    stage \in {"parsed", "returned"} =>
        \E junk \in {0, Base - 1} : payload = PayloadOf(Source(buffer, junk))

\* The result is what the caller made of the payload, with some junk.
ResultDecoded ==
    stage = "returned" =>
        \/ /\ IsGetPort(call)
           /\ result = [port |-> IF payload = Null THEN -1 ELSE DecodeU32(buffer, payload)]
        \/ /\ IsMount(call)
           /\ \E junk \in {0, Base - 1} :
                 LET src == Source(buffer, junk)
                     status == DecodeU32(src, payload)
                 IN  result = IF status = 0
                              THEN DecodedGrant(src, payload + WordBytes)
                              ELSE [status |-> status, handle |-> <<>>, auths |-> <<>>]
        \/ ~ IsGetPort(call) /\ ~ IsMount(call) /\ result = [done |-> TRUE]

MessageIInv == Meant /\ RequestSent /\ ReplySent /\ PayloadFound /\ ResultDecoded

\* The request, the replies and the results are functions of what is meant.
LEMMA MeantStays ==
    ASSUME UNCHANGED <<xid, stamp, machine, call>>
    PROVE  Request' = Request /\ (wire' = wire => Replies' = Replies)
<1>1. Request' = Request
  BY DEF Request, MakeRPC, AddAuthSys, Credentials
<1>2. ASSUME wire' = wire PROVE Replies' = Replies
  BY <1>2 DEF Replies
<1> QED
  BY <1>1, <1>2

LEMMA ReplyBytesStay ==
    ASSUME UNCHANGED <<call, reply>>
    PROVE  ReplyBytes(reply)' = ReplyBytes(reply)
BY DEF ReplyBytes

LEMMA MessageInvariance == Spec => []MessageIInv
<1> USE DEF Meant
<1>1. Init => MessageIInv
  BY DEF Init, MessageIInv, RequestSent, ReplySent, PayloadFound, ResultDecoded
<1>2. MessageIInv /\ [Next]_vars => MessageIInv'
  <2> SUFFICES ASSUME MessageIInv, [Next]_vars PROVE MessageIInv'
    OBVIOUS
  <2> USE DEF MessageIInv
  <2>1. CASE SendRequest
    <3>1. UNCHANGED <<xid, stamp, machine, call>>
      BY <2>1 DEF SendRequest
    <3>2. wire' = Request'
      BY <2>1, <3>1, MeantStays DEF SendRequest
    <3>3. Meant'
      BY <2>1 DEF SendRequest
    <3>4. stage' = "sent"
      BY <2>1 DEF SendRequest
    <3> QED
      BY <3>2, <3>3, <3>4 DEF RequestSent, ReplySent, PayloadFound, ResultDecoded
  <2>2. CASE ServerReplies
    <3>1. UNCHANGED <<xid, stamp, machine, call, wire>> /\ stage' = "replied" /\ stage = "sent"
      BY <2>2 DEF ServerReplies
    <3>2. wire' = Request'
      BY <3>1, MeantStays DEF RequestSent
    <3>3. reply' \in Replies' /\ buffer' = ReplyBytes(reply)'
      <4>1. reply' \in Replies /\ buffer' = ReplyBytes(reply')
        BY <2>2 DEF ServerReplies
      <4>2. ReplyBytes(reply)' = ReplyBytes(reply')
        BY <3>1 DEF ReplyBytes
      <4> QED
        BY <3>1, <4>1, <4>2, MeantStays
    <3>4. Meant'
      BY <3>1
    <3> QED
      BY <3>1, <3>2, <3>3, <3>4 DEF RequestSent, ReplySent, PayloadFound, ResultDecoded
  <2>3. CASE ParseAndStripRPC
    <3>1. /\ UNCHANGED <<xid, stamp, machine, call, wire, reply, buffer>>
          /\ stage = "replied" /\ stage' = "parsed"
      BY <2>3 DEF ParseAndStripRPC
    <3>2. wire' = Request'
      BY <3>1, MeantStays DEF RequestSent
    <3>3. reply' \in Replies' /\ buffer' = ReplyBytes(reply)'
      BY <3>1, MeantStays, ReplyBytesStay DEF ReplySent
    <3>4. \E junk \in {0, Base - 1} : payload' = PayloadOf(Source(buffer, junk))'
      <4>1. PICK junk \in {0, Base - 1} : payload' = PayloadOf(Source(buffer, junk))
        BY <2>3 DEF ParseAndStripRPC
      <4>2. PayloadOf(Source(buffer, junk))' = PayloadOf(Source(buffer, junk))
        BY <3>1 DEF PayloadOf
      <4> QED
        BY <4>1, <4>2
    <3>5. Meant'
      BY <3>1
    <3> QED
      BY <3>1, <3>2, <3>3, <3>4, <3>5 DEF RequestSent, ReplySent, PayloadFound, ResultDecoded
  <2>4. CASE ParseAssertion \/ MountAsserts
    <3>1. /\ UNCHANGED <<xid, stamp, machine, call, wire>>
          /\ stage \in {"replied", "parsed"} /\ stage' = "aborted"
      BY <2>4 DEF ParseAssertion, MountAsserts
    <3>2. wire' = Request'
      BY <3>1, MeantStays DEF RequestSent
    <3>3. Meant'
      BY <3>1
    <3> QED
      BY <3>1, <3>2, <3>3 DEF RequestSent, ReplySent, PayloadFound, ResultDecoded
  <2>5. ASSUME ReturnPort \/ ReturnMounted \/ ReturnUmounted
        PROVE  MessageIInv'
    <3>1. /\ UNCHANGED <<xid, stamp, machine, call, wire, reply, buffer, payload>>
          /\ stage = "parsed" /\ stage' = "returned"
      BY <2>5 DEF ReturnPort, ReturnMounted, ReturnUmounted, Returns
    <3>2. wire' = Request'
      BY <3>1, MeantStays DEF RequestSent
    <3>3. reply' \in Replies' /\ buffer' = ReplyBytes(reply)'
      BY <3>1, MeantStays, ReplyBytesStay DEF ReplySent
    <3>4. \E junk \in {0, Base - 1} : payload' = PayloadOf(Source(buffer, junk))'
      BY <3>1 DEF PayloadFound, PayloadOf
    <3>5. Meant'
      BY <3>1
    <3>6. ResultDecoded'
      <4>1. CASE ReturnPort
        BY <3>1, <4>1 DEF ReturnPort, Returns, ResultDecoded
      <4>2. CASE ReturnMounted
        BY <3>1, <4>2 DEF ReturnMounted, Returns, ResultDecoded
      <4>3. CASE ReturnUmounted
        BY <3>1, <4>3 DEF ReturnUmounted, Returns, ResultDecoded
      <4> QED
        BY <2>5, <4>1, <4>2, <4>3
    <3> QED
      BY <3>1, <3>2, <3>3, <3>4, <3>5, <3>6 DEF RequestSent, ReplySent, PayloadFound
  <2>6. CASE UNCHANGED vars
    <3>1. UNCHANGED <<xid, stamp, machine, call, wire, reply, buffer, payload, result, stage>>
      BY <2>6 DEF vars
    <3>2. RequestSent'
      BY <3>1, MeantStays DEF RequestSent
    <3>3. ReplySent'
      BY <3>1, MeantStays, ReplyBytesStay DEF ReplySent
    <3>4. PayloadFound'
      BY <3>1 DEF PayloadFound, PayloadOf
    <3>5. ResultDecoded'
      BY <3>1 DEF ResultDecoded
    <3>6. Meant'
      BY <3>1
    <3> QED
      BY <3>2, <3>3, <3>4, <3>5, <3>6
  <2> QED
    BY <2>1, <2>2, <2>3, <2>4, <2>5, <2>6 DEF Next
<1> QED
  BY <1>1, <1>2, PTL DEF Spec
-----------------------------------------------------------------------------
(***************************************************************************)
(* The theorems.                                                           *)
(***************************************************************************)

\* What was meant is words, texts and a call.
LEMMA MeantType ==
    ASSUME Meant
    PROVE  xid \in U32 /\ stamp \in U32 /\ machine \in Machines /\ call \in Calls
BY WordsAssumption DEF Meant

LEMMA HeardSuffices == MessageIInv => RequestIsHeard
<1> SUFFICES ASSUME MessageIInv, stage # "idle"
             PROVE  LET heard == Heard(Source(wire, 0)) IN
                    /\ heard.last /\ heard.size = Len(wire) - 4
                    /\ heard.header
                         = <<xid, 0, 2, call.program, call.version, call.procedure, 1>>
                    /\ heard.stamp = stamp
                    /\ heard.machine = machine
                    /\ heard.ids = <<0, 0, 1, 0>>
                    /\ heard.idsEnd = heard.verifierAt
                    /\ heard.verifier = <<0, 0>>
                    /\ heard.argument = call.argument
                    /\ heard.end = Len(wire)
  BY Zenon DEF RequestIsHeard
<1>1. wire = Request
  BY Zenon DEF MessageIInv, RequestSent
<1>2. xid \in U32 /\ stamp \in U32 /\ machine \in Machines /\ call \in Calls
  BY MeantType, Zenon DEF MessageIInv
<1> QED
  BY <1>1, <1>2, RequestHeard, Zenon

\* A server hears the call that was meant, whatever the host name, the export,
\* the xid and the stamp (rpc.hpp:13-63, PortMapperContext.cpp:20-59,
\* Mount.cpp:23-53).
THEOREM RequestIsHeardHolds == Spec => []RequestIsHeard
<1>1. Spec => []MessageIInv
  BY MessageInvariance
<1>2. MessageIInv => RequestIsHeard
  BY HeardSuffices
<1> QED
  BY <1>1, <1>2, PTL

\* The replies there are: accepted ones with results, failed and denied ones.
LEMMA RepliesType ==
    ASSUME xid \in U32, stamp \in U32, machine \in Machines, call \in Calls,
           wire = Request, NEW r \in Replies
    PROVE  /\ r.xid \in U32
           /\ \/ /\ r.accepted = TRUE /\ r.stat \in 0 .. 5
                 /\ r.stat = 0 => r.result \in Results(call)
              \/ r.accepted = FALSE /\ r.stat \in 0 .. 2
<1> DEFINE heard == Heard(Source(wire, 0))
<1>1. heard.header[1] = xid
  <2>1. heard.header = <<xid, 0, 2, call.program, call.version, call.procedure, 1>>
    BY RequestHeard, Zenon
  <2> HIDE DEF heard
  <2> QED
    BY <2>1
<1> HIDE DEF heard
<1>2. {heard.header[1]} \cup Xids \subseteq U32
  BY <1>1, WordsAssumption
<1>3. Replies =
         [xid : {heard.header[1]} \cup Xids, accepted : {TRUE},
          verifier : Verifiers, stat : {0}, result : Results(call)]
         \cup [xid : {xid}, accepted : {TRUE}, verifier : Verifiers, stat : 1 .. 5,
               result : {NoResult}]
         \cup [xid : {xid}, accepted : {FALSE}, verifier : {<<>>}, stat : 0 .. 2,
               result : {NoResult}]
  BY DEF Replies, heard
<1>4. CASE r \in [xid : {heard.header[1]} \cup Xids, accepted : {TRUE},
                  verifier : Verifiers, stat : {0}, result : Results(call)]
  BY <1>2, <1>4
<1>5. CASE r \in [xid : {xid}, accepted : {TRUE}, verifier : Verifiers, stat : 1 .. 5,
                  result : {NoResult}]
  <2>1. r.xid = xid /\ r.accepted = TRUE /\ r.stat \in 1 .. 5
    BY <1>5
  <2>2. r.stat \in 0 .. 5 /\ r.stat # 0
    BY <2>1
  <2> QED
    BY <2>1, <2>2, Zenon
<1>6. CASE r \in [xid : {xid}, accepted : {FALSE}, verifier : {<<>>}, stat : 0 .. 2,
                  result : {NoResult}]
  BY <1>6
<1> QED
  BY <1>3, <1>4, <1>5, <1>6

\* Of an accepted call without a verifier, the results lie at 24.
LEMMA ResultsLieBehind ==
    ASSUME xid \in U32, stamp \in U32, machine \in Machines, call \in Calls,
           wire = Request, NEW r \in Replies, r.accepted, r.verifier = <<>>
    PROVE  /\ BehindStat(r) \in Seq(Byte)
           /\ ReplyBytes(r) \in Seq(Byte) /\ Len(ReplyBytes(r)) = 24 + Len(BehindStat(r))
           /\ Holds(ReplyBytes(r), 24, BehindStat(r))
           /\ \A junk : LET src == Source(ReplyBytes(r), junk) IN
                 /\ DecodeU32(src, 0) = r.xid /\ DecodeU32(src, 8) = 0
                 /\ DecodeU32(src, 20) = r.stat
                 /\ Holds(src, 24, BehindStat(r))
<1>1. r.xid \in U32 /\ r.stat \in 0 .. 5 /\ (r.stat = 0 => r.result \in Results(call))
  BY RepliesType
<1>2. r.stat \in U32
  <2>1. r.stat \in 0 .. 5
    BY <1>1, Zenon
  <2>2. r.stat \in 0 .. 100
    BY <2>1
  <2> QED
    BY <2>2, SmallFits, Zenon
<1>3. BehindStat(r) \in Seq(Byte)
  <2>1. CASE r.stat = 0
    BY <1>1, <2>1, ResultsType DEF BehindStat
  <2>2. CASE r.stat # 0
    <3>1. 2 \in U32 /\ 3 \in U32
      BY SmallFits
    <3>2. EncodeWords(<<2, 3>>) \in Seq(Byte) /\ <<>> \in Seq(Byte)
      BY <3>1, TwoWords
    <3> QED
      BY <2>2, <3>2, Zenon DEF BehindStat
  <2> QED
    BY <2>1, <2>2
<1> QED
  BY <1>1, <1>2, <1>3, AcceptedIsRead, Zenon

LEMMA PayloadSuffices == MessageIInv => PayloadIsResults
<1> SUFFICES ASSUME MessageIInv, stage \in {"parsed", "returned"},
                    reply.accepted => reply.verifier = <<>>
             PROVE  IF Succeeded
                    THEN payload = Len(buffer) - Len(ResultBytes(call, reply.result))
                    ELSE payload = Null
  BY DEF PayloadIsResults
<1>1. xid \in U32 /\ stamp \in U32 /\ machine \in Machines /\ call \in Calls
  BY MeantType, Zenon DEF MessageIInv
<1>2. wire = Request
  BY DEF MessageIInv, RequestSent
<1>3. reply \in Replies /\ buffer = ReplyBytes(reply)
  BY DEF MessageIInv, ReplySent
<1>4. PICK junk \in {0, Base - 1} : payload = PayloadOf(Source(buffer, junk))
  BY DEF MessageIInv, PayloadFound
<1> DEFINE src == Source(buffer, junk)
<1>5. CASE reply.accepted
  <2>1. /\ DecodeU32(src, 0) = reply.xid /\ DecodeU32(src, 8) = 0
        /\ DecodeU32(src, 20) = reply.stat
        /\ BehindStat(reply) \in Seq(Byte) /\ Len(buffer) = 24 + Len(BehindStat(reply))
    BY <1>1, <1>2, <1>3, <1>5, ResultsLieBehind, Zenon
  <2> HIDE DEF src
  <2>2. 0 # 1
    OBVIOUS
  <2>3. CASE Succeeded
    <3>1. payload = 24
      BY <1>4, <2>1, <2>2, <2>3, Zenon DEF PayloadOf, Succeeded, src
    <3>2. BehindStat(reply) = ResultBytes(call, reply.result)
      BY <2>3, Zenon DEF BehindStat, Succeeded
    <3>3. Len(BehindStat(reply)) \in Nat
      BY <2>1
    <3>4. (24 + Len(BehindStat(reply))) - Len(BehindStat(reply)) = 24
      BY <3>3
    <3> QED
      BY <2>1, <2>3, <3>1, <3>2, <3>4, Zenon
  <2>4. CASE ~ Succeeded
    <3>1. payload = Null
      BY <1>4, <1>5, <2>1, <2>4, Zenon DEF PayloadOf, Succeeded, src
    <3> QED
      BY <2>4, <3>1, Zenon
  <2> QED
    BY <2>3, <2>4, Zenon
<1>6. CASE ~ reply.accepted
  <2>1. reply.xid \in U32 /\ reply.stat \in 0 .. 2
    BY <1>1, <1>2, <1>3, <1>6, RepliesType
  <2>2. DecodeU32(src, 8) = 1
    BY <1>3, <1>6, <2>1, DeniedIsRead, Zenon
  <2>3. payload = Null
    BY <1>4, <2>2, Zenon DEF PayloadOf
  <2> QED
    BY <1>6, <2>3, Zenon DEF Succeeded
<1> QED
  BY <1>5, <1>6

\* Just a success of this call has a payload, at its results, whatever junk lies
\* behind the reply and whatever handles and flavors are granted
\* (rpc.hpp:65-124).
THEOREM PayloadIsResultsHolds == Spec => []PayloadIsResults
<1>1. Spec => []MessageIInv
  BY MessageInvariance
<1>2. MessageIInv => PayloadIsResults
  BY PayloadSuffices
<1> QED
  BY <1>1, <1>2, PTL
LEMMA ResultSuffices == MessageIInv => ResultIsMeant
<1> SUFFICES ASSUME MessageIInv, stage = "returned", Succeeded, reply.verifier = <<>>
             PROVE  \/ result = reply.result
                    \/ /\ IsMount(call)
                       /\ Len(reply.result.handle) % WordBytes # 0
                       /\ result.handle = reply.result.handle
  BY DEF ResultIsMeant
<1>1. xid \in U32 /\ stamp \in U32 /\ machine \in Machines /\ call \in Calls
  BY MeantType, Zenon DEF MessageIInv
<1>2. wire = Request
  BY DEF MessageIInv, RequestSent
<1>3. reply \in Replies /\ buffer = ReplyBytes(reply)
  BY DEF MessageIInv, ReplySent
<1>4. reply.accepted /\ reply.xid = xid /\ reply.stat = 0
  BY DEF Succeeded
<1> DEFINE tail == ResultBytes(call, reply.result)
<1>5. BehindStat(reply) = tail
  BY <1>4, Zenon DEF BehindStat
<1>6. /\ tail \in Seq(Byte)
      /\ buffer \in Seq(Byte) /\ Len(buffer) = 24 + Len(tail)
      /\ Holds(buffer, 24, tail)
      /\ \A junk : LET src == Source(buffer, junk) IN
            /\ DecodeU32(src, 0) = reply.xid /\ DecodeU32(src, 8) = 0
            /\ DecodeU32(src, 20) = reply.stat
            /\ Holds(src, 24, tail)
  BY <1>1, <1>2, <1>3, <1>4, <1>5, ResultsLieBehind, Zenon
<1>7. payload = 24 /\ payload # Null
  <2>1. PICK junk \in {0, Base - 1} : payload = PayloadOf(Source(buffer, junk))
    BY DEF MessageIInv, PayloadFound
  <2>2. 0 # 1 /\ 24 # -1
    OBVIOUS
  <2> QED
    BY <1>4, <1>6, <2>1, <2>2, Zenon DEF PayloadOf, Null
<1>8. reply.result \in Results(call)
  BY <1>1, <1>2, <1>3, <1>4, RepliesType
<1> HIDE DEF tail
<1>9. CASE IsGetPort(call)
  <2>1. PICK port \in Ports : reply.result = [port |-> port]
    BY <1>8, <1>9, ResultsAre, Zenon
  <2>2. port \in U32
    BY WordsAssumption
  <2>3. tail = EncodeU32(port)
    BY <1>9, <2>1 DEF ResultBytes, tail
  <2>4. DecodeU32(buffer, 24) = port
    <3>1. 24 \in Nat
      OBVIOUS
    <3> QED
      BY <1>6, <2>2, <2>3, <3>1, WordIsRead, Zenon
  <2>5. result = [port |-> IF payload = Null THEN -1 ELSE DecodeU32(buffer, payload)]
    <3>1. ~ IsMount(call)
      BY <1>9, SmallFits, Zenon DEF IsGetPort, IsMount
    <3> QED
      BY <1>9, <3>1, Zenon DEF MessageIInv, ResultDecoded
  <2>6. result = [port |-> port]
    BY <1>7, <2>4, <2>5, Zenon
  <2> QED
    BY <2>1, <2>6, Zenon
<1>10. CASE ~ IsGetPort(call) /\ IsMount(call)
  <2>1. PICK junk \in {0, Base - 1} :
           LET src == Source(buffer, junk)
               status == DecodeU32(src, payload)
           IN  result = IF status = 0
                        THEN DecodedGrant(src, payload + WordBytes)
                        ELSE [status |-> status, handle |-> <<>>, auths |-> <<>>]
    BY <1>10, Zenon DEF MessageIInv, ResultDecoded
  <2> DEFINE src == Source(buffer, junk)
  <2>2. Holds(src, 24, tail)
    BY <1>6, Zenon
  <2> HIDE DEF src
  <2>3. 24 \in Nat /\ 24 + 4 = 28 /\ 28 \in Nat
    OBVIOUS
  <2>4. result = IF DecodeU32(src, 24) = 0
                 THEN DecodedGrant(src, 28)
                 ELSE [status |-> DecodeU32(src, 24), handle |-> <<>>, auths |-> <<>>]
    BY <1>7, <2>1, <2>3, Zenon DEF src, WordBytes
  <2>5. CASE reply.result = [status |-> 13, handle |-> <<>>, auths |-> <<>>]
    <3>1. tail = EncodeU32(13) /\ 13 # 0
      BY <1>10, <2>5 DEF ResultBytes, tail
    <3>2. 13 \in U32
      BY SmallFits
    <3>3. DecodeU32(src, 24) = 13
      BY <2>2, <2>3, <3>1, <3>2, WordIsRead, Zenon
    <3> QED
      BY <2>4, <2>5, <3>1, <3>3, Zenon
  <2>6. CASE \E h \in Granted, a \in AuthLists :
                reply.result = [status |-> 0, handle |-> h, auths |-> a]
    <3>1. PICK h \in Granted, a \in AuthLists :
                reply.result = [status |-> 0, handle |-> h, auths |-> a]
      BY <2>6
    <3> DEFINE word == EncodeU32(0)
               handle == Padded(h)
               ws == <<Len(a)>> \o a
               words == EncodeWords(ws)
    <3>2. reply.result.handle = h
      BY <3>1
    <3>3. tail = (word \o handle) \o words
      BY <1>10, <3>1 DEF ResultBytes, tail
    <3>4. word \in Seq(Byte) /\ Len(word) = 4
      BY EncodeU32Type
    <3>5. handle \in Seq(Byte)
      BY GrantsType, PaddedIsRead, Zenon
    <3>6. words \in Seq(Byte)
      BY GrantsType, WordsType, Zenon
    <3> HIDE DEF word, handle, words
    <3>7. word \o handle \in Seq(Byte) /\ Len(word \o handle) = 4 + Len(handle)
      BY <3>4, <3>5, ConcatBytes, Zenon
    <3>8. Holds(src, 24, word \o handle) /\ Holds(src, 24 + (4 + Len(handle)), words)
      <4>1. /\ Holds(src, 24, word \o handle)
            /\ Holds(src, 24 + Len(word \o handle), words)
        BY <2>2, <2>3, <3>3, <3>6, <3>7, HoldsConcat, Zenon
      <4> QED
        BY <3>7, <4>1, Zenon
    <3>9. Holds(src, 24, word) /\ Holds(src, 28, handle)
      <4>1. Holds(src, 24, word) /\ Holds(src, 24 + Len(word), handle)
        BY <2>3, <3>4, <3>5, <3>8, HoldsConcat, Zenon
      <4> QED
        BY <2>3, <3>4, <4>1, Zenon
    <3>10. DecodeU32(src, 24) = 0
      <4>1. 0 \in U32
        BY SmallFits
      <4> QED
        BY <2>3, <3>9, <4>1, WordIsRead, Zenon DEF word
    <3>11. 24 + (4 + Len(handle)) = 28 + Len(handle)
      <4>1. Len(handle) \in Nat
        BY <3>5
      <4> QED
        BY <4>1
    <3>12. Holds(src, 28, Padded(h)) /\ Holds(src, 28 + Len(Padded(h)), EncodeWords(ws))
      BY <3>8, <3>9, <3>11, Zenon DEF handle, words
    <3>13. /\ DecodedGrant(src, 28).handle = h
           /\ Len(h) % 4 = 0 =>
                DecodedGrant(src, 28) = [status |-> 0, handle |-> h, auths |-> a]
      BY <3>12, GrantIsRead, Zenon
    <3>14. result = DecodedGrant(src, 28)
      BY <2>4, <3>10, Zenon
    <3> QED
      BY <1>10, <3>1, <3>2, <3>13, <3>14, Zenon DEF WordBytes
  <2> QED
    BY <1>8, <1>10, <2>5, <2>6, ResultsAre, Zenon
<1>11. CASE ~ IsGetPort(call) /\ ~ IsMount(call)
  <2>1. reply.result = [done |-> TRUE]
    BY <1>8, <1>11, ResultsAre, Zenon
  <2>2. result = [done |-> TRUE]
    BY <1>11, Zenon DEF MessageIInv, ResultDecoded
  <2> QED
    BY <2>1, <2>2
<1> QED
  BY <1>9, <1>10, <1>11

\* What the caller decodes is what the server meant: any port, any handle up to 64
\* bytes, and any flavors behind a handle that is a whole number of words
\* (PortMapperContext.cpp:74-78, Mount.cpp:68-82).
THEOREM ResultIsMeantHolds == Spec => []ResultIsMeant
<1>1. Spec => []MessageIInv
  BY MessageInvariance
<1>2. MessageIInv => ResultIsMeant
  BY ResultSuffices
<1> QED
  BY <1>1, <1>2, PTL
=============================================================================
