---------------------------- MODULE InodeProofs ----------------------------
(***************************************************************************)
(* Proofs about InodeNames, for names of any length and any number of      *)
(* inodes.                                                                 *)
(***************************************************************************)
EXTENDS InodeNames, FiniteSetTheorems, TLAPS

\* What stripSlash has established where it is, and what parent the constructor
\* was called with.
LoopInv ==
    /\ stage \in {"dotSlash", "slash", "done"} => DotDots(myName) = {}
    /\ stage \in {"slash", "done"} => DotSlashes(myName) = {}
    /\ stage = "done" => Slashes(myName) = {}
    /\ stage # "new" => \/ parent = Export
                        \/ \E j \in 1 .. Len(inodes) :
                              /\ inodes[j].type = "NFS3DIR"
                              /\ parent = inodes[j].selfDir

InodeIInv == TypeOK /\ LoopInv /\ NamesStayInside

-----------------------------------------------------------------------------
\* Taking characters out of a name leaves a name (string::replace).
LEMMA WithoutType ==
    ASSUME NEW s \in Seq(Characters), NEW n \in {1, 2}, NEW i \in Nat,
           i >= 1, i + n - 1 <= Len(s)
    PROVE  /\ Without(s, i, n) \in Seq(Characters)
           /\ Len(Without(s, i, n)) = Len(s) - n
           /\ \A j \in 1 .. Len(s) - n :
                 Without(s, i, n)[j] = IF j < i THEN s[j] ELSE s[j + n]
<1>1. Len(s) - n \in Nat /\ Len(s) \in Nat
  OBVIOUS
<1>2. \A j \in 1 .. Len(s) - n : (IF j < i THEN s[j] ELSE s[j + n]) \in Characters
  BY <1>1
<1> QED
  BY <1>1, <1>2 DEF Without

\* With no ".." in a name, taking out a "./" makes none (Context.hpp:203-207).
LEMMA DotSlashRemoval ==
    ASSUME NEW s \in Seq(Characters), DotDots(s) = {}, NEW i \in DotSlashes(s)
    PROVE  Without(s, i, 2) \in Seq(Characters) /\ DotDots(Without(s, i, 2)) = {}
<1> DEFINE t == Without(s, i, 2)
<1>1. i \in 1 .. Len(s) - 1 /\ s[i] = Dot /\ Len(s) \in Nat
  BY DEF DotSlashes
<1>2. /\ t \in Seq(Characters) /\ Len(t) = Len(s) - 2
      /\ \A j \in 1 .. Len(s) - 2 : t[j] = IF j < i THEN s[j] ELSE s[j + 2]
  <2>1. 2 \in {1, 2} /\ i \in Nat /\ i >= 1 /\ i + 2 - 1 <= Len(s)
    BY <1>1
  <2> QED
    BY <2>1, WithoutType, Zenon
<1> HIDE DEF t
<1>3. ASSUME NEW j \in 1 .. Len(t) - 1, t[j] = Dot, t[j + 1] = Dot PROVE FALSE
  <2>1. \A k \in 1 .. Len(s) - 1 : ~ (s[k] = Dot /\ s[k + 1] = Dot)
    BY DEF DotDots
  <2>2. CASE j + 1 < i
    BY <1>1, <1>2, <1>3, <2>1, <2>2
  <2>3. CASE j + 1 = i
    BY <1>1, <1>2, <1>3, <2>1, <2>3
  <2>4. CASE j >= i
    <3>1. s[j + 2] = Dot /\ s[(j + 2) + 1] = Dot /\ j + 2 \in 1 .. Len(s) - 1
      <4>1. /\ j \in 1 .. Len(s) - 2 /\ j + 1 \in 1 .. Len(s) - 2
            /\ ~ (j < i) /\ ~ (j + 1 < i) /\ (j + 1) + 2 = (j + 2) + 1
            /\ j + 2 \in 1 .. Len(s) - 1
        BY <1>1, <1>2, <2>4
      <4>2. t[j] = s[j + 2] /\ t[j + 1] = s[(j + 1) + 2]
        BY <1>2, <4>1, Zenon
      <4> QED
        BY <1>3, <4>1, <4>2, Zenon
    <3> QED
      BY <2>1, <3>1, Zenon
  <2> QED
    BY <1>1, <2>2, <2>3, <2>4
<1> QED
  BY <1>2, <1>3 DEF DotDots, t

\* With neither ".." nor "./" in a name, taking out a slash makes neither
\* (Context.hpp:209-213).
LEMMA SlashRemoval ==
    ASSUME NEW s \in Seq(Characters), DotDots(s) = {}, DotSlashes(s) = {},
           NEW i \in Slashes(s)
    PROVE  /\ Without(s, i, 1) \in Seq(Characters)
           /\ DotDots(Without(s, i, 1)) = {}
           /\ DotSlashes(Without(s, i, 1)) = {}
<1> DEFINE t == Without(s, i, 1)
<1>1. i \in 1 .. Len(s) /\ s[i] = Slash /\ Len(s) \in Nat
  BY DEF Slashes
<1>2. /\ t \in Seq(Characters) /\ Len(t) = Len(s) - 1
      /\ \A j \in 1 .. Len(s) - 1 : t[j] = IF j < i THEN s[j] ELSE s[j + 1]
  <2>1. 1 \in {1, 2} /\ i \in Nat /\ i >= 1 /\ i + 1 - 1 <= Len(s)
    BY <1>1
  <2> QED
    BY <2>1, WithoutType, Zenon
<1> HIDE DEF t
<1>3. ASSUME NEW j \in 1 .. Len(t) - 1, t[j] = Dot, t[j + 1] \in {Dot, Slash}
      PROVE  FALSE
  <2>1. \A k \in 1 .. Len(s) - 1 : ~ (s[k] = Dot /\ s[k + 1] \in {Dot, Slash})
    BY DEF DotDots, DotSlashes
  <2>2. CASE j + 1 < i
    <3>1. s[j] = t[j] /\ s[j + 1] = t[j + 1] /\ j \in 1 .. Len(s) - 1
      BY <1>1, <1>2, <2>2
    <3> QED
      BY <1>3, <2>1, <3>1, Zenon
  <2>3. CASE j + 1 = i
    <3>1. s[j] = Dot /\ s[j + 1] = Slash /\ j \in 1 .. Len(s) - 1
      BY <1>1, <1>2, <1>3, <2>3
    <3> QED
      BY <2>1, <3>1, Zenon
  <2>4. CASE j >= i
    <3>1. /\ s[j + 1] = Dot /\ s[(j + 1) + 1] \in {Dot, Slash}
          /\ j + 1 \in 1 .. Len(s) - 1
      <4>1. /\ j \in 1 .. Len(s) - 1 /\ j + 1 \in 1 .. Len(s) - 1
            /\ ~ (j < i) /\ ~ (j + 1 < i)
        BY <1>1, <1>2, <2>4
      <4>2. t[j] = s[j + 1] /\ t[j + 1] = s[(j + 1) + 1]
        BY <1>2, <4>1, Zenon
      <4> QED
        BY <1>3, <4>1, <4>2, Zenon
    <3> QED
      BY <2>1, <3>1, Zenon
  <2> QED
    BY <1>1, <2>2, <2>3, <2>4
<1> QED
  BY <1>2, <1>3 DEF DotDots, DotSlashes, t

\* A parent, a slash and a component lie below the parent.
LEMMA JoinedIsBelow ==
    ASSUME NEW p \in Seq(Characters), NEW s \in Seq(Characters), Component(s)
    PROVE  /\ p \o <<Slash>> \o s \in Seq(Characters)
           /\ Below(p \o <<Slash>> \o s, p)
<1> DEFINE d == p \o <<Slash>> \o s
<1>1. /\ d \in Seq(Characters) /\ Len(d) = Len(p) + 1 + Len(s)
      /\ Len(p) \in Nat /\ Len(s) \in Nat
      /\ \A k \in 1 .. Len(p) : d[k] = p[k]
      /\ d[Len(p) + 1] = Slash
      /\ \A k \in 1 .. Len(s) : d[Len(p) + 1 + k] = s[k]
  BY CharactersAssumption
<1> HIDE DEF d
<1>2. SubSeq(d, 1, Len(p)) = p
  BY <1>1
<1>3. SubSeq(d, Len(p) + 2, Len(d)) = s
  BY <1>1
<1>4. Below(d, p)
  <2>1. Len(d) > Len(p)
    BY <1>1
  <2> QED
    BY <1>1, <1>2, <1>3, <2>1, Zenon DEF Below
<1> QED
  BY <1>1, <1>4, Zenon DEF d

-----------------------------------------------------------------------------
\* The steps of stripSlash.
LEMMA StripKeepsInv ==
    ASSUME InodeIInv,
           \/ Begin \/ RejectDotDot \/ AcceptName \/ StripDotSlash
           \/ NoDotSlash \/ StripSlash \/ NoSlash
    PROVE  InodeIInv'
<1>1. TypeOK /\ LoopInv /\ NamesStayInside
  BY DEF InodeIInv
<1>2. inodes' = inodes /\ NamesStayInside'
  BY <1>1 DEF Begin, RejectDotDot, AcceptName, StripDotSlash, NoDotSlash,
     StripSlash, NoSlash, NamesStayInside
<1>3. CASE Begin
  <2>1. Directories \subseteq Seq(Characters)
    <3>1. \A i \in 1 .. Len(inodes) : inodes[i].selfDir \in Seq(Characters)
      <4> DEFINE I == [type : INODE_TYPE, perms : {DefaultMode},
                       parentName : Seq(Characters), self : Seq(Characters),
                       selfDir : Seq(Characters)]
      <4>1. inodes \in Seq(I)
        BY <1>1, Zenon DEF TypeOK
      <4>2. \A inode \in I : inode.selfDir \in Seq(Characters)
        OBVIOUS
      <4> HIDE DEF I
      <4>3. \A i \in 1 .. Len(inodes) : inodes[i] \in I
        BY <4>1
      <4> QED
        BY <4>2, <4>3, Zenon
    <3> QED
      BY <3>1, NamesAssumption, Zenon DEF Directories
  <2> QED
    BY <1>1, <1>2, <1>3, <2>1, NamesAssumption
       DEF Begin, TypeOK, LoopInv, InodeIInv, Directories
<1>4. CASE RejectDotDot
  BY <1>1, <1>2, <1>4
     DEF RejectDotDot, TypeOK, LoopInv, InodeIInv, DotDots, DotSlashes, Slashes
<1>5. CASE AcceptName
  BY <1>1, <1>2, <1>5 DEF AcceptName, TypeOK, LoopInv, InodeIInv
<1>6. CASE StripDotSlash
  <2>1. PICK i \in DotSlashes(myName) : myName' = Without(myName, i, 2)
    BY <1>6 DEF StripDotSlash
  <2>2. myName' \in Seq(Characters) /\ DotDots(myName') = {}
    BY <1>1, <1>6, <2>1, DotSlashRemoval DEF StripDotSlash, TypeOK, LoopInv
  <2> QED
    BY <1>1, <1>2, <1>6, <2>2 DEF StripDotSlash, TypeOK, LoopInv, InodeIInv
<1>7. CASE NoDotSlash
  BY <1>1, <1>2, <1>7 DEF NoDotSlash, TypeOK, LoopInv, InodeIInv
<1>8. CASE StripSlash
  <2>1. PICK i \in Slashes(myName) : myName' = Without(myName, i, 1)
    BY <1>8 DEF StripSlash
  <2>2. /\ myName' \in Seq(Characters)
        /\ DotDots(myName') = {} /\ DotSlashes(myName') = {}
    BY <1>1, <1>8, <2>1, SlashRemoval DEF StripSlash, TypeOK, LoopInv
  <2> QED
    BY <1>1, <1>2, <1>8, <2>2 DEF StripSlash, TypeOK, LoopInv, InodeIInv
<1>9. CASE NoSlash
  BY <1>1, <1>2, <1>9 DEF NoSlash, TypeOK, LoopInv, InodeIInv
<1> QED
  BY <1>3, <1>4, <1>5, <1>6, <1>7, <1>8, <1>9

\* The constructor.
LEMMA ConstructKeepsInv == ASSUME InodeIInv, Construct PROVE InodeIInv'
<1> DEFINE new ==
      [type |-> type, perms |-> DefaultMode, parentName |-> parent,
       self |-> IF type = "NFS3DIR" THEN name ELSE myName,
       selfDir |-> IF type = "NFS3DIR" THEN parent \o <<Slash>> \o myName
                                       ELSE <<>>]
<1>1. TypeOK /\ LoopInv /\ NamesStayInside /\ stage = "done"
  BY DEF InodeIInv, Construct
<1>2. inodes' = Append(inodes, new)
  BY DEF Construct
<1>3. Component(myName)
  BY <1>1 DEF LoopInv, Component
<1>4. /\ parent \o <<Slash>> \o myName \in Seq(Characters)
      /\ Below(parent \o <<Slash>> \o myName, parent)
  BY <1>1, <1>3, JoinedIsBelow DEF TypeOK
<1> DEFINE I == [type : INODE_TYPE, perms : {DefaultMode},
                 parentName : Seq(Characters), self : Seq(Characters),
                 selfDir : Seq(Characters)]
<1>5. new \in I /\ inodes \in Seq(I)
  BY <1>1, <1>4 DEF TypeOK
<1>6. /\ new.parentName = parent /\ new.type = type
      /\ IF new.type = "NFS3DIR" THEN Below(new.selfDir, new.parentName)
                                 ELSE Component(new.self)
  BY <1>3, <1>4
<1> HIDE DEF new, I
<1>7. /\ inodes' \in Seq(I)
      /\ Len(inodes') = Len(inodes) + 1 /\ Len(inodes) \in Nat
      /\ inodes'[Len(inodes) + 1] = new
      /\ \A i \in 1 .. Len(inodes) : inodes'[i] = inodes[i]
  BY <1>2, <1>5
<1>8. NamesStayInside'
  <2> SUFFICES ASSUME NEW i \in 1 .. Len(inodes')
               PROVE  /\ \/ inodes'[i].parentName = Export
                         \/ \E j \in 1 .. i - 1 :
                               /\ inodes'[j].type = "NFS3DIR"
                               /\ inodes'[i].parentName = inodes'[j].selfDir
                      /\ IF inodes'[i].type = "NFS3DIR"
                         THEN Below(inodes'[i].selfDir, inodes'[i].parentName)
                         ELSE Component(inodes'[i].self)
    BY DEF NamesStayInside
  <2>1. CASE i = Len(inodes) + 1
    BY <1>1, <1>6, <1>7, <2>1 DEF LoopInv
  <2>2. CASE i \in 1 .. Len(inodes)
    BY <1>1, <1>7, <2>2 DEF NamesStayInside
  <2> QED
    BY <1>7, <2>1, <2>2
<1>9. TypeOK' /\ LoopInv'
  BY <1>1, <1>7 DEF Construct, TypeOK, LoopInv, I
<1> QED
  BY <1>8, <1>9 DEF InodeIInv

LEMMA InodeInvariance == Spec => []InodeIInv
<1>1. Init => InodeIInv
  BY NamesAssumption DEF Init, InodeIInv, TypeOK, LoopInv, NamesStayInside, INODE_TYPE
<1>2. InodeIInv /\ [Next]_vars => InodeIInv'
  <2> SUFFICES ASSUME InodeIInv, [Next]_vars PROVE InodeIInv'
    OBVIOUS
  <2>1. CASE UNCHANGED vars
    BY <2>1 DEF vars, InodeIInv, TypeOK, LoopInv, NamesStayInside
  <2> QED
    BY <2>1, StripKeepsInv, ConstructKeepsInv DEF Next
<1> QED
  BY <1>1, <1>2, PTL DEF Spec

\* Whatever names are asked for, inodes lie below the export (Context.hpp:148-159,
\* 191-214).
THEOREM NamesStayInsideHolds == Spec => []NamesStayInside
<1>1. InodeIInv => NamesStayInside
  BY DEF InodeIInv
<1> QED
  BY <1>1, InodeInvariance, PTL

-----------------------------------------------------------------------------
(***************************************************************************)
(* What is left of a name is told by the places its characters stood at:   *)
(* the values of a function that increases.                                *)
(***************************************************************************)

\* f gives places of s, from left to right, where the characters of t stand.
Picks(f, s, t) ==
    /\ f \in [1 .. Len(t) -> 1 .. Len(s)]
    /\ \A i, j \in 1 .. Len(t) : i < j => f[i] < f[j]
    /\ \A i \in 1 .. Len(t) : t[i] = s[f[i]]

Places(f, n) == {f[i] : i \in 1 .. n}

\* An increasing function has as many values as arguments.
LEMMA PlacesCounted ==
    ASSUME NEW n \in Nat, NEW m \in Nat, NEW f \in [1 .. n -> 1 .. m],
           \A i, j \in 1 .. n : i < j => f[i] < f[j],
           NEW p \in Nat, p <= n
    PROVE  Cardinality(Places(f, p)) = p
<1> DEFINE g == [i \in 1 .. p |-> f[i]]
<1>1. \A i \in 1 .. p : i \in 1 .. n
  OBVIOUS
<1>2. g \in [1 .. p -> Places(f, p)]
  BY DEF Places
<1>3. ASSUME NEW a \in 1 .. p, NEW b \in 1 .. p, g[a] = g[b] PROVE a = b
  <2>1. f[a] = f[b] /\ f[a] \in Nat /\ a \in 1 .. n /\ b \in 1 .. n
    BY <1>1, <1>3
  <2>2. ~ (a < b) /\ ~ (b < a)
    BY <2>1
  <2> QED
    BY <2>2
<1>4. \A t \in Places(f, p) : \E i \in 1 .. p : g[i] = t
  BY DEF Places
<1>5. g \in Bijection(1 .. p, Places(f, p))
  BY <1>2, <1>3, <1>4 DEF Bijection, Injection, Surjection, IsInjective
<1>6. IsFiniteSet(1 .. p) /\ Cardinality(1 .. p) = p
  BY FS_Interval
<1>7. ExistsBijection(1 .. p, Places(f, p))
  BY <1>5, Zenon DEF ExistsBijection
<1> QED
  BY <1>6, <1>7, FS_Bijection, Zenon

\* The name is the characters at those places, in order.
LEMMA KeptIsPicked ==
    ASSUME NEW s \in Seq(Characters), NEW t \in Seq(Characters), NEW f,
           Picks(f, s, t)
    PROVE  Kept(s, Places(f, Len(t))) = t
<1> DEFINE n == Len(t)
           K == Places(f, n)
           before(i) == {k \in K : k < i}
<1>1. /\ n \in Nat /\ Len(s) \in Nat /\ f \in [1 .. n -> 1 .. Len(s)]
      /\ \A i, j \in 1 .. n : i < j => f[i] < f[j]
      /\ \A i \in 1 .. n : t[i] = s[f[i]]
      /\ t = [j \in 1 .. n |-> t[j]]
  BY DEF Picks
<1> HIDE DEF n
<1>2. Cardinality(K) = n
  <2>1. n <= n
    BY <1>1
  <2> QED
    BY <1>1, <2>1, PlacesCounted, Zenon
<1>3. ASSUME NEW j \in 1 .. n PROVE f[j] \in K /\ Cardinality(before(f[j])) = j - 1
  <2>1. \A i \in 1 .. n : f[i] < f[j] <=> i < j
    BY <1>1
  <2>2. before(f[j]) = Places(f, j - 1)
    BY <1>1, <2>1 DEF Places
  <2>3. j - 1 \in Nat /\ j - 1 <= n
    BY <1>1
  <2>4. Cardinality(Places(f, j - 1)) = j - 1
    BY <1>1, <2>3, PlacesCounted
  <2> QED
    BY <2>2, <2>4 DEF Places
<1>4. ASSUME NEW j \in 1 .. n
      PROVE  (CHOOSE i \in K : Cardinality(before(i)) = j - 1) = f[j]
  <2>1. ASSUME NEW i \in K, Cardinality(before(i)) = j - 1 PROVE i = f[j]
    <3>1. PICK k \in 1 .. n : i = f[k]
      BY DEF Places
    <3>2. k - 1 = j - 1
      BY <1>3, <2>1, <3>1
    <3> QED
      BY <1>1, <3>1, <3>2
  <2> HIDE DEF before, K
  <2> QED
    BY <1>3, <2>1
<1>5. Kept(s, K) = [j \in 1 .. n |-> t[j]]
  <2> DEFINE place(j) == CHOOSE i \in K : Cardinality(before(i)) = j - 1
  <2>1. Kept(s, K) = [j \in 1 .. n |-> s[place(j)]]
    BY <1>2 DEF Kept
  <2>2. \A j \in 1 .. n : place(j) = f[j]
    BY <1>4
  <2> HIDE DEF before, K, place
  <2>3. \A j \in 1 .. n : s[place(j)] = t[j]
    BY <1>1, <2>2, Zenon
  <2> QED
    BY <2>1, <2>3
<1> QED
  BY <1>1, <1>5, Zenon DEF n

\* Taking characters out of a name takes out their places and no other.
LEMMA RemovalPicks ==
    ASSUME NEW s \in Seq(Characters), NEW t \in Seq(Characters), NEW f,
           Picks(f, s, t),
           NEW n \in {1, 2}, NEW i \in Nat, i >= 1, i + n - 1 <= Len(t)
    PROVE  /\ Len(Without(t, i, n)) = Len(t) - n
           /\ \A j \in 1 .. Len(t) - n :
                 /\ Without(t, i, n)[j] = IF j < i THEN t[j] ELSE t[j + n]
                 /\ Without(f, i, n)[j] = IF j < i THEN f[j] ELSE f[j + n]
           /\ Picks(Without(f, i, n), s, Without(t, i, n))
           /\ \A k \in Places(f, Len(t)) :
                 \/ k \in Places(Without(f, i, n), Len(t) - n)
                 \/ k \in {f[i], f[i + n - 1]}
<1> DEFINE u == Without(t, i, n)
           g == Without(f, i, n)
<1>1. /\ Len(t) \in Nat /\ Len(s) \in Nat /\ f \in [1 .. Len(t) -> 1 .. Len(s)]
      /\ \A j, k \in 1 .. Len(t) : j < k => f[j] < f[k]
      /\ \A j \in 1 .. Len(t) : t[j] = s[f[j]]
  BY DEF Picks
<1>2. Len(f) = Len(t)
  BY <1>1
<1>3. /\ Len(u) = Len(t) - n
      /\ \A j \in 1 .. Len(t) - n : u[j] = IF j < i THEN t[j] ELSE t[j + n]
  BY WithoutType, Zenon
<1>4. /\ g = [j \in 1 .. Len(t) - n |-> IF j < i THEN f[j] ELSE f[j + n]]
      /\ \A j \in 1 .. Len(t) - n : g[j] = IF j < i THEN f[j] ELSE f[j + n]
  BY <1>2 DEF Without
<1> HIDE DEF u, g
<1>5. \A j \in 1 .. Len(t) - n : j \in 1 .. Len(t) /\ j + n \in 1 .. Len(t)
  BY <1>1
<1>6. g \in [1 .. Len(u) -> 1 .. Len(s)]
  <2>1. \A j \in 1 .. Len(t) - n : f[j] \in 1 .. Len(s) /\ f[j + n] \in 1 .. Len(s)
    BY <1>1, <1>5, Zenon
  <2>2. \A j \in 1 .. Len(t) - n : g[j] \in 1 .. Len(s)
    BY <1>4, <2>1, Zenon
  <2> QED
    BY <1>3, <1>4, <2>2, Zenon
<1>7. \A j, k \in 1 .. Len(u) : j < k => g[j] < g[k]
  BY <1>1, <1>3, <1>4
<1>8. \A j \in 1 .. Len(u) : u[j] = s[g[j]]
  BY <1>1, <1>3, <1>4, <1>5, Zenon
<1>9. ASSUME NEW k \in Places(f, Len(t)), k \notin {f[i], f[i + n - 1]}
      PROVE  k \in Places(g, Len(t) - n)
  <2>1. PICK j \in 1 .. Len(t) : k = f[j]
    BY DEF Places
  <2>2. j # i /\ j # i + n - 1
    BY <1>9, <2>1
  <2>3. CASE j < i
    <3>1. j \in 1 .. Len(t) - n /\ g[j] = k
      BY <1>1, <1>4, <2>1, <2>3
    <3> QED
      BY <3>1, Zenon DEF Places
  <2>4. CASE j > i
    <3>1. j - n \in 1 .. Len(t) - n /\ ~ (j - n < i) /\ (j - n) + n = j
      BY <1>1, <2>2, <2>4
    <3>2. g[j - n] = k
      BY <1>4, <2>1, <3>1
    <3> QED
      BY <3>1, <3>2, Zenon DEF Places
  <2> QED
    BY <2>2, <2>3, <2>4
<1> QED
  BY <1>3, <1>4, <1>6, <1>7, <1>8, <1>9, Zenon DEF Picks, u, g

\* What is not picked had to go.
Covers(f, s, t) ==
    1 .. Len(s) \subseteq Places(f, Len(t)) \cup Slashes(s) \cup DotSlashes(s)

\* A dot stands where it stood: at the end, or before what came after it.
DotsFollowed(f, s, t) ==
    \A i \in 1 .. Len(t) :
        t[i] = Dot => \/ f[i] = Len(s)
                      \/ (i < Len(t) /\ f[i + 1] = f[i] + 1)

\* No dot is left that stood before a slash.
DotsFree(f, s, t) == \A i \in 1 .. Len(t) : f[i] \notin DotSlashes(s)

\* Taking out a "./" takes a dot that stood before a slash, and that slash:
\* what is between them in the name was never taken out (Context.hpp:203-207).
LEMMA DotSlashKeepsPicks ==
    ASSUME NEW s \in Seq(Characters), NEW t \in Seq(Characters), NEW f,
           DotDots(t) = {}, NEW i \in DotSlashes(t),
           Picks(f, s, t), Covers(f, s, t), DotsFollowed(f, s, t)
    PROVE  LET g == Without(f, i, 2)
               u == Without(t, i, 2)
           IN  Picks(g, s, u) /\ Covers(g, s, u) /\ DotsFollowed(g, s, u)
<1> DEFINE u == Without(t, i, 2)
           g == Without(f, i, 2)
<1>1. /\ i \in 1 .. Len(t) - 1 /\ i \in Nat /\ i >= 1 /\ i + 2 - 1 <= Len(t)
      /\ t[i] = Dot /\ t[i + 1] = Slash
      /\ i + 1 \in 1 .. Len(t) /\ i \in 1 .. Len(t)
      /\ Len(t) \in Nat /\ Len(s) \in Nat
      /\ i + 2 - 1 = i + 1
  BY DEF DotSlashes
<1>2. /\ Len(u) = Len(t) - 2
      /\ \A j \in 1 .. Len(t) - 2 : /\ u[j] = IF j < i THEN t[j] ELSE t[j + 2]
                                    /\ g[j] = IF j < i THEN f[j] ELSE f[j + 2]
      /\ Picks(g, s, u)
      /\ \A k \in Places(f, Len(t)) :
            k \in Places(g, Len(t) - 2) \/ k \in {f[i], f[i + 2 - 1]}
  <2>1. 2 \in {1, 2}
    OBVIOUS
  <2> QED
    BY <1>1, <2>1, RemovalPicks, Zenon
<1> HIDE DEF u, g
<1>3. /\ f \in [1 .. Len(t) -> 1 .. Len(s)]
      /\ \A j, k \in 1 .. Len(t) : j < k => f[j] < f[k]
      /\ \A j \in 1 .. Len(t) : t[j] = s[f[j]]
  BY Zenon DEF Picks
<1>4. f[i + 1] = f[i] + 1
  <2>1. f[i] < f[i + 1] /\ f[i + 1] <= Len(s) /\ f[i] \in Nat /\ f[i + 1] \in Nat
    BY <1>1, <1>3
  <2>2. f[i] # Len(s)
    BY <1>1, <2>1
  <2> QED
    BY <1>1, <2>2, Zenon DEF DotsFollowed
<1>5. f[i] \in DotSlashes(s) /\ f[i + 1] \in Slashes(s)
  <2>1. /\ s[f[i]] = Dot /\ s[f[i + 1]] = Slash
        /\ f[i] \in 1 .. Len(s) /\ f[i + 1] \in 1 .. Len(s)
    BY <1>1, <1>3
  <2>2. f[i] \in 1 .. Len(s) - 1 /\ s[f[i] + 1] = Slash
    BY <1>1, <1>4, <2>1
  <2> QED
    BY <2>1, <2>2 DEF DotSlashes, Slashes
<1>6. Covers(g, s, u)
  <2> SUFFICES ASSUME NEW k \in 1 .. Len(s)
               PROVE  k \in Places(g, Len(u)) \cup Slashes(s) \cup DotSlashes(s)
    BY Zenon DEF Covers
  <2>1. k \in Places(f, Len(t)) \/ k \in Slashes(s) \cup DotSlashes(s)
    BY Zenon DEF Covers
  <2> QED
    BY <1>1, <1>2, <1>5, <2>1, Zenon
<1>7. DotsFollowed(g, s, u)
  <2> SUFFICES ASSUME NEW j \in 1 .. Len(u), u[j] = Dot
               PROVE  g[j] = Len(s) \/ (j < Len(u) /\ g[j + 1] = g[j] + 1)
    BY Zenon DEF DotsFollowed
  <2>1. \A k \in 1 .. Len(t) :
           t[k] = Dot => f[k] = Len(s) \/ (k < Len(t) /\ f[k + 1] = f[k] + 1)
    BY Zenon DEF DotsFollowed
  <2>2. CASE j >= i
    <3>1. /\ j \in 1 .. Len(t) - 2 /\ ~ (j < i) /\ j + 2 \in 1 .. Len(t)
          /\ (j + 2) + 1 = (j + 1) + 2 /\ ~ (j + 1 < i)
          /\ j + 2 < Len(t) => (j + 1 \in 1 .. Len(t) - 2 /\ j < Len(u))
      BY <1>1, <1>2, <2>2
    <3>2. u[j] = t[j + 2] /\ g[j] = f[j + 2]
      BY <1>2, <3>1, Zenon
    <3>3. f[j + 2] = Len(s) \/ (j + 2 < Len(t) /\ f[(j + 2) + 1] = f[j + 2] + 1)
      BY <2>1, <3>1, <3>2, Zenon
    <3>4. j + 2 < Len(t) => g[j + 1] = f[(j + 2) + 1]
      <4>1. j + 2 < Len(t) => g[j + 1] = f[(j + 1) + 2]
        BY <1>2, <3>1
      <4> QED
        BY <3>1, <4>1
    <3>5. CASE j + 2 < Len(t) /\ f[(j + 2) + 1] = f[j + 2] + 1
      BY <3>1, <3>2, <3>4, <3>5
    <3>6. CASE f[j + 2] = Len(s)
      BY <3>2, <3>6
    <3> QED
      BY <3>3, <3>5, <3>6, Zenon
  <2>3. CASE j < i
    <3>1. j \in 1 .. Len(t) - 2 /\ j \in 1 .. Len(t)
      BY <1>1, <1>2, <2>3
    <3>2. u[j] = t[j] /\ g[j] = f[j]
      BY <1>2, <2>3, <3>1, Zenon
    <3>3. j + 1 # i
      <4>1. ~ (t[j] = Dot /\ t[j + 1] = Dot)
        BY <1>1, <2>3 DEF DotDots
      <4> QED
        BY <1>1, <3>2, <4>1
    <3>4. j + 1 < i /\ j + 1 \in 1 .. Len(t) - 2 /\ j < Len(u)
      BY <1>1, <1>2, <2>3, <3>3
    <3>5. g[j + 1] = f[j + 1]
      BY <1>2, <3>4, Zenon
    <3> QED
      BY <2>1, <3>1, <3>2, <3>4, <3>5, Zenon
  <2> QED
    BY <1>1, <1>2, <2>2, <2>3
<1> QED
  BY <1>2, <1>6, <1>7, Zenon DEF u, g

\* Taking out a slash takes a slash of the name (Context.hpp:209-213).
LEMMA SlashKeepsPicks ==
    ASSUME NEW s \in Seq(Characters), NEW t \in Seq(Characters), NEW f,
           NEW i \in Slashes(t),
           Picks(f, s, t), Covers(f, s, t), DotsFree(f, s, t)
    PROVE  LET g == Without(f, i, 1)
               u == Without(t, i, 1)
           IN  Picks(g, s, u) /\ Covers(g, s, u) /\ DotsFree(g, s, u)
<1> DEFINE u == Without(t, i, 1)
           g == Without(f, i, 1)
<1>1. /\ i \in 1 .. Len(t) /\ i \in Nat /\ i >= 1 /\ i + 1 - 1 <= Len(t)
      /\ t[i] = Slash /\ Len(t) \in Nat /\ Len(s) \in Nat /\ i + 1 - 1 = i
  BY DEF Slashes
<1>2. /\ Len(u) = Len(t) - 1
      /\ \A j \in 1 .. Len(t) - 1 : /\ u[j] = IF j < i THEN t[j] ELSE t[j + 1]
                                    /\ g[j] = IF j < i THEN f[j] ELSE f[j + 1]
      /\ Picks(g, s, u)
      /\ \A k \in Places(f, Len(t)) :
            k \in Places(g, Len(t) - 1) \/ k \in {f[i], f[i + 1 - 1]}
  <2>1. 1 \in {1, 2}
    OBVIOUS
  <2> QED
    BY <1>1, <2>1, RemovalPicks, Zenon
<1> HIDE DEF u, g
<1>3. /\ f \in [1 .. Len(t) -> 1 .. Len(s)]
      /\ \A j \in 1 .. Len(t) : t[j] = s[f[j]]
  BY Zenon DEF Picks
<1>4. f[i] \in Slashes(s)
  BY <1>1, <1>3 DEF Slashes
<1>5. Covers(g, s, u)
  <2> SUFFICES ASSUME NEW k \in 1 .. Len(s)
               PROVE  k \in Places(g, Len(u)) \cup Slashes(s) \cup DotSlashes(s)
    BY Zenon DEF Covers
  <2>1. k \in Places(f, Len(t)) \/ k \in Slashes(s) \cup DotSlashes(s)
    BY Zenon DEF Covers
  <2> QED
    BY <1>1, <1>2, <1>4, <2>1, Zenon
<1>6. DotsFree(g, s, u)
  <2> SUFFICES ASSUME NEW j \in 1 .. Len(u) PROVE g[j] \notin DotSlashes(s)
    BY Zenon DEF DotsFree
  <2>1. j \in 1 .. Len(t) - 1 /\ j \in 1 .. Len(t) /\ j + 1 \in 1 .. Len(t)
    BY <1>1, <1>2
  <2> QED
    BY <1>2, <2>1, Zenon DEF DotsFree
<1> QED
  BY <1>2, <1>5, <1>6, Zenon DEF u, g

\* Before the loop over slashes: each "./" of the name has lost its dot.
LEMMA NoDotSlashIsDotsFree ==
    ASSUME NEW s \in Seq(Characters), NEW t \in Seq(Characters), NEW f,
           DotSlashes(t) = {}, Picks(f, s, t), DotsFollowed(f, s, t)
    PROVE  DotsFree(f, s, t)
<1> SUFFICES ASSUME NEW i \in 1 .. Len(t), f[i] \in DotSlashes(s) PROVE FALSE
  BY Zenon DEF DotsFree
<1>1. /\ f[i] \in 1 .. Len(s) - 1 /\ s[f[i]] = Dot /\ s[f[i] + 1] = Slash
      /\ f[i] # Len(s) /\ Len(t) \in Nat
  BY DEF DotSlashes
<1>2. /\ t[i] = s[f[i]]
      /\ i + 1 \in 1 .. Len(t) => t[i + 1] = s[f[i + 1]]
  BY Zenon DEF Picks
<1>3. i < Len(t) /\ f[i + 1] = f[i] + 1
  BY <1>1, <1>2, Zenon DEF DotsFollowed
<1>4. i \in 1 .. Len(t) - 1 /\ i + 1 \in 1 .. Len(t)
  BY <1>1, <1>3
<1> QED
  BY <1>1, <1>2, <1>3, <1>4 DEF DotSlashes

\* After it: what is picked is what need not go.
LEMMA PlacesAtEnd ==
    ASSUME NEW s \in Seq(Characters), NEW t \in Seq(Characters), NEW f,
           Slashes(t) = {}, Picks(f, s, t), Covers(f, s, t), DotsFree(f, s, t)
    PROVE  Places(f, Len(t)) = DOMAIN s \ (Slashes(s) \cup DotSlashes(s))
<1>1. DOMAIN s = 1 .. Len(s)
  OBVIOUS
<1>2. ASSUME NEW i \in 1 .. Len(t)
      PROVE  f[i] \in 1 .. Len(s) /\ f[i] \notin Slashes(s) /\ f[i] \notin DotSlashes(s)
  <2>1. f[i] \in 1 .. Len(s) /\ t[i] = s[f[i]]
    BY Zenon DEF Picks
  <2>2. t[i] # Slash
    BY DEF Slashes
  <2> QED
    BY <2>1, <2>2, Zenon DEF DotsFree, Slashes
<1>3. ASSUME NEW k \in Places(f, Len(t))
      PROVE  k \in DOMAIN s \ (Slashes(s) \cup DotSlashes(s))
  <2>1. PICK i \in 1 .. Len(t) : k = f[i]
    BY DEF Places
  <2> QED
    BY <1>1, <1>2, <2>1
<1>4. ASSUME NEW k \in DOMAIN s \ (Slashes(s) \cup DotSlashes(s))
      PROVE  k \in Places(f, Len(t))
  BY <1>1 DEF Covers
<1> QED
  BY <1>3, <1>4, Zenon

-----------------------------------------------------------------------------
\* What the loops of stripSlash have done to the name so far.
StripInv ==
    /\ stage = "dotdot" => myName = name
    /\ stage \in {"dotSlash", "slash"} => DotDots(name) = {}
    /\ stage \in {"dotSlash", "slash", "done"} =>
          IF DotDots(name) # {}
          THEN myName = <<>>
          ELSE \E f \in [1 .. Len(myName) -> 1 .. Len(name)] :
                  /\ Picks(f, name, myName)
                  /\ Covers(f, name, myName)
                  /\ stage = "dotSlash" => DotsFollowed(f, name, myName)
                  /\ stage \in {"slash", "done"} => DotsFree(f, name, myName)

\* The name before the first loop: every character is where it was.
LEMMA AcceptNameKeepsStripInv ==
    ASSUME TypeOK, StripInv, AcceptName PROVE StripInv'
<1> DEFINE f == [i \in 1 .. Len(name) |-> i]
<1>1. /\ myName = name /\ DotDots(name) = {} /\ stage' = "dotSlash"
      /\ name' = name /\ myName' = name /\ name \in Seq(Characters)
      /\ Len(name) \in Nat
  BY DEF StripInv, AcceptName, TypeOK
<1>2. f \in [1 .. Len(name) -> 1 .. Len(name)] /\ Picks(f, name, name)
  BY <1>1 DEF Picks
<1>3. Covers(f, name, name)
  BY <1>1 DEF Covers, Places
<1>4. DotsFollowed(f, name, name)
  BY <1>1 DEF DotsFollowed
<1> HIDE DEF f
<1>5. \E h \in [1 .. Len(myName') -> 1 .. Len(name')] :
         /\ Picks(h, name', myName') /\ Covers(h, name', myName')
         /\ stage' = "dotSlash" => DotsFollowed(h, name', myName')
         /\ stage' \in {"slash", "done"} => DotsFree(h, name', myName')
  BY <1>1, <1>2, <1>3, <1>4
<1> QED
  BY <1>1, <1>5 DEF StripInv

LEMMA StripDotSlashKeepsStripInv ==
    ASSUME TypeOK, LoopInv, StripInv, StripDotSlash PROVE StripInv'
<1>1. PICK i \in DotSlashes(myName) : myName' = Without(myName, i, 2)
  BY DEF StripDotSlash
<1>2. /\ stage = "dotSlash" /\ stage' = "dotSlash" /\ name' = name
      /\ DotDots(name) = {} /\ DotDots(myName) = {}
      /\ name \in Seq(Characters) /\ myName \in Seq(Characters)
  BY DEF StripDotSlash, StripInv, LoopInv, TypeOK
<1>3. PICK f : /\ Picks(f, name, myName) /\ Covers(f, name, myName)
               /\ DotsFollowed(f, name, myName)
  BY <1>2 DEF StripInv
<1> DEFINE g == Without(f, i, 2)
<1>4. /\ Picks(g, name, myName') /\ Covers(g, name, myName')
      /\ DotsFollowed(g, name, myName')
  BY <1>1, <1>2, <1>3, DotSlashKeepsPicks, Zenon
<1> HIDE DEF g
<1>5. g \in [1 .. Len(myName') -> 1 .. Len(name)]
  BY <1>4, Zenon DEF Picks
<1>6. \E h \in [1 .. Len(myName') -> 1 .. Len(name')] :
         /\ Picks(h, name', myName') /\ Covers(h, name', myName')
         /\ stage' = "dotSlash" => DotsFollowed(h, name', myName')
         /\ stage' \in {"slash", "done"} => DotsFree(h, name', myName')
  BY <1>2, <1>4, <1>5
<1> QED
  BY <1>2, <1>6 DEF StripInv

LEMMA NoDotSlashKeepsStripInv ==
    ASSUME TypeOK, StripInv, NoDotSlash PROVE StripInv'
<1>1. /\ stage = "dotSlash" /\ stage' = "slash" /\ name' = name /\ myName' = myName
      /\ DotDots(name) = {} /\ DotSlashes(myName) = {}
      /\ name \in Seq(Characters) /\ myName \in Seq(Characters)
  BY DEF NoDotSlash, StripInv, TypeOK
<1>2. PICK f \in [1 .. Len(myName) -> 1 .. Len(name)] :
         /\ Picks(f, name, myName) /\ Covers(f, name, myName)
         /\ DotsFollowed(f, name, myName)
  BY <1>1 DEF StripInv
<1>3. DotsFree(f, name, myName)
  BY <1>1, <1>2, NoDotSlashIsDotsFree, Zenon
<1>4. \E h \in [1 .. Len(myName') -> 1 .. Len(name')] :
         /\ Picks(h, name', myName') /\ Covers(h, name', myName')
         /\ stage' = "dotSlash" => DotsFollowed(h, name', myName')
         /\ stage' \in {"slash", "done"} => DotsFree(h, name', myName')
  BY <1>1, <1>2, <1>3
<1> QED
  BY <1>1, <1>4 DEF StripInv

LEMMA StripSlashKeepsStripInv ==
    ASSUME TypeOK, StripInv, StripSlash PROVE StripInv'
<1>1. PICK i \in Slashes(myName) : myName' = Without(myName, i, 1)
  BY DEF StripSlash
<1>2. /\ stage = "slash" /\ stage' = "slash" /\ name' = name /\ DotDots(name) = {}
      /\ name \in Seq(Characters) /\ myName \in Seq(Characters)
  BY DEF StripSlash, StripInv, TypeOK
<1>3. PICK f : /\ Picks(f, name, myName) /\ Covers(f, name, myName)
               /\ DotsFree(f, name, myName)
  BY <1>2 DEF StripInv
<1> DEFINE g == Without(f, i, 1)
<1>4. /\ Picks(g, name, myName') /\ Covers(g, name, myName')
      /\ DotsFree(g, name, myName')
  BY <1>1, <1>2, <1>3, SlashKeepsPicks, Zenon
<1> HIDE DEF g
<1>5. g \in [1 .. Len(myName') -> 1 .. Len(name)]
  BY <1>4, Zenon DEF Picks
<1>6. \E h \in [1 .. Len(myName') -> 1 .. Len(name')] :
         /\ Picks(h, name', myName') /\ Covers(h, name', myName')
         /\ stage' = "dotSlash" => DotsFollowed(h, name', myName')
         /\ stage' \in {"slash", "done"} => DotsFree(h, name', myName')
  BY <1>2, <1>4, <1>5
<1> QED
  BY <1>2, <1>6 DEF StripInv

LEMMA StepKeepsStripInv ==
    ASSUME InodeIInv, StripInv, [Next]_vars PROVE StripInv'
<1>1. TypeOK /\ LoopInv
  BY DEF InodeIInv
<1>2. CASE Begin
  BY <1>2 DEF Begin, StripInv
<1>3. CASE RejectDotDot
  BY <1>3 DEF RejectDotDot, StripInv
<1>4. CASE NoSlash
  BY <1>4 DEF NoSlash, StripInv
<1>5. CASE Construct
  BY <1>5 DEF Construct, StripInv
<1>6. CASE UNCHANGED vars
  BY <1>6 DEF vars, StripInv
<1> QED
  BY <1>1, <1>2, <1>3, <1>4, <1>5, <1>6, AcceptNameKeepsStripInv,
     StripDotSlashKeepsStripInv, NoDotSlashKeepsStripInv, StripSlashKeepsStripInv
     DEF Next

LEMMA StripInvariance == Spec => []StripInv
<1>1. Init => StripInv
  BY DEF Init, StripInv
<1>2. InodeIInv /\ StripInv /\ [Next]_vars => StripInv'
  BY StepKeepsStripInv
<1> QED
  BY <1>1, <1>2, InodeInvariance, PTL DEF Spec

\* For any name, of any length, the two loops of stripSlash leave the characters
\* that are neither a slash nor a dot before a slash, in their order
\* (Context.hpp:191-214).
THEOREM StripsSlashesHolds == Spec => []StripsSlashes
<1>1. InodeIInv /\ StripInv => StripsSlashes
  <2> SUFFICES ASSUME InodeIInv, StripInv, stage = "done"
               PROVE  myName = IF DotDots(name) # {}
                               THEN <<>>
                               ELSE Kept(name, DOMAIN name \ (Slashes(name) \cup DotSlashes(name)))
    BY Zenon DEF StripsSlashes
  <2>1. /\ name \in Seq(Characters) /\ myName \in Seq(Characters)
        /\ Slashes(myName) = {}
    BY DEF InodeIInv, TypeOK, LoopInv
  <2>2. CASE DotDots(name) # {}
    BY <2>2 DEF StripInv
  <2>3. CASE DotDots(name) = {}
    <3>1. PICK f : /\ Picks(f, name, myName) /\ Covers(f, name, myName)
                   /\ DotsFree(f, name, myName)
      BY <2>3 DEF StripInv
    <3>2. Places(f, Len(myName)) = DOMAIN name \ (Slashes(name) \cup DotSlashes(name))
      BY <2>1, <3>1, PlacesAtEnd, Zenon
    <3>3. Kept(name, Places(f, Len(myName))) = myName
      BY <2>1, <3>1, KeptIsPicked, Zenon
    <3> QED
      BY <2>3, <3>2, <3>3, Zenon
  <2> QED
    BY <2>2, <2>3
<1> QED
  BY <1>1, InodeInvariance, StripInvariance, PTL

=============================================================================
