----------------------------- MODULE EnumProofs -----------------------------
(***************************************************************************)
(* Proofs about EnumNames, for enumerations of any length.                 *)
(***************************************************************************)
EXTENDS EnumNames, TLAPS

\* Multiples of m are m apart.
LEMMA NoSmallMultiple ==
    ASSUME NEW m \in Nat \ {0}, NEW k \in Int, NEW l \in Int
    PROVE  m * k - m * l >= m \/ m * k - m * l <= 0
<1>1. m * k - m * l = m * (k - l)
  OBVIOUS
<1>2. ASSUME NEW d \in Int
      PROVE  (d >= 1 => m * d >= m) /\ (d <= 0 => m * d <= 0)
  <2>1. CASE d >= 1
    BY <2>1
  <2>2. CASE d <= 0
    BY <2>2
  <2> QED
    BY <2>1, <2>2
<1>3. k - l \in Int /\ (k - l >= 1 \/ k - l <= 0)
  OBVIOUS
<1>4. m * (k - l) >= m \/ m * (k - l) <= 0
  BY <1>2, <1>3
<1> QED
  BY <1>1, <1>4

\* The only remainder there is.
LEMMA RemainderUnique ==
    ASSUME NEW a \in Int, NEW m \in Nat \ {0}, NEW q \in Int, NEW r \in 0 .. m - 1,
           a = m * q + r
    PROVE  a % m = r
<1>1. /\ a \div m \in Int /\ a % m \in 0 .. m - 1
      /\ a = m * (a \div m) + (a % m)
  <2>1. a \div m \in Int
    OBVIOUS
  <2>2. a % m \in 0 .. m - 1
    OBVIOUS
  <2>3. a = m * (a \div m) + (a % m)
    OBVIOUS
  <2> QED
    BY <2>1, <2>2, <2>3
<1>2. /\ m * q - m * (a \div m) >= m \/ m * q - m * (a \div m) <= 0
      /\ m * (a \div m) - m * q >= m \/ m * (a \div m) - m * q <= 0
  BY <1>1, NoSmallMultiple
<1>3. m * q \in Int /\ m * (a \div m) \in Int
  BY <1>1
<1> DEFINE x == m * q
           y == m * (a \div m)
           z == a % m
<1>4. x = y
  <2>1. /\ x \in Int /\ y \in Int /\ z \in 0 .. m - 1
        /\ x - y >= m \/ x - y <= 0
        /\ y - x >= m \/ y - x <= 0
        /\ x + r = y + z
    BY <1>1, <1>2, <1>3
  <2> HIDE DEF x, y, z
  <2> QED
    BY <2>1
<1>5. x + r = y + z /\ x \in Int /\ y \in Int /\ z \in Int
  BY <1>1, <1>3
<1> HIDE DEF x, y, z
<1>6. z = r
  BY <1>4, <1>5
<1> QED
  BY <1>6 DEF z

\* Counting on after a remainder.
LEMMA CountedOn ==
    ASSUME NEW v \in Int, NEW m \in Nat \ {0}
    PROVE  ((v % m) + 1) % m = (v + 1) % m
<1> DEFINE q == v \div m
           r == v % m
<1>1. q \in Int /\ r \in 0 .. m - 1 /\ v = m * q + r
  <2>1. v \div m \in Int
    OBVIOUS
  <2>2. v % m \in 0 .. m - 1
    OBVIOUS
  <2>3. v = m * (v \div m) + (v % m)
    OBVIOUS
  <2> QED
    BY <2>1, <2>2, <2>3
<1> HIDE DEF q, r
<1>2. CASE r + 1 < m
  <2>1. v + 1 = m * q + (r + 1) /\ r + 1 \in 0 .. m - 1 /\ r + 1 \in Int /\ v + 1 \in Int
    BY <1>1, <1>2
  <2>2. (v + 1) % m = r + 1
    BY <1>1, <2>1, RemainderUnique
  <2>3. r + 1 = m * 0 + (r + 1)
    BY <1>1
  <2>4. (r + 1) % m = r + 1
    BY <2>1, <2>3, RemainderUnique
  <2> QED
    BY <2>2, <2>4 DEF r
<1>3. CASE r + 1 = m
  <2>1. v + 1 = m * (q + 1) + 0 /\ q + 1 \in Int /\ v + 1 \in Int /\ 0 \in 0 .. m - 1
    BY <1>1, <1>3
  <2>2. (v + 1) % m = 0
    BY <2>1, RemainderUnique
  <2>3. m = m * 1 + 0 /\ m \in Int
    OBVIOUS
  <2>4. m % m = 0
    BY <2>1, <2>3, RemainderUnique
  <2> QED
    BY <1>3, <2>2, <2>4 DEF r
<1> QED
  BY <1>1, <1>2, <1>3

-----------------------------------------------------------------------------
\* The value of an enumerator with an initialiser.
LEMMA ValueAt ==
    ASSUME NEW s \in Seq(Enumerators), NEW i \in 1 .. Len(s), s[i].init
    PROVE  IsLastInit(s, i, i) /\ Value(s, i) = s[i].means
<1>1. i \in 1 .. i /\ s[i] \in Enumerators /\ i \in Int
  OBVIOUS
<1>2. IsLastInit(s, i, i)
  BY <1>1 DEF IsLastInit
<1>3. \A k \in 1 .. i : IsLastInit(s, i, k) => k = i
  BY DEF IsLastInit
<1>4. (CHOOSE k \in 1 .. i : IsLastInit(s, i, k)) = i
  BY <1>1, <1>2, <1>3, Zenon
<1>5. s[i].means \in Int
  BY <1>1, ListsAssumption
<1>6. Value(s, i) = s[i].means + (i - i)
  BY <1>1, <1>4, Zenon DEF Value
<1> QED
  BY <1>1, <1>2, <1>5, <1>6

\* The value of a bare enumerator behind another one.
LEMMA ValueNext ==
    ASSUME NEW s \in Seq(Enumerators), NEW i \in 1 .. Len(s), ~ s[i].init, i > 1,
           \/ \A k \in 1 .. i - 1 : ~ s[k].init
           \/ \E k \in 1 .. i - 1 : IsLastInit(s, i - 1, k)
    PROVE  /\ Value(s, i) = Value(s, i - 1) + 1
           /\ \A k \in 1 .. i - 1 : IsLastInit(s, i - 1, k) => IsLastInit(s, i, k)
<1>1. \A k \in Int : k \in 1 .. i <=> k \in 1 .. i - 1 \/ k = i
  OBVIOUS
<1>2. \A k \in 1 .. i - 1 : IsLastInit(s, i - 1, k) => IsLastInit(s, i, k)
  BY DEF IsLastInit
<1>3. CASE \A k \in 1 .. i - 1 : ~ s[k].init
  <2>1. \A k \in 1 .. i : ~ s[k].init
    BY <1>1, <1>3
  <2>2. Value(s, i) = i - 1 /\ Value(s, i - 1) = (i - 1) - 1
    BY <1>3, <2>1, Zenon DEF Value
  <2> QED
    BY <1>2, <2>2
<1>4. CASE \E k \in 1 .. i - 1 : IsLastInit(s, i - 1, k)
  <2>1. PICK k \in 1 .. i - 1 : IsLastInit(s, i - 1, k)
    BY <1>4
  <2>2. /\ IsLastInit(s, i, k) /\ k \in 1 .. i /\ s[k].init
        /\ \A j \in 1 .. i : IsLastInit(s, i, j) => j = k
        /\ \A j \in 1 .. i - 1 : IsLastInit(s, i - 1, j) => j = k
    BY <1>2, <2>1 DEF IsLastInit
  <2>3. /\ (CHOOSE j \in 1 .. i : IsLastInit(s, i, j)) = k
        /\ (CHOOSE j \in 1 .. i - 1 : IsLastInit(s, i - 1, j)) = k
    BY <2>1, <2>2, Zenon
  <2>4. /\ Value(s, i) = s[k].means + (i - k)
        /\ Value(s, i - 1) = s[k].means + ((i - 1) - k)
    BY <2>1, <2>2, <2>3, Zenon DEF Value
  <2>5. s[k].means \in Int /\ k \in Int
    BY <2>2, ListsAssumption
  <2> QED
    BY <1>2, <2>4, <2>5
<1> QED
  BY <1>3, <1>4
-----------------------------------------------------------------------------
\* The map after the first n enumerators are in it.
Key(i) == Value(list, i) % SizeModulus

Numbering(n) ==
    /\ \A i \in 1 .. n : Key(i) \in DOMAIN enumMap
    /\ \A k \in DOMAIN enumMap :
          \/ n = Len(list) /\ enumMap[k] = "" /\ \A i \in 1 .. n : Key(i) # k
          \/ \E i \in 1 .. n :
                /\ Key(i) = k
                /\ enumMap[k] = list[i].name
                /\ \A j \in i + 1 .. n : Key(j) # k

\* The invariant of generateEnumMap's loop: currentValue is what the compiler
\* gives the next enumerator if it is bare.
EnumIInv ==
    /\ list \in Seq(Enumerators)
    /\ next \in 1 .. Len(list) + 1
    /\ \/ \A k \in 1 .. next - 1 : ~ list[k].init
       \/ \E k \in 1 .. next - 1 : IsLastInit(list, next - 1, k)
    /\ \A i \in 1 .. next - 1 : Value(list, i) \in Int
    /\ Plain(list) =>
          /\ currentValue = IF next = 1 THEN 0 ELSE (Value(list, next - 1) + 1) % SizeModulus
          /\ Numbering(next - 1)

\* What naming the next enumerator does, with an initialiser or without.
LEMMA NamedAsCompiled ==
    ASSUME EnumIInv, NameNext \/ NameAt
    PROVE  /\ next \in 1 .. Len(list)
           /\ Value(list, next) \in Int
           /\ \/ \A k \in 1 .. next : ~ list[k].init
              \/ \E k \in 1 .. next : IsLastInit(list, next, k)
           /\ Plain(list) =>
                 /\ enumMap' = Put(enumMap, Key(next), list[next].name)
                 /\ currentValue' = (Value(list, next) + 1) % SizeModulus
<1>1. /\ next \in 1 .. Len(list) /\ list \in Seq(Enumerators)
      /\ \A k \in Int : k \in 1 .. next <=> k \in 1 .. next - 1 \/ k = next
  BY DEF EnumIInv, NameNext, NameAt
<1>2. CASE list[next].init
  <2>1. /\ enumMap' = Put(enumMap, list[next].reads % SizeModulus, list[next].name)
        /\ currentValue' = (list[next].reads + 1) % SizeModulus
    BY <1>2 DEF NameNext, NameAt
  <2>2. IsLastInit(list, next, next) /\ Value(list, next) = list[next].means
    BY <1>1, <1>2, ValueAt
  <2>3. list[next] \in Enumerators
    BY <1>1
  <2>4. list[next].means \in Int
    BY <2>3, ListsAssumption
  <2>5. next \in 1 .. next
    BY <1>1
  <2>6. Plain(list) => list[next].reads = list[next].means
    BY <1>1 DEF Plain
  <2> QED
    BY <1>1, <2>1, <2>2, <2>4, <2>5, <2>6, Zenon DEF Key
<1>3. CASE ~ list[next].init
  <2>1. /\ enumMap' = Put(enumMap, currentValue, list[next].name)
        /\ currentValue' = (currentValue + 1) % SizeModulus
    BY <1>3 DEF NameNext, NameAt
  <2>2. CASE next = 1
    <3>1. Value(list, next) = 0
      <4>1. \A k \in 1 .. next : ~ list[k].init
        BY <1>3, <2>2
      <4>2. Value(list, next) = next - 1
        BY <4>1, Zenon DEF Value
      <4> QED
        BY <2>2, <4>2
    <3>2. 0 % SizeModulus = 0
      <4>1. 0 = SizeModulus * 0 + 0 /\ 0 \in 0 .. SizeModulus - 1
        BY ModulusAssumption
      <4> QED
        BY <4>1, ModulusAssumption, RemainderUnique
    <3>3. Plain(list) => currentValue = 0
      BY <2>2 DEF EnumIInv
    <3>4. \A k \in 1 .. next : ~ list[k].init
      BY <1>3, <2>2
    <3>5. 0 \in Int
      OBVIOUS
    <3> QED
      BY <1>1, <2>1, <3>1, <3>2, <3>3, <3>4, <3>5, Zenon DEF Key
  <2>3. CASE next > 1
    <3>1. /\ Value(list, next) = Value(list, next - 1) + 1
          /\ \A k \in 1 .. next - 1 : IsLastInit(list, next - 1, k)
                => IsLastInit(list, next, k)
      BY <1>1, <1>3, <2>3, ValueNext DEF EnumIInv
    <3>2. Value(list, next - 1) \in Int
      BY <1>1, <2>3 DEF EnumIInv
    <3>3. Value(list, next) \in Int
      BY <3>1, <3>2
    <3>4. Plain(list) => currentValue = Value(list, next) % SizeModulus
      BY <1>1, <2>3, <3>1 DEF EnumIInv
    <3>5. ((Value(list, next) % SizeModulus) + 1) % SizeModulus
            = (Value(list, next) + 1) % SizeModulus
      BY <3>3, CountedOn, ModulusAssumption
    <3>6. \/ \A k \in 1 .. next : ~ list[k].init
          \/ \E k \in 1 .. next : IsLastInit(list, next, k)
      BY <1>1, <1>3, <3>1 DEF EnumIInv
    <3> QED
      BY <1>1, <2>1, <3>3, <3>4, <3>5, <3>6, Zenon DEF Key
  <2> QED
    BY <1>1, <2>2, <2>3
<1> QED
  BY <1>2, <1>3

\* Entering one more enumerator.
LEMMA NumberedOn ==
    ASSUME NEW n \in Nat, n + 1 \in 1 .. Len(list), Len(list) \in Nat, Numbering(n),
           list' = list, enumMap' = Put(enumMap, Key(n + 1), list[n + 1].name)
    PROVE  Numbering(n + 1)'
<1>1. \A i : Key(i)' = Key(i)
  BY DEF Key
<1>2. /\ DOMAIN enumMap' = DOMAIN enumMap \cup {Key(n + 1)}
      /\ enumMap'[Key(n + 1)] = list[n + 1].name
      /\ \A k \in DOMAIN enumMap : k # Key(n + 1) => enumMap'[k] = enumMap[k]
  BY DEF Put
<1>3. /\ \A i \in 1 .. n + 1 : i \in 1 .. n \/ i = n + 1
      /\ n # Len(list) /\ n + 1 \in 1 .. n + 1
  OBVIOUS
<1>4. \A i \in 1 .. n + 1 : Key(i) \in DOMAIN enumMap'
  BY <1>2, <1>3, Zenon DEF Numbering
<1>5. ASSUME NEW k \in DOMAIN enumMap'
      PROVE  \E i \in 1 .. n + 1 :
                /\ Key(i)' = k
                /\ enumMap'[k] = list'[i].name
                /\ \A j \in i + 1 .. n + 1 : Key(j)' # k
  <2> SUFFICES \E i \in 1 .. n + 1 :
                  /\ Key(i) = k
                  /\ enumMap'[k] = list[i].name
                  /\ \A j \in i + 1 .. n + 1 : Key(j) # k
    BY <1>1
  <2>1. CASE k = Key(n + 1)
    <3>1. \A j \in (n + 1) + 1 .. n + 1 : FALSE
      OBVIOUS
    <3> QED
      BY <1>2, <1>3, <2>1, <3>1, Zenon
  <2>2. CASE k # Key(n + 1)
    <3>1. k \in DOMAIN enumMap /\ enumMap'[k] = enumMap[k]
      BY <1>2, <1>5, <2>2
    <3>2. PICK i \in 1 .. n : /\ Key(i) = k
                             /\ enumMap[k] = list[i].name
                             /\ \A j \in i + 1 .. n : Key(j) # k
      BY <1>3, <3>1, Zenon DEF Numbering
    <3>3. \A j \in i + 1 .. n + 1 : j \in i + 1 .. n \/ j = n + 1
      OBVIOUS
    <3>4. i \in 1 .. n + 1
      OBVIOUS
    <3> QED
      BY <2>2, <3>1, <3>2, <3>3, <3>4, Zenon
  <2> QED
    BY <2>1, <2>2
<1>6. \A i \in 1 .. n + 1 : Key(i)' \in DOMAIN enumMap'
  BY <1>1, <1>4
<1> QED
  BY <1>5, <1>6, Zenon DEF Numbering

\* Printing keeps the names, and enters only values that have none.
LEMMA PrintedOn ==
    ASSUME NEW n \in Nat, n = Len(list), Numbering(n), list' = list,
           NEW key, key \notin DOMAIN enumMap, enumMap' = Put(enumMap, key, "")
    PROVE  Numbering(n)'
<1>1. \A i : Key(i)' = Key(i)
  BY DEF Key
<1>2. /\ DOMAIN enumMap' = DOMAIN enumMap \cup {key}
      /\ enumMap'[key] = ""
      /\ \A k \in DOMAIN enumMap : enumMap'[k] = enumMap[k]
  BY DEF Put
<1>3. \A i \in 1 .. n : Key(i) \in DOMAIN enumMap /\ Key(i) # key
  <2>1. \A i \in 1 .. n : Key(i) \in DOMAIN enumMap
    BY Zenon DEF Numbering
  <2> QED
    BY <2>1, Zenon
<1>4. ASSUME NEW k \in DOMAIN enumMap'
      PROVE  \/ n = Len(list)' /\ enumMap'[k] = "" /\ \A i \in 1 .. n : Key(i)' # k
             \/ \E i \in 1 .. n :
                   /\ Key(i)' = k
                   /\ enumMap'[k] = list'[i].name
                   /\ \A j \in i + 1 .. n : Key(j)' # k
  <2>1. CASE k = key
    BY <1>1, <1>2, <1>3, <2>1, Zenon
  <2>2. CASE k # key
    <3>1. k \in DOMAIN enumMap /\ enumMap'[k] = enumMap[k]
      BY <1>2, <1>4, <2>2
    <3>2. CASE enumMap[k] = "" /\ \A i \in 1 .. n : Key(i) # k
      BY <1>1, <3>1, <3>2
    <3>3. CASE \E i \in 1 .. n : /\ Key(i) = k
                                /\ enumMap[k] = list[i].name
                                /\ \A j \in i + 1 .. n : Key(j) # k
      BY <1>1, <3>1, <3>3
    <3> QED
      BY <3>1, <3>2, <3>3, Zenon DEF Numbering
  <2> QED
    BY <2>1, <2>2
<1> QED
  BY <1>1, <1>2, <1>3, <1>4, Zenon DEF Numbering

\* Names are the compiler's, for any enumeration of plain numbers
\* (DescriptiveEnum.cpp:33-55, DescriptiveEnum.hpp:48-53).
THEOREM NamesAreTheCompilersHolds == Spec => []NamesAreTheCompilers
<1>1. Init => EnumIInv
  <2> SUFFICES ASSUME Init PROVE EnumIInv
    OBVIOUS
  <2>1. list \in Seq(Enumerators) /\ next = 1 /\ currentValue = 0 /\ DOMAIN enumMap = {}
    BY ListsAssumption DEF Init
  <2>2. \A i \in 1 .. next - 1 : FALSE
    BY <2>1
  <2>3. next \in 1 .. Len(list) + 1
    BY <2>1
  <2>4. Numbering(next - 1)
    BY <2>1, <2>2, Zenon DEF Numbering
  <2> QED
    BY <2>1, <2>2, <2>3, <2>4, Zenon DEF EnumIInv
<1>2. EnumIInv /\ [Next]_vars => EnumIInv'
  <2> SUFFICES ASSUME EnumIInv, [Next]_vars PROVE EnumIInv'
    OBVIOUS
  <2>1. CASE NameNext \/ NameAt
    <3>1. list' = list /\ next' = next + 1
      BY <2>1 DEF NameNext, NameAt
    <3>2. /\ next \in 1 .. Len(list)
          /\ Value(list, next) \in Int
          /\ \/ \A k \in 1 .. next : ~ list[k].init
             \/ \E k \in 1 .. next : IsLastInit(list, next, k)
          /\ Plain(list) =>
                /\ enumMap' = Put(enumMap, Key(next), list[next].name)
                /\ currentValue' = (Value(list, next) + 1) % SizeModulus
      BY <2>1, NamedAsCompiled
    <3>3. /\ next' - 1 = next /\ next' # 1 /\ next' \in 1 .. Len(list) + 1
          /\ \A i \in 1 .. next : i \in 1 .. next - 1 \/ i = next
          /\ next - 1 \in Nat /\ (next - 1) + 1 = next /\ Len(list) \in Nat
      BY <3>1, <3>2 DEF EnumIInv
    <3>4. Plain(list) => Numbering(next - 1)'
      <4> SUFFICES ASSUME Plain(list) PROVE Numbering(next - 1)'
        OBVIOUS
      <4>1. PICK n \in Nat : n = next - 1
        BY <3>3
      <4>2. Numbering(n) /\ n + 1 = next /\ next' - 1 = n + 1
        BY <3>3, <4>1 DEF EnumIInv
      <4>3. Numbering(n + 1)'
        BY <3>1, <3>2, <3>3, <4>2, NumberedOn
      <4> QED
        BY <4>2, <4>3
    <3>5. list' \in Seq(Enumerators) /\ Plain(list)' = Plain(list)
      BY <3>1 DEF EnumIInv, Plain
    <3>6. \A i \in 1 .. next : Value(list, i) \in Int
      BY <3>2, <3>3 DEF EnumIInv
    <3>7. next' - 1 = next /\ ~ (next' = 1) /\ next' \in 1 .. Len(list') + 1
      BY <3>1, <3>3
    <3>8. \/ \A k \in 1 .. next' - 1 : ~ list'[k].init
          \/ \E k \in 1 .. next' - 1 : IsLastInit(list', next' - 1, k)
      BY <3>1, <3>2, <3>7
    <3>9. \A i \in 1 .. next' - 1 : Value(list', i) \in Int
      BY <3>1, <3>6, <3>7
    <3>10. Plain(list') =>
             currentValue' = IF next' = 1 THEN 0
                             ELSE (Value(list', next' - 1) + 1) % SizeModulus
      BY <3>1, <3>2, <3>5, <3>7
    <3>11. Plain(list') => Numbering(next - 1)'
      BY <3>1, <3>4
    <3>12. list' \in Seq(Enumerators) /\ next' \in 1 .. Len(list') + 1
      BY <3>5, <3>7
    <3> QED
      BY <3>8, <3>9, <3>10, <3>11, <3>12, Zenon DEF EnumIInv
  <2>2. CASE PrintEnum
    <3>1. UNCHANGED <<list, next, currentValue>> /\ next - 1 = Len(list)
      <4>1. /\ next > Len(list) /\ list \in Seq(Enumerators)
            /\ next \in 1 .. Len(list) + 1
        BY <2>2, Zenon DEF PrintEnum, EnumIInv
      <4>2. next - 1 = Len(list)
        BY <4>1
      <4> QED
        BY <2>2, <4>2, Zenon DEF PrintEnum
    <3>2. PICK key : enumMap' = IF key \in DOMAIN enumMap THEN enumMap
                                                        ELSE Put(enumMap, key, "")
      BY <2>2, Zenon DEF PrintEnum
    <3>3. PICK n \in Nat : n = next - 1 /\ n = Len(list)
      BY <3>1 DEF EnumIInv
    <3>4. Numbering(n) => Numbering(n)'
      <4>1. CASE key \in DOMAIN enumMap
        <5>1. enumMap' = enumMap /\ list' = list
          BY <3>1, <3>2, <4>1, Zenon
        <5>2. \A i : Key(i)' = Key(i)
          BY <5>1 DEF Key
        <5> QED
          BY <5>1, <5>2 DEF Numbering
      <4>2. CASE key \notin DOMAIN enumMap
        BY <3>1, <3>2, <3>3, <4>2, PrintedOn
      <4> QED
        BY <4>1, <4>2
    <3>5. next' = next /\ list' = list /\ currentValue' = currentValue
      BY <3>1
    <3>6. next' - 1 = n /\ Plain(list)' = Plain(list)
      BY <3>3, <3>5 DEF Plain
    <3>7. Plain(list) => Numbering(next - 1)'
      <4>1. Plain(list) => Numbering(n)
        BY <3>3, Zenon DEF EnumIInv
      <4>2. Numbering(n)' => Numbering(next - 1)'
        BY <3>6
      <4> QED
        BY <3>4, <4>1, <4>2
    <3>8. /\ next' \in 1 .. Len(list') + 1 /\ list' \in Seq(Enumerators)
          /\ \/ \A k \in 1 .. next' - 1 : ~ list'[k].init
             \/ \E k \in 1 .. next' - 1 : IsLastInit(list', next' - 1, k)
          /\ \A i \in 1 .. next' - 1 : Value(list', i) \in Int
          /\ Plain(list') =>
                currentValue' = IF next' = 1 THEN 0
                                ELSE (Value(list', next' - 1) + 1) % SizeModulus
      BY <3>5 DEF EnumIInv
    <3> QED
      BY <3>6, <3>7, <3>8 DEF EnumIInv
  <2>3. CASE UNCHANGED vars
    <3>1. /\ list' = list /\ next' = next /\ currentValue' = currentValue
          /\ enumMap' = enumMap
      BY <2>3 DEF vars
    <3>2. Numbering(next - 1)' <=> Numbering(next - 1)
      <4>1. \A i : Key(i)' = Key(i)
        BY <3>1 DEF Key
      <4>2. (next - 1)' = next - 1
        BY <3>1
      <4>3. /\ (\A i \in 1 .. next - 1 : Key(i) \in DOMAIN enumMap)'
               <=> \A i \in 1 .. next - 1 : Key(i) \in DOMAIN enumMap
            /\ (next - 1 = Len(list))' <=> next - 1 = Len(list)
        BY <3>1, <4>1
      <4>4. \A k :
               /\ (enumMap[k] = "")' <=> enumMap[k] = ""
               /\ (\A i \in 1 .. next - 1 : Key(i) # k)'
                  <=> \A i \in 1 .. next - 1 : Key(i) # k
        BY <3>1, <4>1
      <4>5. \A k :
               (\E i \in 1 .. next - 1 :
                  /\ Key(i) = k
                  /\ enumMap[k] = list[i].name
                  /\ \A j \in i + 1 .. next - 1 : Key(j) # k)'
               <=> \E i \in 1 .. next - 1 :
                  /\ Key(i) = k
                  /\ enumMap[k] = list[i].name
                  /\ \A j \in i + 1 .. next - 1 : Key(j) # k
        BY <3>1, <4>1
      <4> QED
        BY <3>1, <4>2, <4>3, <4>4, <4>5, Zenon DEF Numbering
    <3> QED
      BY <3>1, <3>2 DEF EnumIInv
  <2> QED
    BY <2>1, <2>2, <2>3 DEF Next
<1>3. EnumIInv => NamesAreTheCompilers
  <2> SUFFICES ASSUME EnumIInv, next > Len(list), Plain(list)
               PROVE  /\ \A i \in 1 .. Len(list) : Key(i) \in DOMAIN enumMap
                      /\ \A k \in DOMAIN enumMap :
                            \/ enumMap[k] = "" /\ \A i \in 1 .. Len(list) : Key(i) # k
                            \/ \E i \in 1 .. Len(list) :
                                  /\ Key(i) = k
                                  /\ enumMap[k] = list[i].name
                                  /\ \A j \in i + 1 .. Len(list) : Key(j) # k
    BY Zenon DEF NamesAreTheCompilers, Key
  <2>1. next - 1 = Len(list)
    BY DEF EnumIInv
  <2> QED
    BY <2>1, Zenon DEF EnumIInv, Numbering
<1> QED
  BY <1>1, <1>2, <1>3, PTL DEF Spec
=============================================================================
