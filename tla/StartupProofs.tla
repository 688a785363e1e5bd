--------------------------- MODULE StartupProofs ---------------------------
(***************************************************************************)
(* Proofs about Startup, for any command line.                             *)
(***************************************************************************)
EXTENDS Startup, FiniteSetTheorems, TLAPS

Hold(X, Y) == [server : X, port : Y, usageCount : Int]

\* The inductive invariant: whatever the servers and ports are, there is a
\* context as soon as parseArgs has returned, and the counts are balanced.
StartupIInv ==
    /\ \E X, Y : sContexts \in Seq(Hold(X, Y))
    /\ optCorrect => numServers > 0
    /\ stage \in {"parse", "get", "calls", "put"}
    /\ stage # "parse" => sContexts # <<>>
    /\ exit = "exited" => stage = "put"
    /\ UsageIsBalanced

\* A context that joins the vector is in use by no one, and the others keep
\* their counts.
LEMMA AddServerKeeps == StartupIInv /\ AddServer => StartupIInv'
<1> SUFFICES ASSUME StartupIInv, AddServer PROVE StartupIInv'
  OBVIOUS
<1> DEFINE h == [server |-> Token(options[next].text),
                 port |-> Number(PortText(options[next].text)),
                 usageCount |-> 0]
<1>1. /\ sContexts' = Append(sContexts, h) /\ numServers' = numServers + 1
      /\ optCorrect' = TRUE /\ UNCHANGED <<stage, exit>>
      /\ stage = "parse" /\ exit = "running"
  BY DEF AddServer, Parsing
<1>2. PICK X, Y : sContexts \in Seq(Hold(X, Y))
  BY DEF StartupIInv
<1>3. h \in Hold(X \cup {h.server}, Y \cup {h.port}) /\ h.usageCount = 0
  BY DEF Hold
<1> HIDE DEF h
<1>4. Hold(X, Y) \subseteq Hold(X \cup {h.server}, Y \cup {h.port})
  BY DEF Hold
<1>5. sContexts \in Seq(Hold(X \cup {h.server}, Y \cup {h.port}))
  <2>1. \A S, T : S \subseteq T /\ sContexts \in Seq(S) => sContexts \in Seq(T)
    OBVIOUS
  <2> QED
    BY <1>2, <1>4, <2>1, Zenon
<1>6. sContexts' \in Seq(Hold(X \cup {h.server}, Y \cup {h.port}))
  <2> DEFINE S == Hold(X \cup {h.server}, Y \cup {h.port})
  <2>1. h \in S /\ sContexts \in Seq(S)
    BY <1>3, <1>5
  <2> HIDE DEF S
  <2>2. Append(sContexts, h) \in Seq(S)
    BY <2>1
  <2> QED
    BY <1>1, <2>2 DEF S
<1>10. \E V, W : sContexts' \in Seq(Hold(V, W))
  BY <1>6
<1>7. /\ Len(sContexts') = Len(sContexts) + 1 /\ Len(sContexts) \in Nat
      /\ sContexts'[Len(sContexts) + 1] = h
      /\ \A i \in 1 .. Len(sContexts) : sContexts'[i] = sContexts[i]
  BY <1>1, <1>2
<1>8. UsageIsBalanced'
  BY <1>1, <1>3, <1>7 DEF StartupIInv, UsageIsBalanced
<1>9. numServers' > 0
  BY <1>1, <1>7 DEF StartupIInv, UsageIsBalanced
<1> QED
  BY <1>1, <1>8, <1>9, <1>10, Zenon DEF StartupIInv

\* getContext and putContext find the context at index 0 and change its count
\* by one.
LEMMA CountChanges ==
    ASSUME StartupIInv, sContexts # <<>>, NEW n \in Int,
           sContexts' = [sContexts EXCEPT ![1].usageCount = n]
    PROVE  /\ \E X, Y : sContexts' \in Seq(Hold(X, Y))
           /\ Len(sContexts') = Len(sContexts) /\ sContexts' # <<>>
           /\ sContexts'[1].usageCount = n
           /\ \A i \in 2 .. Len(sContexts) : sContexts'[i] = sContexts[i]
<1>1. PICK X, Y : sContexts \in Seq(Hold(X, Y))
  BY DEF StartupIInv
<1>2. Len(sContexts) \in Nat /\ Len(sContexts) >= 1 /\ sContexts[1] \in Hold(X, Y)
  BY <1>1
<1> DEFINE h == [sContexts[1] EXCEPT !.usageCount = n]
<1>3. h \in Hold(X, Y) /\ h.usageCount = n
  BY <1>2 DEF Hold
<1>4. sContexts' = [sContexts EXCEPT ![1] = h]
  OBVIOUS
<1> HIDE DEF h
<1> QED
  BY <1>1, <1>2, <1>3, <1>4

LEMMA StartupNextIInv == StartupIInv /\ [Next]_vars => StartupIInv'
<1> SUFFICES ASSUME StartupIInv, [Next]_vars PROVE StartupIInv'
  OBVIOUS
<1>1. CASE AddServer
  BY <1>1, AddServerKeeps
<1>2. CASE SkipOption
  BY <1>2 DEF SkipOption, Parsing, StartupIInv, UsageIsBalanced
<1>3. CASE CrashOnNoToken
  BY <1>3 DEF CrashOnNoToken, Parsing, StartupIInv, UsageIsBalanced
<1>4. CASE EndOfOptions
  <2>1. (optCorrect /\ numServers > 0) => sContexts # <<>>
    BY DEF StartupIInv, UsageIsBalanced
  <2> QED
    BY <1>4, <2>1 DEF EndOfOptions, Parsing, StartupIInv, UsageIsBalanced
<1>5. CASE GetContext
  <2>1. stage = "get" /\ exit = "running" /\ sContexts # <<>>
    BY <1>5 DEF GetContext, StartupIInv
  <2>2. Len(sContexts) >= 1 /\ sContexts[1].usageCount = 0
    BY <2>1 DEF StartupIInv, UsageIsBalanced
  <2>3. /\ sContexts' = [sContexts EXCEPT ![1].usageCount = sContexts[1].usageCount + 1]
        /\ stage' = "calls"
        /\ UNCHANGED <<exit, optCorrect, numServers>>
    BY <1>5, <2>1, <2>2 DEF GetContext
  <2>4. /\ \E X, Y : sContexts' \in Seq(Hold(X, Y))
        /\ Len(sContexts') = Len(sContexts) /\ sContexts' # <<>>
        /\ sContexts'[1].usageCount = sContexts[1].usageCount + 1
        /\ \A i \in 2 .. Len(sContexts) : sContexts'[i] = sContexts[i]
    <3>1. sContexts[1].usageCount + 1 \in Int
      BY <2>2
    <3> QED
      BY <2>1, <2>3, <3>1, CountChanges, Zenon
  <2> QED
    BY <2>1, <2>2, <2>3, <2>4 DEF StartupIInv, UsageIsBalanced
<1>6. CASE MakeCalls
  BY <1>6 DEF MakeCalls, StartupIInv, UsageIsBalanced
<1>7. CASE PutContext
  <2>1. stage = "put" /\ exit = "running" /\ sContexts # <<>>
    BY <1>7 DEF PutContext, StartupIInv
  <2>2. Len(sContexts) >= 1 /\ sContexts[1].usageCount = 1
    BY <2>1 DEF StartupIInv, UsageIsBalanced
  <2>3. /\ sContexts' = [sContexts EXCEPT ![1].usageCount = sContexts[1].usageCount - 1]
        /\ exit' = "exited"
        /\ UNCHANGED <<stage, optCorrect, numServers>>
    BY <1>7, <2>1, <2>2 DEF PutContext
  <2>4. /\ \E X, Y : sContexts' \in Seq(Hold(X, Y))
        /\ Len(sContexts') = Len(sContexts) /\ sContexts' # <<>>
        /\ sContexts'[1].usageCount = sContexts[1].usageCount - 1
        /\ \A i \in 2 .. Len(sContexts) : sContexts'[i] = sContexts[i]
    <3>1. sContexts[1].usageCount - 1 \in Int
      BY <2>2
    <3> QED
      BY <2>1, <2>3, <3>1, CountChanges, Zenon
  <2> QED
    BY <2>1, <2>2, <2>3, <2>4 DEF StartupIInv, UsageIsBalanced
<1>8. CASE UNCHANGED vars
  BY <1>8 DEF vars, StartupIInv, UsageIsBalanced
<1> QED
  BY <1>1, <1>2, <1>3, <1>4, <1>5, <1>6, <1>7, <1>8 DEF Next

LEMMA StartupInvariance == Spec => []StartupIInv
<1>1. Init => StartupIInv
  <2> SUFFICES ASSUME Init PROVE StartupIInv
    OBVIOUS
  <2>1. sContexts \in Seq(Hold({}, {}))
    BY DEF Init
  <2>2. UsageIsBalanced /\ ~ optCorrect
    BY DEF Init, UsageIsBalanced
  <2>3. \E X, Y : sContexts \in Seq(Hold(X, Y))
    BY <2>1
  <2> QED
    BY <2>2, <2>3 DEF Init, StartupIInv
<1> QED
  BY <1>1, StartupNextIInv, PTL DEF Spec

\* Whatever the command line says, main finds its context, no usage count is
\* asserted in vain, and nothing is in use when main returns (Utils.cpp:68-73,
\* Context.hpp:285-298).
THEOREM UsageIsBalancedHolds == Spec => []UsageIsBalanced
<1>1. StartupIInv => UsageIsBalanced
  BY DEF StartupIInv
<1> QED
  BY <1>1, StartupInvariance, PTL

-----------------------------------------------------------------------------
(***************************************************************************)
(* The contexts and the arguments they come from.                          *)
(***************************************************************************)

Texts == Seq({Comma} \cup Letters \cup DOMAIN DigitOf)

\* A set of naturals has a least element if it has any.
LEMMA MinExists ==
    ASSUME NEW I \in SUBSET Nat, I # {}
    PROVE  Min(I) \in I
<1>1. \E x \in I : \A y \in I : ~ (<<y, x>> \in OpToRel(<, Nat))
  BY NatLessThanWellFounded, WFMin, Zenon
<1>2. \A x, y \in Nat : <<y, x>> \in OpToRel(<, Nat) <=> y < x
  BY DEF OpToRel
<1>3. \E x \in I : \A y \in I : x <= y
  <2>1. PICK x \in I : \A y \in I : ~ (<<y, x>> \in OpToRel(<, Nat))
    BY <1>1, Zenon
  <2>2. \A y \in I : ~ (y < x) /\ x \in Nat /\ y \in Nat
    BY <1>2, <2>1, Zenon
  <2> QED
    BY <2>2
<1> QED
  BY <1>3 DEF Min

\* strtok stops at the first comma of a text that does not begin with one.
LEMMA FirstCommaFound ==
    ASSUME NEW text \in Texts
    PROVE  FirstComma(text) \in 0 .. Len(text)
<1> DEFINE I == {i \in 1 .. Len(text) : text[i] = Comma}
<1>1. FirstComma(text) = IF I # {} THEN Min(I) ELSE 0
  BY DEF FirstComma, SelectInSeq
<1>2. Len(text) \in Nat
  BY DEF Texts
<1>3. I \in SUBSET Nat /\ I \subseteq 0 .. Len(text)
  BY <1>2
<1>4. 0 \in 0 .. Len(text)
  BY <1>2
<1> HIDE DEF I
<1> QED
  BY <1>1, <1>3, <1>4, MinExists, Zenon

LEMMA TokenIsServer ==
    ASSUME NEW text \in Texts, text # <<>>, text[1] # Comma
    PROVE  /\ HasToken(text)
           /\ Token(text) = IF FirstComma(text) = 0
                            THEN text
                            ELSE SubSeq(text, 1, FirstComma(text) - 1)
<1> DEFINE I == {i \in 1 .. Len(text) : text[i] # Comma}
<1>1. Len(text) \in Nat /\ 1 \in I
  BY DEF Texts
<1>2. Min(I) = 1
  <2>1. I \in SUBSET Nat
    OBVIOUS
  <2>2. (\E x \in I : \A y \in I : x <= y) /\ \A x \in I : (\A y \in I : x <= y) => x = 1
    BY <1>1
  <2> HIDE DEF I
  <2> QED
    BY <2>2 DEF Min
<1>3. SelectInSeq(text, LAMBDA c : c # Comma) = 1
  BY <1>1, <1>2 DEF SelectInSeq
<1>4. SubSeq(text, 1, Len(text)) = text
  BY DEF Texts
<1> QED
  BY <1>1, <1>3, <1>4, Zenon DEF HasToken, Token, FirstComma

\* An argument gives a server just when it is well-formed, and what strtok and
\* the pointer behind it find are its two parts (Utils.cpp:46-55).
LEMMA GivesItsServer ==
    ASSUME NEW text \in Texts, text # <<>>, text[1] # Comma
    PROVE  /\ GivesServer(text) <=> /\ FirstComma(text) \in 1 .. Len(text) - 1
                                    /\ Number(BehindComma(text)) > 0
           /\ GivesServer(text) =>
                 /\ Token(text) = SubSeq(text, 1, FirstComma(text) - 1)
                 /\ PortText(text) = BehindComma(text)
<1>1. /\ HasToken(text)
      /\ Token(text) = IF FirstComma(text) = 0
                       THEN text
                       ELSE SubSeq(text, 1, FirstComma(text) - 1)
  BY TokenIsServer, Zenon
<1>2. FirstComma(text) \in 0 .. Len(text) /\ Len(text) \in Nat
  BY FirstCommaFound DEF Texts
<1>3. CASE FirstComma(text) = 0
  <2>1. Token(text) = text
    BY <1>1, <1>3, Zenon
  <2>2. ~ (Len(text) + 1 < Len(text)) /\ FirstComma(text) \notin 1 .. Len(text) - 1
    BY <1>2, <1>3
  <2> QED
    BY <2>1, <2>2, Zenon DEF GivesServer
<1>4. CASE FirstComma(text) # 0
  <2>1. Token(text) = SubSeq(text, 1, FirstComma(text) - 1)
    BY <1>1, <1>4, Zenon
  <2>2. \A n \in 1 .. Len(text) : Len(SubSeq(text, 1, n - 1)) = n - 1
    BY <1>2 DEF Texts
  <2>3. Len(Token(text)) = FirstComma(text) - 1
    <3>1. FirstComma(text) \in 1 .. Len(text)
      BY <1>2, <1>4
    <3> QED
      BY <2>1, <2>2, <3>1, Zenon
  <2>4. /\ Len(Token(text)) + 2 = FirstComma(text) + 1
        /\ Len(Token(text)) + 1 < Len(text) <=> FirstComma(text) \in 1 .. Len(text) - 1
    BY <1>2, <1>4, <2>3
  <2>5. PortText(text) = BehindComma(text)
    BY <2>4, Zenon DEF PortText, BehindComma
  <2> QED
    BY <1>1, <2>1, <2>4, <2>5, Zenon DEF GivesServer
<1> QED
  BY <1>3, <1>4

-----------------------------------------------------------------------------
\* How many of the places in G come up to i.
UpTo(G, i) == Cardinality({j \in G : j <= i})

LEMMA UpToType ==
    ASSUME NEW n \in Nat, NEW G \in SUBSET (1 .. n), NEW i \in G
    PROVE  UpTo(G, i) \in 1 .. Cardinality(G)
<1> DEFINE H == {j \in G : j <= i}
<1>1. IsFiniteSet(1 .. n)
  BY FS_Interval
<1>2. IsFiniteSet(G)
  BY <1>1, FS_Subset, Zenon
<1>3. i \in H /\ H \in SUBSET G
  OBVIOUS
<1> HIDE DEF H
<1>4. IsFiniteSet(H) /\ Cardinality(H) <= Cardinality(G)
  BY <1>2, <1>3, FS_Subset, Zenon
<1>5. Cardinality(H) \in Nat /\ Cardinality(G) \in Nat /\ Cardinality(H) # 0
  BY <1>2, <1>3, <1>4, FS_CardinalityType, FS_EmptySet, Zenon
<1> QED
  BY <1>4, <1>5 DEF UpTo, H

\* The next place comes last.
LEMMA UpToNext ==
    ASSUME NEW n \in Nat, NEW G \in SUBSET (1 .. n)
    PROVE  /\ Cardinality(G \cup {n + 1}) = Cardinality(G) + 1
           /\ UpTo(G \cup {n + 1}, n + 1) = Cardinality(G) + 1
           /\ \A i \in G : UpTo(G \cup {n + 1}, i) = UpTo(G, i)
<1>1. IsFiniteSet(1 .. n)
  BY FS_Interval
<1>2. IsFiniteSet(G)
  BY <1>1, FS_Subset, Zenon
<1>3. n + 1 \notin G
  OBVIOUS
<1> DEFINE H == G \cup {n + 1}
<1>4. Cardinality(H) = Cardinality(G) + 1
  BY <1>2, <1>3, FS_AddElement, Zenon
<1>5. {j \in H : j <= n + 1} = H
  <2>1. \A j \in H : j <= n + 1
    OBVIOUS
  <2> HIDE DEF H
  <2> QED
    BY <2>1, Zenon
<1>6. \A i \in G : {j \in H : j <= i} = {j \in G : j <= i}
  OBVIOUS
<1> HIDE DEF H
<1> QED
  BY <1>4, <1>5, <1>6, Zenon DEF UpTo, H

-----------------------------------------------------------------------------
\* The well-formed ones of the first n options, and the contexts they make.
Good(n) == {i \in 1 .. n : WellFormed(options[i])}

IsServerOf(hold, option) ==
    /\ hold.server = SubSeq(option.text, 1, FirstComma(option.text) - 1)
    /\ hold.port = Number(BehindComma(option.text))

NoCommaFirst(n) ==
    \A i \in 1 .. n : options[i].text # <<>> => options[i].text[1] # Comma

Accounted(n) ==
    /\ Len(sContexts) = Cardinality(Good(n))
    /\ \A i \in Good(n) : IsServerOf(sContexts[UpTo(Good(n), i)], options[i])

\* parseArgs has been through a number of options, and the contexts come from
\* them.
AccountsInv ==
    /\ options \in Seq([given : BOOLEAN, text : Texts])
    /\ next \in Nat \ {0}
    /\ NoCommaFirst(next - 1) => Accounted(next - 1)

LEMMA AccountsImpliesServers == AccountsInv => ContextsAreServers
<1> SUFFICES ASSUME AccountsInv PROVE ContextsAreServers
  OBVIOUS
<1>1. NoCommaFirst(next - 1) => Accounted(next - 1)
  BY DEF AccountsInv
<1> QED
  BY <1>1, Zenon DEF ContextsAreServers, NoCommaFirst, Accounted, IsServerOf, UpTo, Good

\* The option parseArgs is at.
LEMMA OptionAtNext ==
    ASSUME AccountsInv, next <= Len(options)
    PROVE  /\ next \in Nat /\ next - 1 \in Nat /\ next \in 1 .. Len(options)
           /\ (next + 1) - 1 = next
           /\ options[next] \in [given : BOOLEAN, text : Texts]
           /\ options[next].text \in Texts
<1> DEFINE O == [given : BOOLEAN, text : Texts]
<1>1. options \in Seq(O) /\ next \in Nat \ {0}
  BY DEF AccountsInv
<1>2. \A o \in O : o.text \in Texts
  OBVIOUS
<1> HIDE DEF O
<1>3. next \in 1 .. Len(options) /\ options[next] \in O
  BY <1>1
<1> QED
  BY <1>1, <1>2, <1>3 DEF O

\* The options stay as they are.
LEMMA NextAccounts ==
    ASSUME AccountsInv, options' = options, next' \in Nat \ {0},
           NEW m, m = next' - 1,
           NoCommaFirst(m) =>
              /\ Len(sContexts') = Cardinality(Good(m))
              /\ \A i \in Good(m) :
                    IsServerOf(sContexts'[UpTo(Good(m), i)], options[i])
    PROVE  AccountsInv'
<1>1. (NoCommaFirst(next - 1))' <=> NoCommaFirst(m)
  BY DEF NoCommaFirst
<1>2. (Good(next - 1))' = Good(m)
  BY DEF Good
<1>3. NoCommaFirst(m) => (Accounted(next - 1))'
  BY <1>2, Zenon DEF Accounted
<1> QED
  BY <1>1, <1>3, Zenon DEF AccountsInv

\* An option more that gives no server.
LEMMA SkipOptionKeepsAccounts ==
    ASSUME StartupIInv, AccountsInv, SkipOption PROVE AccountsInv'
<1>1. /\ options' = options /\ sContexts' = sContexts /\ next' = next + 1
      /\ next \in 1 .. Len(options) /\ next \in Nat /\ next - 1 \in Nat
      /\ options[next] \in [given : BOOLEAN, text : Texts]
      /\ options[next].given => HasToken(options[next].text)
      /\ ~ (options[next].given /\ GivesServer(options[next].text))
      /\ next' - 1 = next
  <2>1. /\ options' = options /\ sContexts' = sContexts /\ next' = next + 1
        /\ next <= Len(options)
        /\ options[next].given => HasToken(options[next].text)
        /\ ~ (options[next].given /\ GivesServer(options[next].text))
    BY DEF SkipOption
  <2> QED
    BY <2>1, OptionAtNext
<1>2. ASSUME NoCommaFirst(next) PROVE Accounted(next)
  <2>1. options[next].text # <<>> => options[next].text[1] # Comma
    BY <1>1, <1>2 DEF NoCommaFirst
  <2>2. ~ WellFormed(options[next])
    <3> SUFFICES ASSUME WellFormed(options[next]) PROVE FALSE
      OBVIOUS
    <3>1. options[next].given /\ HasToken(options[next].text)
      BY <1>1 DEF WellFormed
    <3>2. options[next].text \in Texts /\ options[next].text # <<>>
      BY <1>1, <3>1 DEF HasToken, Texts
    <3> QED
      BY <1>1, <2>1, <3>1, <3>2, GivesItsServer, Zenon DEF WellFormed
  <2>3. Good(next) = Good(next - 1)
    <3>1. 1 .. next = (1 .. next - 1) \cup {next}
      BY <1>1
    <3> QED
      BY <2>2, <3>1, Zenon DEF Good
  <2>4. NoCommaFirst(next - 1)
    BY <1>1, <1>2 DEF NoCommaFirst
  <2> QED
    BY <2>3, <2>4, Zenon DEF AccountsInv, Accounted
<1>3. /\ next' \in Nat \ {0} /\ next = next' - 1
      /\ NoCommaFirst(next) =>
            /\ Len(sContexts') = Cardinality(Good(next))
            /\ \A i \in Good(next) :
                  IsServerOf(sContexts'[UpTo(Good(next), i)], options[i])
  BY <1>1, <1>2 DEF Accounted
<1> QED
  BY <1>1, <1>3, NextAccounts, Zenon

\* An option more that gives a server.
LEMMA AddServerKeepsAccounts ==
    ASSUME StartupIInv, AccountsInv, AddServer PROVE AccountsInv'
<1> DEFINE text == options[next].text
           h == [server |-> Token(text), port |-> Number(PortText(text)),
                 usageCount |-> 0]
           G == Good(next - 1)
<1>1. /\ options' = options /\ sContexts' = Append(sContexts, h)
      /\ next' = next + 1 /\ next' - 1 = next
      /\ next \in 1 .. Len(options) /\ next \in Nat /\ next - 1 \in Nat
      /\ text \in Texts /\ options[next].given /\ GivesServer(text)
  <2>1. /\ options' = options /\ sContexts' = Append(sContexts, h)
        /\ next' = next + 1 /\ options[next].given /\ GivesServer(text)
        /\ next <= Len(options)
    BY DEF AddServer
  <2> QED
    BY <2>1, OptionAtNext
<1>2. /\ Len(sContexts) \in Nat /\ Len(sContexts') = Len(sContexts) + 1
      /\ sContexts'[Len(sContexts) + 1] = h
      /\ \A i \in 1 .. Len(sContexts) : sContexts'[i] = sContexts[i]
  <2>1. PICK X, Y : sContexts \in Seq(Hold(X, Y))
    BY DEF StartupIInv
  <2> HIDE DEF h
  <2> QED
    BY <1>1, <2>1
<1>3. ASSUME NoCommaFirst(next)
      PROVE  /\ Len(sContexts') = Cardinality(Good(next))
             /\ \A i \in Good(next) :
                   IsServerOf(sContexts'[UpTo(Good(next), i)], options[i])
  <2>1. text # <<>> /\ text[1] # Comma
    <3>1. text # <<>>
      BY <1>1 DEF GivesServer, HasToken, Texts
    <3> QED
      BY <1>1, <1>3, <3>1 DEF NoCommaFirst
  <2>2. WellFormed(options[next]) /\ IsServerOf(h, options[next])
    <3>1. /\ FirstComma(text) \in 1 .. Len(text) - 1
          /\ Number(BehindComma(text)) > 0
          /\ Token(text) = SubSeq(text, 1, FirstComma(text) - 1)
          /\ PortText(text) = BehindComma(text)
      BY <1>1, <2>1, GivesItsServer, Zenon
    <3>2. h.server = Token(text) /\ h.port = Number(PortText(text))
      OBVIOUS
    <3> QED
      BY <1>1, <3>1, <3>2, Zenon DEF WellFormed, IsServerOf
  <2>3. Good(next) = G \cup {(next - 1) + 1}
    <3>1. 1 .. next = (1 .. next - 1) \cup {next} /\ (next - 1) + 1 = next
      BY <1>1
    <3> QED
      BY <2>2, <3>1, Zenon DEF Good
  <2>4. G \in SUBSET (1 .. next - 1)
    BY DEF Good
  <2>5. NoCommaFirst(next - 1)
    BY <1>1, <1>3 DEF NoCommaFirst
  <2>6. /\ Len(sContexts) = Cardinality(G)
        /\ \A i \in G : IsServerOf(sContexts[UpTo(G, i)], options[i])
    BY <2>5, Zenon DEF AccountsInv, Accounted
  <2> HIDE DEF G, h, text
  <2>7. /\ Cardinality(Good(next)) = Cardinality(G) + 1
        /\ UpTo(Good(next), (next - 1) + 1) = Cardinality(G) + 1
        /\ \A i \in G : UpTo(Good(next), i) = UpTo(G, i)
    <3>1. next - 1 \in Nat
      BY <1>1
    <3>2. PICK n \in Nat : n = next - 1
      BY <3>1, Zenon
    <3>3. G \in SUBSET (1 .. n) /\ Good(next) = G \cup {n + 1}
      BY <2>3, <2>4, <3>2, Zenon
    <3>4. /\ Cardinality(G \cup {n + 1}) = Cardinality(G) + 1
          /\ UpTo(G \cup {n + 1}, n + 1) = Cardinality(G) + 1
          /\ \A i \in G : UpTo(G \cup {n + 1}, i) = UpTo(G, i)
      BY <3>3, UpToNext, Zenon
    <3> QED
      BY <3>2, <3>3, <3>4, Zenon
  <2>8. ASSUME NEW i \in G
        PROVE  IsServerOf(sContexts'[UpTo(Good(next), i)], options[i])
    <3>1. UpTo(G, i) \in 1 .. Len(sContexts)
      BY <1>1, <2>4, <2>6, UpToType, Zenon
    <3>2. sContexts'[UpTo(G, i)] = sContexts[UpTo(G, i)]
      BY <1>2, <3>1, Zenon
    <3> QED
      BY <2>6, <2>7, <3>2, Zenon
  <2>9. (next - 1) + 1 = next
    BY <1>1
  <2>10. IsServerOf(sContexts'[UpTo(Good(next), next)], options[next])
    BY <1>2, <2>2, <2>6, <2>7, <2>9, Zenon
  <2> QED
    BY <1>2, <2>3, <2>6, <2>7, <2>8, <2>9, <2>10, Zenon
<1>4. next' \in Nat \ {0} /\ next = next' - 1
  BY <1>1
<1> QED
  BY <1>1, <1>3, <1>4, NextAccounts, Zenon

\* getContext and putContext change no server and no port.
LEMMA CountKeepsAccounts ==
    ASSUME StartupIInv, AccountsInv, UNCHANGED <<options, next>>,
           \/ UNCHANGED sContexts
           \/ /\ sContexts # <<>>
              /\ \E n : sContexts' = [sContexts EXCEPT ![1].usageCount = n]
    PROVE  AccountsInv'
<1>1. PICK X, Y : sContexts \in Seq(Hold(X, Y))
  BY DEF StartupIInv
<1>2. /\ Len(sContexts') = Len(sContexts)
      /\ \A i \in 1 .. Len(sContexts) : /\ sContexts'[i].server = sContexts[i].server
                                        /\ sContexts'[i].port = sContexts[i].port
  <2>1. CASE UNCHANGED sContexts
    BY <2>1
  <2>2. CASE /\ sContexts # <<>>
             /\ \E n : sContexts' = [sContexts EXCEPT ![1].usageCount = n]
    <3>1. PICK n : sContexts' = [sContexts EXCEPT ![1].usageCount = n]
      BY <2>2
    <3> DEFINE h == [sContexts[1] EXCEPT !.usageCount = n]
    <3>2. Len(sContexts) >= 1 /\ sContexts[1] \in Hold(X, Y) /\ Len(sContexts) \in Nat
      BY <1>1, <2>2
    <3>3. h.server = sContexts[1].server /\ h.port = sContexts[1].port
      BY <3>2 DEF Hold
    <3>4. sContexts' = [sContexts EXCEPT ![1] = h]
      BY <3>1
    <3> HIDE DEF h
    <3>5. /\ Len(sContexts') = Len(sContexts) /\ sContexts'[1] = h
          /\ \A i \in 1 .. Len(sContexts) : i # 1 => sContexts'[i] = sContexts[i]
      BY <1>1, <3>2, <3>4
    <3> QED
      BY <3>3, <3>5
  <2> QED
    BY <2>1, <2>2
<1>3. next - 1 \in Nat /\ Good(next - 1) \in SUBSET (1 .. next - 1)
  BY DEF AccountsInv, Good
<1>4. ASSUME NoCommaFirst(next - 1)
      PROVE  /\ Len(sContexts') = Cardinality(Good(next - 1))
             /\ \A i \in Good(next - 1) :
                   IsServerOf(sContexts'[UpTo(Good(next - 1), i)], options[i])
  <2>1. Accounted(next - 1)
    BY <1>4 DEF AccountsInv
  <2>2. \A i \in Good(next - 1) : UpTo(Good(next - 1), i) \in 1 .. Len(sContexts)
    BY <1>3, <2>1, UpToType, Zenon DEF Accounted
  <2> QED
    BY <1>2, <2>1, <2>2, Zenon DEF Accounted, IsServerOf
<1>5. next' \in Nat \ {0} /\ next - 1 = next' - 1
  BY DEF AccountsInv
<1> QED
  BY <1>4, <1>5, NextAccounts, Zenon

LEMMA StepKeepsAccounts ==
    ASSUME StartupIInv, AccountsInv, [Next]_vars PROVE AccountsInv'
<1>1. CASE AddServer
  BY <1>1, AddServerKeepsAccounts
<1>2. CASE SkipOption
  BY <1>2, SkipOptionKeepsAccounts
<1>3. CASE CrashOnNoToken \/ EndOfOptions \/ MakeCalls \/ UNCHANGED vars
  BY <1>3, CountKeepsAccounts DEF CrashOnNoToken, EndOfOptions, MakeCalls, vars
<1>4. CASE GetContext \/ PutContext
  BY <1>4, CountKeepsAccounts, Zenon DEF GetContext, PutContext
<1> QED
  BY <1>1, <1>2, <1>3, <1>4 DEF Next

\* Whatever the command line says, the contexts are its "server,port" arguments,
\* all of them and in order, unless an argument begins with a comma
\* (Utils.cpp:46-58).
THEOREM ContextsAreServersHolds == Spec => []ContextsAreServers
<1>1. Init => AccountsInv
  <2> SUFFICES ASSUME Init PROVE AccountsInv
    OBVIOUS
  <2>1. next = 1 /\ next - 1 = 0 /\ sContexts = <<>> /\ options \in Commands
    BY DEF Init
  <2>2. options \in Seq([given : BOOLEAN, text : Texts])
    BY <2>1, CommandsAssumption, Zenon DEF Texts
  <2>3. Good(0) = {} /\ Cardinality({}) = 0 /\ Len(sContexts) = 0
    BY <2>1, FS_EmptySet DEF Good
  <2>4. Accounted(next - 1)
    <3>1. Accounted(0)
      BY <2>3, Zenon DEF Accounted
    <3> QED
      BY <2>1, <3>1, Zenon
  <2>5. next \in Nat \ {0}
    BY <2>1
  <2> QED
    BY <2>2, <2>4, <2>5, Zenon DEF AccountsInv
<1>2. StartupIInv /\ AccountsInv /\ [Next]_vars => AccountsInv'
  BY StepKeepsAccounts
<1> QED
  BY <1>1, <1>2, StartupInvariance, AccountsImpliesServers, PTL DEF Spec

=============================================================================
