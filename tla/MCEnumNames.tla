---------------------------- MODULE MCEnumNames ----------------------------
(* EnumNames for TLC: the program's enumerations, and all lists of up to   *)
(* three enumerators.                                                      *)
EXTENDS EnumNames

\* The i-th enumerator of a small list, with the initialiser in init if any.
Small(i, init) ==
    LET name == <<"a", "b", "c">>[i] IN
    IF init = <<>> THEN Named(name) ELSE At(name, init[1])

SmallLists ==
    {[i \in 1 .. Len(inits) |-> Small(i, inits[i])] :
        inits \in UNION {[1 .. n -> {<<>>, <<-1>>, <<0>>, <<1>>}] : n \in 1 .. 3}}

AllLists == Enumerations \cup SmallLists

AllEnumerators ==
    UNION {{s[i] : i \in DOMAIN s} : s \in AllLists}

SomeValues == {-1, 0, 1, 2, 7, 10006}
=============================================================================
