----------------------------- MODULE MCContext -----------------------------
(***************************************************************************)
(* Context on its own, for TLC: a caller makes any call at any time, and   *)
(* receive's loop goes on as long as there is something for it to take.    *)
(***************************************************************************)
EXTENDS Context

TwoPorts == {1, 2}

LiveSpec == Spec /\ ReceiveFairness
=============================================================================
