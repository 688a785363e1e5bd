----------------------------- MODULE MCRpcCall -----------------------------
(***************************************************************************)
(* RpcCall for TLC: the calls of any program, two procedures, one port.    *)
(* Procedures and results are only compared: any two may be exchanged.     *)
(***************************************************************************)
EXTENDS RpcCall, TLC

OnePort == {1}
MCSeeds == {3}
MCRequests == [op : Ops, seq : Nat]
CallSymmetry == Permutations(Ops) \cup Permutations(Values)
=============================================================================
