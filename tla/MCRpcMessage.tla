---------------------------- MODULE MCRpcMessage ----------------------------
(***************************************************************************)
(* RpcMessage for TLC.  Base is 32: a word then holds every number of a    *)
(* program, 100005 at most.                                                *)
(***************************************************************************)
EXTENDS RpcMessage

\* Byte strings of every length by four.
MCMachines == {<<1>>, <<1, 2>>, <<1, 2, 3>>, <<1, 2, 3, 4>>, <<31, 1, 2, 3, 4>>}
MCPaths == {<<7>>, <<7, 8, 9>>, <<7, 8, 9, 10>>, <<7, 8, 9, 10, 11, 31>>}
MCGranted == {<<0>>, <<5, 0, 6>>, <<5, 0, 6, 31>>, <<0, 0, 0, 0, 0, 0, 0, 9>>}
MCAuthLists == {<<>>, <<1>>, <<0, 1, 6>>}

\* None, and one that starts as no success does.
MCVerifiers == {<<>>, <<9, 9>>}
=============================================================================
