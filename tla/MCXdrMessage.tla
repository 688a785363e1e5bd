---------------------------- MODULE MCXdrMessage ----------------------------
(***************************************************************************)
(* XdrMessage for TLC: bytes of four values, a word is eight bits.         *)
(***************************************************************************)
EXTENDS XdrMessage

MCWords == {0, 1, 27, 128, 255}
MCLongs == {0, 255, 256, 40000, 65535}
MCTexts == {<<>>, <<1>>, <<3, 2>>, <<1, 2, 3>>, <<3, 3, 3, 3>>}
\* A whole number of words long, as main's path "/default" is.
MCPaths == {<<3, 1, 2, 1>>}
MCHandles == {<<>>, <<0>>, <<1, 2>>, <<3, 0, 3>>, <<3, 2, 1, 0>>}
=============================================================================
