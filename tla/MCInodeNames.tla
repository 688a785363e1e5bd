--------------------------- MODULE MCInodeNames ---------------------------
(***************************************************************************)
(* InodeNames for TLC: every name of at most MaxName characters, of three. *)
(***************************************************************************)
EXTENDS InodeNames

CONSTANT MaxName

MCCharacters == {Slash, Dot, "a"}
MCNames == UNION {[1 .. n -> MCCharacters] : n \in 0 .. MaxName}
MCExport == <<Slash, "a">>
=============================================================================
