----------------------------- MODULE MCStartup -----------------------------
(***************************************************************************)
(* Startup for TLC: two digits, one of them 0, and a letter.               *)
(***************************************************************************)
EXTENDS Startup

CONSTANTS MaxText, MaxOptions

MCDigitOf == [c \in {"0", "7"} |-> IF c = "0" THEN 0 ELSE 7]
MCLetters == {"h"}
MCTexts == SeqOf({Comma} \cup MCLetters \cup DOMAIN MCDigitOf, MaxText)
MCCommands ==
    SeqOf({NoArgument} \cup {Argument(t) : t \in MCTexts}, MaxOptions)
=============================================================================
