------------------------------ MODULE Startup ------------------------------
(***************************************************************************)
(* From the command line to main's Context and back: parseArgs             *)
(* (Utils.cpp:34-74) turns each option "-s server,port" into a context of  *)
(* ServerContexts (Context.hpp:254-302), main takes the first one, makes   *)
(* its calls over it and puts it back (main.cpp:38-80).                    *)
(*                                                                         *)
(* An option's argument is a sequence of characters: a comma, a letter     *)
(* (which stands for every character that means nothing to strtok and      *)
(* atoi) or a digit.                                                       *)
(***************************************************************************)
EXTENDS Integers, SequencesExt

CONSTANTS
    Comma,      \* the delimiter
    Letters,    \* characters that are neither comma nor digit
    DigitOf,    \* the digits, a function to their values
    Commands    \* command lines, sequences of options

NoArgument == [given |-> FALSE, text |-> <<>>]
Argument(text) == [given |-> TRUE, text |-> text]

ASSUME CommandsAssumption ==
    Commands \subseteq Seq([given : BOOLEAN,
                            text : Seq({Comma} \cup Letters \cup DOMAIN DigitOf)])

VARIABLES
    options,     \* what getopt finds: the argument of a -s, NoArgument for others
    next,        \* the option parseArgs is at
    optCorrect,
    numServers,
    sContexts,   \* the vector of ServerHold: a context and its usageCount
    stage,       \* "parse", "get", "calls" or "put"
    exit         \* "running", or how the process ended

vars == <<options, next, optCorrect, numServers, sContexts, stage, exit>>

Init ==
    /\ options \in Commands
    /\ next = 1
    /\ optCorrect = FALSE
    /\ numServers = 0
    /\ sContexts = <<>>
    /\ stage = "parse"
    /\ exit = "running"

-----------------------------------------------------------------------------
(***************************************************************************)
(* What the C library makes of an argument.                                *)
(***************************************************************************)

\* strtok: what lies between the commas text begins with and the next one.
HasToken(text) == \E i \in 1 .. Len(text) : text[i] # Comma

Token(text) ==
    LET from == SelectInSeq(text, LAMBDA c : c # Comma)
        rest == SubSeq(text, from, Len(text))
        to == SelectInSeq(rest, LAMBDA c : c = Comma)
    IN  IF to = 0 THEN rest ELSE SubSeq(rest, 1, to - 1)

\* atoi: the number text begins with, or 0.
Number(text) ==
    LET end == SelectInSeq(text, LAMBDA c : c \notin DOMAIN DigitOf)
        digits == IF end = 0 THEN text ELSE SubSeq(text, 1, end - 1)
    IN  FoldLeft(LAMBDA n, c : 10 * n + DigitOf[c], 0, digits)

\* Mutant of PortText: the comma is not skipped.
PortTextAtComma(text) == SubSeq(text, Len(Token(text)) + 1, Len(text))

\* Where parseArgs looks for the port: as many characters from the start of
\* text as the token is long, and one more.  That is behind the comma only if
\* text does not begin with commas.
PortText(text) == SubSeq(text, Len(Token(text)) + 2, Len(text))

\* The argument gives a port above 0.
GivesServer(text) ==
    /\ HasToken(text)
    /\ Len(Token(text)) + 1 < Len(text)
    /\ Number(PortText(text)) > 0

-----------------------------------------------------------------------------
(***************************************************************************)
(* parseArgs, one option at a time.                                        *)
(***************************************************************************)

Parsing == exit = "running" /\ stage = "parse"

AddServer ==
    /\ Parsing
    /\ next <= Len(options)
    /\ options[next].given
    /\ LET text == options[next].text IN
          /\ GivesServer(text)
          /\ sContexts' = Append(sContexts,
                             [server |-> Token(text),
                              port |-> Number(PortText(text)),
                              usageCount |-> 0])
    /\ optCorrect' = TRUE
    /\ numServers' = numServers + 1
    /\ next' = next + 1
    /\ UNCHANGED <<options, stage, exit>>

\* Mutant of SkipOption: an argument counts before its port is known.
SkipOptionCounted ==
    /\ Parsing
    /\ next <= Len(options)
    /\ options[next].given => HasToken(options[next].text)
    /\ ~ (options[next].given /\ GivesServer(options[next].text))
    /\ next' = next + 1
    /\ optCorrect' = TRUE
    /\ numServers' = numServers + 1
    /\ UNCHANGED <<options, sContexts, stage, exit>>

\* Another option, or an argument without a port, is passed over in silence.
SkipOption ==
    /\ Parsing
    /\ next <= Len(options)
    /\ options[next].given => HasToken(options[next].text)
    /\ ~ (options[next].given /\ GivesServer(options[next].text))
    /\ next' = next + 1
    /\ UNCHANGED <<options, optCorrect, numServers, sContexts, stage, exit>>

\* strtok finds no token, and strlen is called with a null pointer.
CrashOnNoToken ==
    /\ Parsing
    /\ next <= Len(options)
    /\ options[next].given
    /\ ~ HasToken(options[next].text)
    /\ exit' = "crashed"
    /\ UNCHANGED <<options, next, optCorrect, numServers, sContexts, stage>>

\* The usage is printed unless there was a good option; main, too, gives up
\* when there is no server.
EndOfOptions ==
    /\ Parsing
    /\ next > Len(options)
    /\ IF optCorrect /\ numServers > 0
       THEN stage' = "get" /\ UNCHANGED exit
       ELSE exit' = "usage" /\ UNCHANGED stage
    /\ UNCHANGED <<options, next, optCorrect, numServers, sContexts>>

-----------------------------------------------------------------------------
(***************************************************************************)
(* ServerContexts, as main uses it: index 0 in the code is 1 here.         *)
(***************************************************************************)

\* vector::at throws for an index outside the vector, which no one catches,
\* and the usage count is asserted.
GetContext ==
    /\ exit = "running"
    /\ stage = "get"
    /\ IF sContexts # <<>> /\ sContexts[1].usageCount >= 0
       THEN /\ sContexts' = [sContexts EXCEPT ![1].usageCount = @ + 1]
            /\ stage' = "calls"
            /\ UNCHANGED exit
       ELSE exit' = "aborted" /\ UNCHANGED <<sContexts, stage>>
    /\ UNCHANGED <<options, next, optCorrect, numServers>>

\* main's calls over the context (module NfsClient) return or end the process.
MakeCalls ==
    /\ exit = "running"
    /\ stage = "calls"
    /\ \/ stage' = "put" /\ UNCHANGED exit
       \/ exit' \in {"killed", "aborted in a call", "crashed"} /\ UNCHANGED stage
    /\ UNCHANGED <<options, next, optCorrect, numServers, sContexts>>

\* main returns after it.
PutContext ==
    /\ exit = "running"
    /\ stage = "put"
    /\ IF sContexts # <<>> /\ sContexts[1].usageCount > 0
       THEN /\ sContexts' = [sContexts EXCEPT ![1].usageCount = @ - 1]
            /\ exit' = "exited"
       ELSE exit' = "aborted" /\ UNCHANGED sContexts
    /\ UNCHANGED <<options, next, optCorrect, numServers, stage>>

Next ==
    \/ AddServer
    \/ SkipOption
    \/ CrashOnNoToken
    \/ EndOfOptions
    \/ GetContext
    \/ MakeCalls
    \/ PutContext

Spec == Init /\ [][Next]_vars

-----------------------------------------------------------------------------
(***************************************************************************)
(* Properties.                                                             *)
(***************************************************************************)

\* An argument is cut at its first comma.
FirstComma(text) == SelectInSeq(text, LAMBDA c : c = Comma)
BehindComma(text) == SubSeq(text, FirstComma(text) + 1, Len(text))

\* "server,port": something stands behind the first comma, and it is a port.
WellFormed(option) ==
    /\ option.given
    /\ FirstComma(option.text) \in 1 .. Len(option.text) - 1
    /\ Number(BehindComma(option.text)) > 0

\* However good, bad and foreign options are mixed, the contexts are the
\* "server,port" arguments, all of them and in order (Utils.cpp:46-58): the
\* pointer arithmetic on what strtok cut finds the port, as long as no argument
\* begins with a comma.
ContextsAreServers ==
    (\A i \in 1 .. next - 1 :
        options[i].text # <<>> => options[i].text[1] # Comma)
    => LET good == {i \in 1 .. next - 1 : WellFormed(options[i])} IN
       /\ Len(sContexts) = Cardinality(good)
       /\ \A i \in good :
             LET hold == sContexts[Cardinality({j \in good : j <= i})]
                 text == options[i].text
             IN  /\ hold.server = SubSeq(text, 1, FirstComma(text) - 1)
                 /\ hold.port = Number(BehindComma(text))

\* Two flags and two counters kept by three functions agree: main finds the
\* context it asks for, no assertion on a usage count fails, and when main
\* returns nothing is in use (Utils.cpp:57, 68-73, main.cpp:42-46, 76,
\* Context.hpp:285-298).
UsageIsBalanced ==
    /\ exit # "aborted"
    /\ numServers = Len(sContexts)
    /\ \A i \in 1 .. Len(sContexts) :
          sContexts[i].usageCount =
             IF i = 1 /\ stage \in {"calls", "put"} /\ exit # "exited" THEN 1 ELSE 0
=============================================================================
