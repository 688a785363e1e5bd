---------------------------- MODULE AbstractCall ----------------------------
(***************************************************************************)
(* What a remote call promises its caller, with no bytes, no xids and no   *)
(* sockets: a request leaves at most once on a connection, a server        *)
(* answers it at most once, and a call whose receive succeeded ends with   *)
(* the result the server gave for this very request, or with none.         *)
(*                                                                         *)
(* Two calls promise nothing: one whose receive failed, since callers do   *)
(* not look at the result of receive and read whatever the buffer holds,   *)
(* and one whose answer has data in its verifier, which are read as its    *)
(* status and its result.  One that is denied for a reason nobody knows    *)
(* has no outcome: the process ends.                                       *)
(*                                                                         *)
(* A result is a sequence: of one value, or empty where the code's payload *)
(* is a null pointer.                                                      *)
(***************************************************************************)
CONSTANTS
    Requests,   \* RPC requests
    Values,     \* results of a reply
    NoRequest   \* not a request

VARIABLES
    request,    \* the request of the call under way
    stage,      \* "idle", "asked", "failed" or "ended"
    asked,      \* requests that left on the current connection
    answers,    \* the server's answers to them
    outcomes    \* the results the call may return

vars == <<request, stage, asked, answers, outcomes>>

NoResult == <<>>
AnyResult == {NoResult} \cup {<<v>> : v \in Values}

Init ==
    /\ request = NoRequest
    /\ stage = "idle"
    /\ asked = {}
    /\ answers = {}
    /\ outcomes = {}

\* The connection is the one there was, or a new one.
KeepOrRenew ==
    \/ UNCHANGED <<asked, answers>>
    \/ asked' = {} /\ answers' = {}

\* A call begins with a request that is not on the connection yet.
Ask ==
    /\ stage = "idle"
    /\ request' \in Requests
    /\ stage' = "asked"
    /\ KeepOrRenew
    /\ request' \notin asked'
    /\ UNCHANGED outcomes

\* The request leaves: once.
Transmit ==
    /\ stage = "asked"
    /\ request \notin asked
    /\ asked' = asked \cup {request}
    /\ UNCHANGED <<request, stage, answers, outcomes>>

\* The server answers what it was asked: once.
Answer(req, s, v) ==
    /\ \A a \in answers : a.req # req
    /\ answers' = answers \cup {[req |-> req, status |-> s, value |-> v]}
    /\ UNCHANGED <<request, stage, asked, outcomes>>

Succeed ==
    /\ stage = "asked"
    /\ stage' = "ended"
    /\ \/ outcomes' = {NoResult}
       \/ \E a \in answers :
             /\ a.req = request
             /\ \/ a.status = "SUCCESS" /\ outcomes' = {<<a.value>>}
                \/ a.status = "UNKNOWN" /\ outcomes' = {}
                \/ a.status = "VERIFIED" /\ outcomes' \subseteq AnyResult
    /\ UNCHANGED <<request, asked, answers>>

Fail ==
    /\ stage = "asked"
    /\ stage' = "failed"
    /\ outcomes' \subseteq AnyResult
    /\ UNCHANGED <<request, asked, answers>>

Return ==
    /\ stage \in {"ended", "failed"}
    /\ request' = NoRequest
    /\ stage' = "idle"
    /\ outcomes' = {}
    /\ UNCHANGED <<asked, answers>>

\* Between calls the connection may go.
HangUp ==
    /\ stage = "idle"
    /\ asked' = {}
    /\ answers' = {}
    /\ UNCHANGED <<request, stage, outcomes>>

Next ==
    \/ Ask
    \/ Transmit
    \/ \E req \in asked, s \in {"SUCCESS", "FAILED", "UNKNOWN", "VERIFIED"},
          v \in Values : Answer(req, s, v)
    \/ Succeed
    \/ Fail
    \/ Return
    \/ HangUp

Spec == Init /\ [][Next]_vars
=============================================================================
