------------------------------ MODULE RpcCall ------------------------------
(***************************************************************************)
(* One RPC call after the other over a Context: the steps getPort,         *)
(* makeMountCall and makeUmountCall share (PortMapperContext.cpp:8-81,     *)
(* Mount.cpp:8-148) with the parts of class RPC they use (rpc.hpp).        *)
(*                                                                         *)
(*   BeginCall    connect, draw an xid and an authentication stamp         *)
(*   SendRequest  Context::send, result ignored                            *)
(*   BeginReceive Context::receive into a new buffer, result ignored       *)
(*   Return       RPC::parseAndStripRPC on whatever the buffer holds       *)
(*                                                                         *)
(* Requests are told apart by seq, the value the counter in getMonotonic   *)
(* had when the xid was drawn; the xid on the wire is its low 32 bits.     *)
(*                                                                         *)
(* A word of the buffer that is not the xid word of a reply is taken not   *)
(* to equal the xid by chance.                                             *)
(***************************************************************************)
EXTENDS Context

CONSTANTS
    Ops,         \* the remote procedures called
    Seeds,       \* what clock_gettime may initialise the counter to
    XidModulus,  \* 2^32: an xid is a uint32_t
    MaxCalls     \* bound: calls the program makes

ASSUME CallsAssumption ==
    /\ Seeds \subseteq Nat
    /\ XidModulus \in Nat \ {0}
    /\ MaxCalls \in Nat
    /\ 2 * MaxCalls <= XidModulus

ASSUME RequestsAssumption ==
    \A op \in Ops, s \in Seeds, i \in 0 .. 2 * MaxCalls :
        [op |-> op, seq |-> s + i] \in Requests

\* What a reply is, up to its accept_stat: a success; a failure, or a denial for
\* its RPC version or its credentials; a denial for another reason; an accepted
\* call with data in its verifier, whatever its accept_stat.
ASSUME StatusesAssumption ==
    Statuses = {"SUCCESS", "FAILED", "UNKNOWN", "VERIFIED"}

VARIABLES
    seed,        \* first value of getMonotonic's counter, never changes
    sequential,  \* getMonotonic's counter
    call,        \* the request of the call under way, or of the last one
    stage        \* what the call does next: "idle", "send", "receive", "reply"

callVars == <<seed, sequential, call, stage>>
rpcVars == <<vars, callVars>>

Xid(req) == req.seq % XidModulus

RpcInit ==
    /\ Init
    /\ seed \in Seeds
    /\ sequential = seed
    /\ call = [op |-> "none", seq |-> seed - 1]
    /\ stage = "idle"

-----------------------------------------------------------------------------
\* Mutant of BeginCall: the counter starts over in every call, as it would if
\* it were not static.
BeginCallReseeded(op) ==
    /\ stage = "idle"
    /\ sequential + 2 <= seed + 2 * MaxCalls
    /\ call' = [op |-> op, seq |-> seed]
    /\ sequential' = sequential + 2
    /\ stage' = "send"
    /\ UNCHANGED seed

\* The xid, then the stamp of addAuthSys, are drawn from getMonotonic.
BeginCall(op) ==
    /\ stage = "idle"
    /\ sequential + 2 <= seed + 2 * MaxCalls
    /\ call' = [op |-> op, seq |-> sequential]
    /\ sequential' = sequential + 2
    /\ stage' = "send"
    /\ UNCHANGED seed

SendRequest ==
    /\ stage = "send"
    /\ Send(call)
    /\ stage' = "receive"
    /\ UNCHANGED <<seed, sequential, call>>

BeginReceive ==
    /\ stage = "receive"
    /\ StartReceive \/ ReceiveBadSocket
    /\ stage' = "reply"
    /\ UNCHANGED <<seed, sequential, call>>

-----------------------------------------------------------------------------
(***************************************************************************)
(* parseAndStripRPC, on the three words of the buffer: 1 the xid, 2 the    *)
(* status, 3 the result.                                                   *)
(***************************************************************************)

\* Both halves of word w are in place and come from one reply.
WordIsWhole(w) ==
    /\ wireBytes[2 * w - 1].at = 2 * w
    /\ wireBytes[2 * w].at = 2 * w + 1
    /\ wireBytes[2 * w - 1].reply = wireBytes[2 * w].reply

WordReply(w) == wireBytes[2 * w].reply

\* Mutant of XidMatches: any xid is taken.
XidUnchecked == WordIsWhole(1)

XidMatches == WordIsWhole(1) /\ Xid(WordReply(1).req) = Xid(call)

\* Mutant of StatusesRead: accept_stat is not looked at.
StatusesReadUnchecked == IF WordIsWhole(2) THEN {"SUCCESS"}
                                           ELSE {"SUCCESS", "FAILED", "UNKNOWN"}

\* The data of a verifier are not skipped and read as the accept_stat.  A status
\* that is not one word of a reply reads as anything.
StatusesRead ==
    IF ~ WordIsWhole(2) THEN {"SUCCESS", "FAILED", "UNKNOWN"}
    ELSE IF WordReply(2).status = "VERIFIED" THEN {"SUCCESS", "FAILED"}
    ELSE {WordReply(2).status}

\* Where the results of a reply are read there is one of T: behind a verifier
\* with data there is not.
ResultIsOf(T) ==
    WordIsWhole(3) /\ WordReply(3).status # "VERIFIED" /\ WordReply(3).value \in T

\* The result, read as one of T.
ValuesRead(T) == IF ResultIsOf(T) THEN {WordReply(3).value} ELSE T

\* receive has returned and parseAndStripRPC may return nullptr, return a
\* payload, or fail its assertion.
Received == stage = "reply" /\ phase = "idle"

NullPayload == Received /\ (~ XidMatches \/ "FAILED" \in StatusesRead)

HasPayload == Received /\ XidMatches /\ "SUCCESS" \in StatusesRead

\* A denial is asserted to be for one of two reasons.
ParseAsserts == Received /\ XidMatches /\ "UNKNOWN" \in StatusesRead

\* The payload's result, as a sequence of at most one; a null payload has none.
ResultsRead ==
    (IF NullPayload THEN {<<>>} ELSE {})
      \cup (IF HasPayload THEN {<<v>> : v \in ValuesRead(Values)} ELSE {})

\* The call is over.
Return ==
    /\ stage' = "idle"
    /\ UNCHANGED <<vars, seed, sequential, call>>

-----------------------------------------------------------------------------
\* Any sequence of calls, on any of the three connections.  Between calls the
\* ports may be set, and a call may fail for good once it has connected.  A call
\* that fails an assertion is the last.
RpcNext ==
    \/ \E op \in Ops :
          /\ BeginCall(op)
          /\ ConnectPortMapperPort \/ ConnectMountPort \/ ConnectNfsPort
    \/ SendRequest
    \/ BeginReceive
    \/ ReceiveLoop /\ UNCHANGED callVars
    \/ (NullPayload \/ HasPayload) /\ Return
    \/ ParseAsserts /\ UNCHANGED rpcVars
    \/ /\ stage = "idle"
       /\ \/ \E p \in Ports \cup {NoPort} : SetMountPort(p) \/ SetNfsPort(p)
          \/ ConnectNfsPort
       /\ UNCHANGED callVars
    \/ Environment /\ UNCHANGED callVars

RpcSpec == RpcInit /\ [][RpcNext]_rpcVars

-----------------------------------------------------------------------------
\* A reply whose xid is accepted after a receive that succeeded is the reply to
\* this very call (rpc.hpp:65-73), whatever its status: never that to an earlier
\* call which was left in the stream when its receive failed, nor one that
\* remained in the recycled buffer, although xids wrap at 2^32.
AnswerIsMine ==
    (Received /\ XidMatches /\ rc = 0)
        => /\ wireBytes = Body(wireBytes[1].reply)
           /\ wireBytes[1].reply.req = call

\* What the server has of this client's requests, and what is on its way back
\* or in the buffer, is about the current call or an earlier one.
KnownRequest(req) ==
    /\ req.seq \in seed .. call.seq
    /\ req.seq = call.seq => req = call

OnlyKnownRequests ==
    /\ \A i \in 1 .. Len(sent) : KnownRequest(sent[i])
    /\ \A i \in 1 .. Len(replies) : KnownRequest(replies[i].req)
    /\ \A j \in 1 .. BodyCells :
          wireBytes[j] # Junk => KnownRequest(wireBytes[j].reply.req)

\* The refinement mapping: a call has been asked until its receive is over, the
\* requests and replies of the connection are sets, and the results are those
\* parseAndStripRPC and the decoder may return.
NoRequest == [op |-> "none", seq |-> -1]
AbsRequest == IF stage = "idle" THEN NoRequest ELSE call
AbsStage == CASE stage = "idle" -> "idle"
              [] stage # "idle" /\ ~ Received -> "asked"
              [] Received /\ rc = 0 -> "ended"
              [] Received /\ rc # 0 -> "failed"
AbsAsked == {sent[i] : i \in 1 .. Len(sent)}
AbsAnswers == {replies[i] : i \in 1 .. Len(replies)}

Abstract == INSTANCE AbstractCall WITH
    request <- AbsRequest,
    stage <- AbsStage,
    asked <- AbsAsked,
    answers <- AbsAnswers,
    outcomes <- ResultsRead

\* Each call implements AbstractCall: a request leaves once, is answered once,
\* and a call whose receive succeeded returns the server's answer to it or
\* nothing, unless that answer has data in its verifier
\* (PortMapperContext.cpp:69-80, Mount.cpp:63-76, rpc.hpp:65-124).
CallIsAbstract == Abstract!Spec

\* Every variable of a call has its type, and the counter stays within the
\* bound on calls.
RpcTypeOK ==
    /\ seed \in Seeds
    /\ sequential \in seed .. seed + 2 * MaxCalls
    /\ call.seq \in seed - 1 .. sequential - 1
    /\ stage \in {"idle", "send", "receive", "reply"}
    /\ stage # "idle" => call \in Requests /\ call.seq >= seed

\* A request is sent once, and the one about to be sent is not there yet.
SentOnce ==
    /\ \A i, j \in 1 .. Len(sent) : sent[i] = sent[j] => i = j
    /\ stage = "send" => \A i \in 1 .. Len(sent) : sent[i] # call

\* A reply is the answer to a request sent on this connection.
RepliesAnswer ==
    \A m \in 1 .. Len(replies) : \E i \in answered : replies[m].req = sent[i]

\* The reply in the buffer after a receive that succeeded was written on this
\* connection.
ReplyIsHere ==
    (Received /\ rc = 0 /\ wireBytes[1].at = HeaderCells)
        => \E i \in 1 .. Len(replies) : replies[i] = wireBytes[1].reply

\* The inductive invariant.
RpcIInv ==
    /\ IInv
    /\ RpcTypeOK
    /\ OnlyKnownRequests
    /\ SentOnce
    /\ RepliesAnswer
    /\ ReplyIsHere
=============================================================================
