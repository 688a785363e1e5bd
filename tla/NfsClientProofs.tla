-------------------------- MODULE NfsClientProofs --------------------------
(***************************************************************************)
(* Proofs about RpcCall: it uses Context as Context allows, and a reply it *)
(* accepts answers the call it made, for every number of calls that does   *)
(* not exhaust the xids.                                                   *)
(*                                                                         *)
(* Proofs about NfsClient: the program makes its calls as RpcCall does,    *)
(* each to the service it is for, and what it learns from a reply is what  *)
(* that service answered.  For every script, every server and any faults.  *)
(***************************************************************************)
EXTENDS NfsClient, ContextProofs

USE DEF NoPort, BadSocket, HeaderCells, BodyCells, FrameCells
USE DEF socketVars, streamVars, receiveVars, portVars, vars, callVars, rpcVars

-----------------------------------------------------------------------------
(***************************************************************************)
(* Xids.                                                                   *)
(***************************************************************************)

\* Division with remainder.
LEMMA DivMod ==
    ASSUME NEW a \in Nat, NEW m \in Nat \ {0}
    PROVE  /\ a \div m \in Int
           /\ a % m \in 0 .. m - 1
           /\ a = m * (a \div m) + (a % m)
<1>1. a \div m \in Int
  OBVIOUS
<1>2. a % m \in 0 .. m - 1
  OBVIOUS
<1>3. a = m * (a \div m) + (a % m)
  OBVIOUS
<1> QED
  BY <1>1, <1>2, <1>3

\* Multiples of m are m apart.
LEMMA NoSmallMultiple ==
    ASSUME NEW m \in Nat \ {0}, NEW k \in Int, NEW l \in Int
    PROVE  m * k - m * l >= m \/ m * k - m * l <= 0
<1>1. m * k - m * l = m * (k - l)
  OBVIOUS
<1>2. ASSUME NEW d \in Int
      PROVE  (d >= 1 => m * d >= m) /\ (d <= 0 => m * d <= 0)
  <2>1. CASE d >= 1
    BY <2>1
  <2>2. CASE d <= 0
    BY <2>2
  <2> QED
    BY <2>1, <2>2
<1>3. k - l \in Int /\ (k - l >= 1 \/ k - l <= 0)
  OBVIOUS
<1>4. m * (k - l) >= m \/ m * (k - l) <= 0
  BY <1>2, <1>3
<1> QED
  BY <1>1, <1>4

\* Two values of the counter less than 2^32 apart have different xids
\* (PortMapperContext.cpp:20, Utils.cpp:88-92).
LEMMA XidsDiffer ==
    ASSUME NEW a \in Nat, NEW b \in Nat, a < b, b - a < XidModulus
    PROVE  a % XidModulus # b % XidModulus
<1> DEFINE M == XidModulus
           qa == a \div M
           qb == b \div M
<1>1. M \in Nat \ {0}
  BY CallsAssumption
<1>2. /\ qa \in Int /\ a % M \in Int /\ a = M * qa + (a % M)
      /\ qb \in Int /\ b % M \in Int /\ b = M * qb + (b % M)
  BY <1>1, DivMod
<1>3. SUFFICES ASSUME a % M = b % M PROVE FALSE
  OBVIOUS
<1>4. b - a = M * qb - M * qa
  BY <1>1, <1>2, <1>3
<1>5. M * qb - M * qa >= M \/ M * qb - M * qa <= 0
  BY <1>1, <1>2, NoSmallMultiple
<1> QED
  BY <1>1, <1>4, <1>5

-----------------------------------------------------------------------------
(***************************************************************************)
(* A call's steps are steps of Context.                                    *)
(***************************************************************************)

\* The three ways a call connects are calls of Context.
LEMMA ConnectsAreOperations ==
    ASSUME ConnectPortMapperPort \/ ConnectMountPort \/ ConnectNfsPort
    PROVE  Operation
BY DEF Operation

\* What RpcCall does to the variables of Context, Context allows.
LEMMA RpcStepIsContextStep == RpcTypeOK /\ [RpcNext]_rpcVars => [Next]_vars
<1> SUFFICES ASSUME RpcTypeOK, [RpcNext]_rpcVars PROVE [Next]_vars
  OBVIOUS
<1>1. ASSUME NEW op \in Ops, BeginCall(op),
             ConnectPortMapperPort \/ ConnectMountPort \/ ConnectNfsPort
      PROVE  Next
  BY <1>1, ConnectsAreOperations DEF Next
<1>2. CASE SendRequest
  <2>1. Send(call) /\ call \in Requests
    BY <1>2 DEF SendRequest, RpcTypeOK
  <2> QED
    BY <2>1 DEF Next, Operation
<1>3. CASE BeginReceive
  BY <1>3 DEF BeginReceive, Next, Operation
<1>4. CASE ReceiveLoop \/ Environment
  BY <1>4 DEF Next
<1>5. CASE Return
  BY <1>5 DEF Return
<1>6. ASSUME NEW p \in Ports \cup {NoPort}, SetMountPort(p) \/ SetNfsPort(p)
      PROVE  Next
  BY <1>6 DEF Next, Operation
<1>7. CASE ConnectNfsPort
  BY <1>7, ConnectsAreOperations DEF Next
<1>8. CASE UNCHANGED rpcVars  \* and a call that fails an assertion
  BY <1>8
<1> QED
  BY <1>1, <1>2, <1>3, <1>4, <1>5, <1>6, <1>7, <1>8 DEF RpcNext

-----------------------------------------------------------------------------
(***************************************************************************)
(* The inductive invariant.                                                *)
(***************************************************************************)

\* The counter, the call and the stage keep their types: a call's request is
\* one of Requests and not newer than the counter.
LEMMA RpcTypeInv ==
    ASSUME IInv, RpcTypeOK, [RpcNext]_rpcVars
    PROVE  RpcTypeOK'
<1>1. /\ seed \in Nat /\ MaxCalls \in Nat /\ sequential \in Int
      /\ call.seq \in Int
  BY CallsAssumption DEF RpcTypeOK
<1>2. ASSUME NEW op \in Ops, BeginCall(op) PROVE RpcTypeOK'
  <2>1. /\ sequential - seed \in 0 .. 2 * MaxCalls
        /\ seed + (sequential - seed) = sequential
    BY <1>1 DEF RpcTypeOK
  <2>2. [op |-> op, seq |-> sequential] \in Requests
    BY <2>1, RequestsAssumption DEF RpcTypeOK
  <2> QED
    BY <1>1, <1>2, <2>2 DEF BeginCall, RpcTypeOK
<1>3. CASE SendRequest \/ BeginReceive \/ Return
  BY <1>3 DEF SendRequest, BeginReceive, Return, RpcTypeOK
<1>4. CASE UNCHANGED callVars
  BY <1>4 DEF RpcTypeOK
<1> QED
  BY <1>2, <1>3, <1>4 DEF RpcNext

\* The new requests, replies and cells of a step are about known requests.
LEMMA OnlyKnownInv ==
    ASSUME RpcIInv, [RpcNext]_rpcVars
    PROVE  OnlyKnownRequests'
<1>1. /\ seed \in Nat /\ sequential \in Int
      /\ call.seq \in Int /\ call.seq < sequential
  BY CallsAssumption DEF RpcIInv, RpcTypeOK
<1>2. /\ sent \in Seq(Requests) /\ Len(sent) \in Nat
      /\ replies \in Seq(Reply) /\ Len(replies) \in Nat
      /\ wireBytes \in [1 .. BodyCells -> Cell \cup {Junk}]
  BY DEF RpcIInv, IInv, TypeOK
<1>3. CASE UNCHANGED <<vars, seed, call>>
  BY <1>3 DEF RpcIInv, OnlyKnownRequests, KnownRequest
<1>4. ASSUME NEW op \in Ops, BeginCall(op),
             ConnectPortMapperPort \/ ConnectMountPort \/ ConnectNfsPort
      PROVE  OnlyKnownRequests'
  <2>1. \A req : KnownRequest(req) => KnownRequest(req)'
    BY <1>1, <1>4 DEF KnownRequest, BeginCall
  <2>2. wireBytes' = wireBytes
    BY <1>4 DEF ConnectPortMapperPort, ConnectMountPort, ConnectNfsPort, Connect
  <2>3. \/ sent' = <<>> /\ replies' = <<>>
        \/ sent' = sent /\ replies' = replies
    BY <1>4 DEF ConnectPortMapperPort, ConnectMountPort, ConnectNfsPort,
          Connect, OpenSocket, FreshStream
  <2> QED
    BY <2>1, <2>2, <2>3 DEF RpcIInv, OnlyKnownRequests
<1>5. CASE SendRequest
  <2>1. /\ KnownRequest(call) /\ UNCHANGED <<seed, call>>
        /\ replies' = replies /\ wireBytes' = wireBytes
        /\ sent' = sent \/ sent' = Append(sent, call)
    BY <1>1, <1>5 DEF SendRequest, Send, SendAccepted, SendFailed,
          KnownRequest, RpcIInv, RpcTypeOK
  <2>2. \A i \in 1 .. Len(sent') :
            \/ i \in 1 .. Len(sent) /\ sent'[i] = sent[i]
            \/ sent'[i] = call
    <3>1. sent \in Seq(Requests) /\ Len(sent) \in Nat
      BY <1>2
    <3>2. CASE sent' = sent
      BY <3>1, <3>2, Zenon
    <3>3. CASE sent' = Append(sent, call)
      BY <3>1, <3>3
    <3> QED
      BY <2>1, <3>2, <3>3, Zenon
  <2> QED
    BY <2>1, <2>2 DEF RpcIInv, OnlyKnownRequests, KnownRequest
<1>6. CASE BeginReceive
  <2>1. /\ UNCHANGED <<seed, call, sent, replies>>
        /\ \A j \in 1 .. BodyCells : wireBytes'[j] \in {wireBytes[j], Junk}
    BY <1>6 DEF BeginReceive, StartReceive, ReceiveBadSocket, NewBuffer
  <2> QED
    BY <2>1 DEF RpcIInv, OnlyKnownRequests, KnownRequest
<1>7. CASE Recv /\ UNCHANGED callVars
  <2> DEFINE n == IF pending <= Available THEN pending ELSE Available
  <2>1. UNCHANGED <<seed, call, sent, replies>>
    BY <1>7 DEF Recv
  <2>2. /\ phase # "idle" /\ n > 0
        /\ RecvPartOfHeader(n) \/ RecvEndOfHeader(n) \/ RecvBody(n)
    BY <1>7 DEF Recv
  <2>3. /\ n \in 1 .. pending /\ n <= Available
        /\ pending \in Nat /\ size \in Nat /\ totalReceived \in Nat
        /\ size - pending <= totalReceived
        /\ totalReceived + n <= FrameCells * Len(replies)
    BY <1>2, <2>2 DEF RpcIInv, IInv, TypeOK, ReceiveInv, StreamCounted, Available
  <2> HIDE DEF n
  <2>4. ASSUME NEW j \in 1 .. BodyCells, wireBytes'[j] # Junk
        PROVE  KnownRequest(wireBytes'[j].reply.req)
    <3>1. wireBytes'[j] = Filled(n)[j]
      BY <2>2, <2>4 DEF RecvPartOfHeader, RecvEndOfHeader, RecvBody, Filled
    <3>2. CASE size - pending < j /\ j <= size - pending + n
      <4> DEFINE k == totalReceived + j - (size - pending)
                 i == (k - 1) \div FrameCells + 1
      <4>1. k \in 1 .. FrameCells * Len(replies)
        BY <1>2, <2>3, <3>2
      <4>2. i \in 1 .. Len(replies)
        BY <1>2, <4>1, FrameOfCell
      <4>3. wireBytes'[j] = CellAt(k)
        BY <3>1, <3>2 DEF Filled
      <4>4. wireBytes'[j].reply = replies[i]
        BY <4>3 DEF CellAt
      <4> QED
        BY <4>2, <4>4 DEF RpcIInv, OnlyKnownRequests
    <3>3. CASE ~(size - pending < j /\ j <= size - pending + n)
      <4>1. wireBytes'[j] = wireBytes[j]
        BY <3>1, <3>3 DEF Filled
      <4> QED
        BY <2>4, <4>1 DEF RpcIInv, OnlyKnownRequests
    <3> QED
      BY <3>2, <3>3
  <2> QED
    BY <2>1, <2>4 DEF RpcIInv, OnlyKnownRequests, KnownRequest
<1>8. CASE (RecvError \/ RecvNothing) /\ UNCHANGED callVars
  BY <1>8 DEF RecvError, RecvNothing, RpcIInv, OnlyKnownRequests, KnownRequest
<1>9. CASE Environment /\ UNCHANGED callVars
  <2>1. ASSUME NEW i \in 1 .. Len(sent), NEW s \in Statuses, NEW v \in Values,
               ServerReply(i, s, v)
        PROVE  OnlyKnownRequests'
    <3> DEFINE r == [req |-> sent[i], status |-> s, value |-> v]
    <3>1. /\ UNCHANGED <<seed, call, sent, wireBytes>>
          /\ replies' = Append(replies, r)
          /\ KnownRequest(r.req)
      BY <1>9, <2>1 DEF ServerReply, RpcIInv, OnlyKnownRequests
    <3>2. \A m \in 1 .. Len(replies') :
             \/ m \in 1 .. Len(replies) /\ replies'[m] = replies[m]
             \/ replies'[m] = r
      BY <1>2, <3>1
    <3> QED
      BY <3>1, <3>2 DEF RpcIInv, OnlyKnownRequests, KnownRequest
  <2>2. CASE Deliver \/ ServerClose \/ ConnReset
    BY <1>9, <2>2 DEF Deliver, ServerClose, ConnReset, RpcIInv,
          OnlyKnownRequests, KnownRequest
  <2> QED
    BY <1>9, <2>1, <2>2 DEF Environment
<1>10. ASSUME NEW p \in Ports \cup {NoPort}, SetMountPort(p) \/ SetNfsPort(p),
              UNCHANGED callVars
       PROVE  OnlyKnownRequests'
  BY <1>10 DEF SetMountPort, SetNfsPort, RpcIInv, OnlyKnownRequests, KnownRequest
<1>11. CASE ConnectNfsPort /\ UNCHANGED callVars
  <2>1. /\ UNCHANGED <<seed, call, wireBytes>>
        /\ \/ sent' = <<>> /\ replies' = <<>>
           \/ sent' = sent /\ replies' = replies
    BY <1>11 DEF ConnectNfsPort, Connect, OpenSocket, FreshStream
  <2> QED
    BY <2>1 DEF RpcIInv, OnlyKnownRequests, KnownRequest
<1> QED
  BY <1>3, <1>4, <1>5, <1>6, <1>7, <1>8, <1>9, <1>10, <1>11 DEF RpcNext, Return,
     ReceiveLoop

\* What a connect does to the stream, and that it leaves the rest alone.
LEMMA ConnectStream ==
    ASSUME ConnectPortMapperPort \/ ConnectMountPort \/ ConnectNfsPort
    PROVE  /\ \/ UNCHANGED <<sent, answered, replies>>
              \/ sent' = <<>> /\ answered' = {} /\ replies' = <<>>
           /\ UNCHANGED receiveVars
BY DEF ConnectPortMapperPort, ConnectMountPort, ConnectNfsPort, Connect,
       OpenSocket, FreshStream

\* What the steps of a program leave alone: a call connects when it begins,
\* sends in stage "send" only, and the server alone adds replies.
LEMMA RpcSteps ==
    ASSUME [RpcNext]_rpcVars
    PROVE  \/ /\ stage = "idle" /\ stage' = "send"
              /\ \E op \in Ops : BeginCall(op)
              /\ \/ UNCHANGED <<sent, answered, replies>>
                 \/ sent' = <<>> /\ answered' = {} /\ replies' = <<>>
              /\ UNCHANGED receiveVars
           \/ /\ stage = "idle" /\ UNCHANGED <<call, stage>>
              /\ \/ UNCHANGED <<sent, answered, replies>>
                 \/ sent' = <<>> /\ answered' = {} /\ replies' = <<>>
              /\ UNCHANGED receiveVars
           \/ /\ stage = "send" /\ stage' = "receive" /\ phase = "idle"
              /\ sent' = sent \/ sent' = Append(sent, call)
              /\ UNCHANGED <<call, answered, replies, receiveVars>>
           \/ /\ stage = "receive" /\ stage' = "reply"
              /\ phase = "idle" /\ (phase' # "idle" \/ rc' = -1)
              /\ UNCHANGED <<call, sent, answered, replies>>
           \/ /\ Recv \/ RecvError
              /\ UNCHANGED <<call, stage, sent, answered, replies>>
           \/ /\ NullPayload \/ HasPayload
              /\ stage = "reply" /\ stage' = "idle"
              /\ UNCHANGED <<call, sent, answered, replies, receiveVars>>
           \/ /\ \E i \in 1 .. Len(sent), s \in Statuses, v \in Values :
                    ServerReply(i, s, v)
              /\ UNCHANGED <<call, stage, sent, receiveVars>>
           \/ UNCHANGED <<call, stage, sent, answered, replies, receiveVars>>
<1>1. ASSUME NEW op \in Ops, BeginCall(op),
             ConnectPortMapperPort \/ ConnectMountPort \/ ConnectNfsPort
      PROVE  /\ stage = "idle" /\ stage' = "send"
             /\ \E o \in Ops : BeginCall(o)
             /\ \/ UNCHANGED <<sent, answered, replies>>
                \/ sent' = <<>> /\ answered' = {} /\ replies' = <<>>
             /\ UNCHANGED receiveVars
  <2>1. stage = "idle" /\ stage' = "send"
    BY <1>1 DEF BeginCall
  <2> QED
    BY <1>1, <2>1, ConnectStream
<1>2. CASE SendRequest
  BY <1>2 DEF SendRequest, Send, SendAccepted, SendFailed
<1>3. CASE BeginReceive
  BY <1>3 DEF BeginReceive, StartReceive, ReceiveBadSocket
<1>4. CASE ReceiveLoop /\ UNCHANGED callVars
  BY <1>4 DEF ReceiveLoop, Recv, RecvError, RecvNothing
<1>5. CASE (NullPayload \/ HasPayload) /\ Return
  BY <1>5 DEF Return, NullPayload, HasPayload, Received
<1>6. CASE /\ stage = "idle"
           /\ \/ \E p \in Ports \cup {NoPort} : SetMountPort(p) \/ SetNfsPort(p)
              \/ ConnectNfsPort
           /\ UNCHANGED callVars
  BY <1>6, ConnectStream DEF SetMountPort, SetNfsPort
<1>7. CASE Environment /\ UNCHANGED callVars
  BY <1>7 DEF Environment, ServerReply, Deliver, ServerClose, ConnReset
<1>8. CASE UNCHANGED rpcVars
  BY <1>8
<1> QED
  BY <1>1, <1>2, <1>3, <1>4, <1>5, <1>6, <1>7, <1>8 DEF RpcNext

\* A request is sent once: its number is new when the call begins.
LEMMA SentOnceInv ==
    ASSUME RpcIInv, [RpcNext]_rpcVars
    PROVE  SentOnce'
<1>1. sent \in Seq(Requests) /\ Len(sent) \in Nat
  BY DEF RpcIInv, IInv, TypeOK
<1>2. CASE \E op \in Ops : BeginCall(op)
  <2>1. PICK op \in Ops : BeginCall(op)
    BY <1>2
  <2>2. sent' = sent \/ sent' = <<>>
    BY <2>1, RpcSteps DEF BeginCall
  <2>3. ASSUME NEW i \in 1 .. Len(sent) PROVE sent[i] # call'
    <3>1. sent[i].seq \in seed .. call.seq /\ call.seq \in seed - 1 .. sequential - 1
      BY DEF RpcIInv, OnlyKnownRequests, KnownRequest, RpcTypeOK
    <3>2. call'.seq = sequential
      BY <2>1 DEF BeginCall
    <3>3. seed \in Int /\ sequential \in Int
      BY CallsAssumption DEF RpcIInv, RpcTypeOK
    <3> QED
      BY <3>1, <3>2, <3>3
  <2> QED
    BY <2>2, <2>3 DEF RpcIInv, SentOnce
<1>3. CASE /\ stage = "send" /\ stage' = "receive"
           /\ sent' = sent \/ sent' = Append(sent, call)
  <2>1. ASSUME NEW i \in 1 .. Len(sent')
        PROVE  \/ i \in 1 .. Len(sent) /\ sent'[i] = sent[i]
               \/ i = Len(sent) + 1 /\ sent'[i] = call
    BY <1>1, <1>3
  <2>2. \A i \in 1 .. Len(sent) : sent[i] # call
    BY <1>3 DEF RpcIInv, SentOnce
  <2> QED
    BY <1>3, <2>1, <2>2 DEF RpcIInv, SentOnce
<1>4. CASE sent' = <<>> /\ stage' # "send"
  BY <1>4 DEF SentOnce
<1>5. CASE sent' = sent /\ stage' # "send"
  BY <1>5 DEF RpcIInv, SentOnce
<1>6. CASE UNCHANGED <<call, stage, sent>>
  BY <1>6 DEF RpcIInv, SentOnce
<1> QED
  BY <1>2, <1>3, <1>4, <1>5, <1>6, RpcSteps

\* A new reply answers a request that was not answered yet.
LEMMA RepliesAnswerInv ==
    ASSUME RpcIInv, [RpcNext]_rpcVars
    PROVE  RepliesAnswer'
<1>1. /\ sent \in Seq(Requests) /\ Len(sent) \in Nat
      /\ replies \in Seq(Reply) /\ Len(replies) \in Nat
      /\ answered \subseteq 1 .. Len(sent)
  BY DEF RpcIInv, IInv, TypeOK
<1>2. CASE replies' = <<>>
  BY <1>2 DEF RepliesAnswer
<1>3. CASE UNCHANGED <<sent, answered, replies>>
  BY <1>3 DEF RpcIInv, RepliesAnswer
<1>4. CASE (sent' = Append(sent, call)) /\ UNCHANGED <<answered, replies>>
  <2>1. \A i \in answered : sent'[i] = sent[i]
    BY <1>1, <1>4
  <2>2. RepliesAnswer
    BY DEF RpcIInv
  <2>3. replies' = replies /\ answered' = answered
    BY <1>4
  <2> SUFFICES ASSUME NEW m \in 1 .. Len(replies)
               PROVE  \E i \in answered : replies[m].req = sent'[i]
    BY <2>3, Zenon DEF RepliesAnswer
  <2> QED
    BY <2>1, <2>2, Zenon DEF RepliesAnswer
<1>5. CASE \E i \in 1 .. Len(sent), s \in Statuses, v \in Values :
              ServerReply(i, s, v)
  <2>1. PICK i \in 1 .. Len(sent), s \in Statuses, v \in Values :
              ServerReply(i, s, v)
    BY <1>5
  <2>2. /\ sent' = sent /\ answered' = answered \cup {i}
        /\ replies' = Append(replies, [req |-> sent[i], status |-> s, value |-> v])
    BY <2>1 DEF ServerReply
  <2>3. ASSUME NEW m \in 1 .. Len(replies')
        PROVE  \/ m \in 1 .. Len(replies) /\ replies'[m] = replies[m]
               \/ replies'[m].req = sent[i]
    BY <1>1, <2>2
  <2> QED
    BY <2>2, <2>3 DEF RpcIInv, RepliesAnswer
<1> QED
  BY <1>2, <1>3, <1>4, <1>5, RpcSteps

\* The receive that completes a message leaves in the buffer a reply of this
\* connection.
LEMMA RecvReply ==
    ASSUME IInv, Recv, phase' = "idle", rc' = 0, wireBytes'[1].at = HeaderCells
    PROVE  \E i \in 1 .. Len(replies) : replies[i] = wireBytes'[1].reply
<1> DEFINE n == IF pending <= Available THEN pending ELSE Available
<1>1. /\ phase # "idle" /\ n > 0
      /\ RecvPartOfHeader(n) \/ RecvEndOfHeader(n) \/ RecvBody(n)
  BY DEF Recv
<1>2. /\ n \in 1 .. pending /\ Len(replies) \in Nat
      /\ pending \in Nat /\ size \in Nat /\ totalReceived \in Nat
      /\ size - pending \in 0 .. totalReceived
      /\ totalReceived + n <= FrameCells * Len(replies)
  BY <1>1 DEF IInv, TypeOK, ReceiveInv, StreamCounted, Available
<1>3. wireBytes \in [1 .. BodyCells -> Cell \cup {Junk}]
  BY DEF IInv, TypeOK
<1> HIDE DEF n
<1>4. RecvBody(n) /\ phase = "body"
  <2>1. ~ RecvPartOfHeader(n)
    BY <1>1 DEF RecvPartOfHeader
  <2>2. ~ RecvEndOfHeader(n)
    <3> SUFFICES ASSUME RecvEndOfHeader(n) PROVE FALSE
      OBVIOUS
    <3>1. wireBytes' = [Filled(n) EXCEPT ![1] = Junk, ![2] = Junk]
      BY DEF RecvEndOfHeader
    <3>2. wireBytes'[1] = Junk
      BY <3>1 DEF Filled
    <3> QED
      BY <3>2 DEF Junk
  <2> QED
    BY <1>1, <2>1, <2>2 DEF RecvBody
<1>5. wireBytes' = Filled(n)
  BY <1>4 DEF RecvBody
<1>6. \E k \in 1 .. FrameCells * Len(replies) : wireBytes'[1] = CellAt(k)
  <2>1. CASE size - pending = 0
    <3>1. wireBytes'[1] = CellAt(totalReceived + 1)
      BY <1>2, <1>5, <2>1 DEF Filled
    <3>2. totalReceived + 1 \in 1 .. FrameCells * Len(replies)
      BY <1>2
    <3> QED
      BY <3>1, <3>2
  <2>2. CASE size - pending >= 1
    <3>1. wireBytes'[1] = wireBytes[1]
      BY <1>2, <1>5, <2>2 DEF Filled
    <3>2. wireBytes[1] = CellAt(MessageStart + 1)
      BY <1>4, <2>2 DEF IInv, ReceiveInv
    <3>3. MessageStart + 1 \in 1 .. FrameCells * Len(replies)
      BY <1>2, <2>2 DEF MessageStart
    <3> QED
      BY <3>1, <3>2, <3>3
  <2> QED
    BY <1>2, <2>1, <2>2
<1>7. PICK k \in 1 .. FrameCells * Len(replies) : wireBytes'[1] = CellAt(k)
  BY <1>6
<1>8. (k - 1) \div FrameCells + 1 \in 1 .. Len(replies)
  BY <1>2, FrameOfCell
<1> QED
  BY <1>7, <1>8 DEF CellAt

\* The buffer's reply stays one of this connection's until it is read.
LEMMA ReplyIsHereInv ==
    ASSUME RpcIInv, [RpcNext]_rpcVars
    PROVE  ReplyIsHere'
<1> SUFFICES ASSUME stage' = "reply", phase' = "idle", rc' = 0,
                    wireBytes'[1].at = HeaderCells
             PROVE  \E i \in 1 .. Len(replies') : replies'[i] = wireBytes'[1].reply
  BY DEF ReplyIsHere, Received
<1>1. replies \in Seq(Reply)
  BY DEF RpcIInv, IInv, TypeOK
<1>2. CASE (Recv \/ RecvError) /\ UNCHANGED replies
  <2>1. Recv
    BY <1>2 DEF RecvError
  <2> QED
    BY <1>2, <2>1, RecvReply DEF RpcIInv
<1>3. CASE UNCHANGED <<receiveVars, stage, replies>>
  BY <1>3 DEF RpcIInv, ReplyIsHere, Received
<1>4. CASE /\ \E i \in 1 .. Len(sent), s \in Statuses, v \in Values :
                 ServerReply(i, s, v)
           /\ UNCHANGED <<stage, receiveVars>>
  <2>1. PICK r : replies' = Append(replies, r)
    BY <1>4 DEF ServerReply
  <2>2. PICK i \in 1 .. Len(replies) : replies[i] = wireBytes'[1].reply
    BY <1>4 DEF RpcIInv, ReplyIsHere, Received
  <2>3. i \in 1 .. Len(replies') /\ replies'[i] = replies[i]
    BY <1>1, <2>1
  <2> QED
    BY <2>2, <2>3
<1> QED
  BY <1>2, <1>3, <1>4, RpcSteps

\* The invariant holds when the program starts.
LEMMA RpcInitIInv == RpcInit => RpcIInv
<1> SUFFICES ASSUME RpcInit PROVE RpcIInv
  OBVIOUS
<1>1. IInv
  BY InitIInv DEF RpcInit
<1>2. seed \in Nat /\ MaxCalls \in Nat
  BY CallsAssumption DEF RpcInit
<1>3. RpcTypeOK
  BY <1>2 DEF RpcInit, RpcTypeOK
<1>4. OnlyKnownRequests
  BY DEF RpcInit, Init, OnlyKnownRequests
<1>5. SentOnce /\ RepliesAnswer /\ ReplyIsHere
  BY DEF RpcInit, Init, SentOnce, RepliesAnswer, ReplyIsHere, Received
<1> QED
  BY <1>1, <1>3, <1>4, <1>5 DEF RpcIInv

\* Every step keeps the invariant.
LEMMA RpcNextIInv == RpcIInv /\ [RpcNext]_rpcVars => RpcIInv'
<1> SUFFICES ASSUME RpcIInv, [RpcNext]_rpcVars PROVE RpcIInv'
  OBVIOUS
<1>1. IInv'
  BY RpcStepIsContextStep, NextIInv DEF RpcIInv
<1>2. RpcTypeOK'
  BY RpcTypeInv DEF RpcIInv
<1>3. OnlyKnownRequests'
  BY OnlyKnownInv
<1>4. SentOnce' /\ RepliesAnswer' /\ ReplyIsHere'
  BY SentOnceInv, RepliesAnswerInv, ReplyIsHereInv
<1> QED
  BY <1>1, <1>2, <1>3, <1>4 DEF RpcIInv

\* The invariant holds throughout any run of calls.
THEOREM RpcInvariance == RpcSpec => []RpcIInv
BY RpcInitIInv, RpcNextIInv, PTL DEF RpcSpec

-----------------------------------------------------------------------------
(***************************************************************************)
(* The theorems.                                                           *)
(***************************************************************************)

\* A program that makes its calls as RpcCall does uses Context as Context
\* specifies: every theorem about Context holds of it
\* (PortMapperContext.cpp:8-81, Mount.cpp:8-148).
THEOREM RpcImplementsContext == RpcSpec => Spec
<1>1. RpcInit => Init
  BY DEF RpcInit
<1>2. RpcIInv /\ [RpcNext]_rpcVars => [Next]_vars
  BY RpcStepIsContextStep DEF RpcIInv
<1> QED
  BY <1>1, <1>2, RpcInvariance, PTL DEF RpcSpec, Spec

\* Everything in flight or in the buffer is about the current call or an
\* earlier one of the same run (Utils.cpp:88-92).
THEOREM OnlyKnownRequestsHolds == RpcSpec => []OnlyKnownRequests
<1>1. RpcIInv => OnlyKnownRequests
  BY DEF RpcIInv
<1> QED
  BY <1>1, RpcInvariance, PTL

\* In the invariant's states an accepted reply is the reply to this call: two
\* requests of one run never share an xid, and the buffer holds one reply.
LEMMA AcceptedIsMine ==
    ASSUME RpcIInv
    PROVE  AnswerIsMine
<1> SUFFICES ASSUME Received, XidMatches, rc = 0
             PROVE  /\ wireBytes = Body(wireBytes[1].reply)
                    /\ wireBytes[1].reply.req = call
  BY DEF AnswerIsMine
<1> DEFINE req == wireBytes[1].reply.req
<1>1. /\ wireBytes[1].at = 2
      /\ wireBytes[1].reply = wireBytes[2].reply
      /\ Xid(wireBytes[2].reply.req) = Xid(call)
      /\ phase = "idle" /\ stage = "reply"
  BY DEF Received, XidMatches, WordIsWhole, WordReply
<1>2. wireBytes = Body(wireBytes[1].reply)
  BY <1>1 DEF RpcIInv, IInv, WholeReply
<1>3. wireBytes[1] # Junk
  BY <1>1 DEF Junk
<1>4. KnownRequest(req)
  BY <1>3 DEF RpcIInv, OnlyKnownRequests
<1>5. /\ seed \in Nat /\ call.seq \in Nat /\ MaxCalls \in Nat
      /\ seed <= call.seq /\ call.seq < seed + 2 * MaxCalls
      /\ 2 * MaxCalls <= XidModulus /\ XidModulus \in Nat
  BY <1>1, CallsAssumption DEF RpcIInv, RpcTypeOK
<1>6. CASE req # call
  <2>1. req.seq \in Nat /\ req.seq < call.seq /\ call.seq - req.seq < XidModulus
    BY <1>4, <1>5, <1>6 DEF KnownRequest
  <2>2. req.seq % XidModulus # call.seq % XidModulus
    BY <1>5, <2>1, XidsDiffer
  <2> QED
    BY <1>1, <2>2 DEF Xid
<1> QED
  BY <1>2, <1>6

\* A reply whose xid is accepted after a successful receive is the reply to this
\* call, for every fragmentation of the stream and every failure of earlier
\* calls (rpc.hpp:65-73).
THEOREM AnswerIsMineHolds == RpcSpec => []AnswerIsMine
BY AcceptedIsMine, RpcInvariance, PTL
-----------------------------------------------------------------------------
(***************************************************************************)
(* Each call implements AbstractCall.                                      *)
(***************************************************************************)

\* A reply taken for the call's own is one of this connection's, and its status
\* and result are whole in the buffer.
LEMMA OwnReply ==
    ASSUME RpcIInv, Received, XidMatches, rc = 0
    PROVE  \E i \in 1 .. Len(replies) :
              /\ replies[i] \in Reply
              /\ replies[i].req = call
              /\ WordIsWhole(2) /\ WordReply(2) = replies[i]
              /\ WordIsWhole(3) /\ WordReply(3) = replies[i]
<1> DEFINE r == wireBytes[1].reply
<1>1. wireBytes = Body(r) /\ r.req = call
  BY AcceptedIsMine DEF AnswerIsMine
<1>2. wireBytes[1].at = HeaderCells
  BY DEF XidMatches, WordIsWhole
<1>3. PICK i \in 1 .. Len(replies) : replies[i] = r
  BY <1>2 DEF RpcIInv, ReplyIsHere
<1>4. replies[i] \in Reply
  BY DEF RpcIInv, IInv, TypeOK
<1>5. \A j \in 1 .. BodyCells : wireBytes[j] = [at |-> HeaderCells + j - 1,
                                                reply |-> r]
  BY <1>1 DEF Body
<1> HIDE DEF r
<1>6. /\ WordIsWhole(2) /\ WordReply(2) = r
      /\ WordIsWhole(3) /\ WordReply(3) = r
  BY <1>5 DEF WordIsWhole, WordReply
<1> QED
  BY <1>1, <1>3, <1>4, <1>6

\* What a call may return, when its receive succeeded: nothing, or what the
\* server's answer to this request says.
ResultIsTheServers ==
    (Received /\ rc = 0)
        => \/ ResultsRead = {<<>>}
           \/ \E i \in 1 .. Len(replies) :
                 /\ replies[i].req = call
                 /\ \/ /\ replies[i].status = "SUCCESS"
                       /\ ResultsRead = {<<replies[i].value>>}
                    \/ replies[i].status = "UNKNOWN" /\ ResultsRead = {}
                    \/ replies[i].status = "VERIFIED"

LEMMA ResultIsAnswer == RpcIInv => ResultIsTheServers
<1> SUFFICES ASSUME RpcIInv, Received, rc = 0
             PROVE  \/ ResultsRead = {<<>>}
                    \/ \E i \in 1 .. Len(replies) :
                          /\ replies[i].req = call
                          /\ \/ /\ replies[i].status = "SUCCESS"
                                /\ ResultsRead = {<<replies[i].value>>}
                             \/ replies[i].status = "UNKNOWN" /\ ResultsRead = {}
                             \/ replies[i].status = "VERIFIED"
  BY DEF ResultIsTheServers
<1>1. CASE ~ XidMatches
  BY <1>1 DEF ResultsRead, NullPayload, HasPayload
<1>2. CASE XidMatches
  <2>1. PICK i \in 1 .. Len(replies) :
              /\ replies[i] \in Reply
              /\ replies[i].req = call
              /\ WordIsWhole(2) /\ WordReply(2) = replies[i]
              /\ WordIsWhole(3) /\ WordReply(3) = replies[i]
    BY <1>2, OwnReply
  <2>2. replies[i].status \in {"SUCCESS", "FAILED", "UNKNOWN", "VERIFIED"}
    BY <2>1, StatusesAssumption DEF Reply
  <2>3. CASE replies[i].status = "VERIFIED"
    BY <2>1, <2>3
  <2>4. CASE replies[i].status # "VERIFIED"
    <3>1. StatusesRead = {replies[i].status}
      BY <2>1, <2>4 DEF StatusesRead
    <3>2. ValuesRead(Values) = {replies[i].value}
      BY <2>1, <2>4 DEF ValuesRead, ResultIsOf, Reply
    <3>3. CASE replies[i].status = "SUCCESS"
      <4>1. HasPayload /\ ~ NullPayload
        BY <1>2, <3>1, <3>3 DEF HasPayload, NullPayload
      <4>2. ResultsRead = {<<replies[i].value>>}
        BY <3>2, <4>1, Zenon DEF ResultsRead
      <4> QED
        BY <2>1, <3>3, <4>2
    <3>4. CASE replies[i].status = "FAILED"
      <4>1. NullPayload /\ ~ HasPayload
        BY <3>1, <3>4 DEF HasPayload, NullPayload
      <4> QED
        BY <4>1 DEF ResultsRead
    <3>5. CASE replies[i].status = "UNKNOWN"
      <4>1. ~ NullPayload /\ ~ HasPayload
        BY <1>2, <3>1, <3>5 DEF HasPayload, NullPayload
      <4> QED
        BY <2>1, <3>5, <4>1 DEF ResultsRead
    <3> QED
      BY <2>2, <2>4, <3>3, <3>4, <3>5
  <2> QED
    BY <2>3, <2>4
<1> QED
  BY <1>1, <1>2

\* Only a call that has received has results.
LEMMA NoResultsBefore == ~ Received => ResultsRead = {}
BY DEF ResultsRead, NullPayload, HasPayload

\* The results depend on the buffer, the call and the end of the receive.
LEMMA ResultsKept ==
    ASSUME UNCHANGED <<call, stage, receiveVars>>
    PROVE  Received' = Received /\ ResultsRead' = ResultsRead
<1>1. Received' = Received
  BY DEF Received
<1>2. \A w \in 1 .. 3 : WordIsWhole(w)' = WordIsWhole(w) /\ WordReply(w)' = WordReply(w)
  BY DEF WordIsWhole, WordReply
<1>3. XidMatches' = XidMatches /\ StatusesRead' = StatusesRead
  BY <1>2 DEF XidMatches, StatusesRead, Xid
<1>4. ValuesRead(Values)' = ValuesRead(Values)
  BY <1>2 DEF ValuesRead, ResultIsOf
<1>5. NullPayload' = NullPayload /\ HasPayload' = HasPayload
  BY <1>1, <1>3 DEF NullPayload, HasPayload
<1> QED
  BY <1>1, <1>4, <1>5 DEF ResultsRead

\* Where a call is, in the terms of AbstractCall.
LEMMA AbsStageIs ==
    ASSUME RpcTypeOK
    PROVE  /\ stage = "idle" => AbsStage = "idle" /\ AbsRequest = NoRequest
           /\ (stage # "idle" /\ ~ Received) => AbsStage = "asked" /\ AbsRequest = call
           /\ (Received /\ rc = 0) => AbsStage = "ended" /\ AbsRequest = call
           /\ (Received /\ rc # 0) => AbsStage = "failed" /\ AbsRequest = call
<1>1. Received => stage # "idle"
  BY DEF Received
<1> QED
  BY <1>1 DEF AbsStage, AbsRequest

\* The sets of requests and of answers, when the sequences grow.
LEMMA AbsAppend ==
    ASSUME IInv
    PROVE  /\ \A r : sent' = Append(sent, r) => AbsAsked' = AbsAsked \cup {r}
           /\ \A r : replies' = Append(replies, r)
                     => AbsAnswers' = AbsAnswers \cup {r}
           /\ sent' = sent => AbsAsked' = AbsAsked
           /\ replies' = replies => AbsAnswers' = AbsAnswers
           /\ sent' = <<>> => AbsAsked' = {}
           /\ replies' = <<>> => AbsAnswers' = {}
<1>1. sent \in Seq(Requests) /\ replies \in Seq(Reply)
  BY DEF IInv, TypeOK
<1>2. ASSUME NEW r, sent' = Append(sent, r) PROVE AbsAsked' = AbsAsked \cup {r}
  <2>1. /\ Len(sent') = Len(sent) + 1 /\ Len(sent) \in Nat
        /\ sent'[Len(sent) + 1] = r
        /\ \A i \in 1 .. Len(sent) : sent'[i] = sent[i]
    BY <1>1, <1>2
  <2>2. 1 .. Len(sent') = 1 .. Len(sent) \cup {Len(sent) + 1}
    BY <2>1
  <2> QED
    BY <2>1, <2>2 DEF AbsAsked
<1>3. ASSUME NEW r, replies' = Append(replies, r)
      PROVE  AbsAnswers' = AbsAnswers \cup {r}
  <2>1. /\ Len(replies') = Len(replies) + 1 /\ Len(replies) \in Nat
        /\ replies'[Len(replies) + 1] = r
        /\ \A i \in 1 .. Len(replies) : replies'[i] = replies[i]
    BY <1>1, <1>3
  <2>2. 1 .. Len(replies') = 1 .. Len(replies) \cup {Len(replies) + 1}
    BY <2>1
  <2> QED
    BY <2>1, <2>2 DEF AbsAnswers
<1>4. (sent' = <<>> => AbsAsked' = {}) /\ (replies' = <<>> => AbsAnswers' = {})
  BY DEF AbsAsked, AbsAnswers
<1>5. /\ sent' = sent => AbsAsked' = AbsAsked
      /\ replies' = replies => AbsAnswers' = AbsAnswers
  BY DEF AbsAsked, AbsAnswers
<1> QED
  BY <1>2, <1>3, <1>4, <1>5

absVars == <<AbsRequest, AbsStage, AbsAsked, AbsAnswers, ResultsRead>>

\* Each step of a program is one of AbstractCall, or changes nothing there.
LEMMA RpcStepIsAbstractStep ==
    ASSUME RpcIInv, ResultIsTheServers', [RpcNext]_rpcVars
    PROVE  Abstract!Next \/ UNCHANGED absVars
<1>1. IInv /\ RpcTypeOK /\ SentOnce /\ RepliesAnswer
  BY DEF RpcIInv
<1>2. /\ sent \in Seq(Requests) /\ Len(sent) \in Nat
      /\ replies \in Seq(Reply) /\ Len(replies) \in Nat
  BY <1>1 DEF IInv, TypeOK
<1>3. RpcTypeOK' /\ SentOnce'
  BY RpcNextIInv DEF RpcIInv
<1>4. /\ stage' = "idle" => AbsStage' = "idle" /\ AbsRequest' = NoRequest
      /\ (stage' # "idle" /\ ~ Received')
            => AbsStage' = "asked" /\ AbsRequest' = call'
      /\ (Received' /\ rc' = 0) => AbsStage' = "ended" /\ AbsRequest' = call'
      /\ (Received' /\ rc' # 0) => AbsStage' = "failed" /\ AbsRequest' = call'
  <2>1. Received' => stage' # "idle"
    BY DEF Received
  <2> QED
    BY <2>1 DEF AbsStage, AbsRequest
<1>5. /\ ~ Received => ResultsRead = {}
      /\ ~ Received' => ResultsRead' = {}
  BY NoResultsBefore DEF ResultsRead, NullPayload, HasPayload
\* A call that has connected has begun.
<1>6. CASE /\ stage = "idle" /\ stage' = "send"
           /\ \E op \in Ops : BeginCall(op)
           /\ \/ UNCHANGED <<sent, answered, replies>>
              \/ sent' = <<>> /\ answered' = {} /\ replies' = <<>>
  <2>1. ~ Received /\ ~ Received'
    BY <1>6 DEF Received
  <2>2. /\ AbsStage = "idle" /\ AbsStage' = "asked" /\ AbsRequest' = call'
        /\ ResultsRead' = ResultsRead
    BY <1>4, <1>5, <1>6, <2>1, AbsStageIs, <1>1
  <2>3. call' \in Requests
    BY <1>3, <1>6 DEF RpcTypeOK
  <2>4. \/ AbsAsked' = AbsAsked /\ AbsAnswers' = AbsAnswers
        \/ AbsAsked' = {} /\ AbsAnswers' = {}
    BY <1>1, <1>6, AbsAppend
  <2>5. call' \notin AbsAsked'
    BY <1>3, <1>6 DEF SentOnce, AbsAsked
  <2>6. Abstract!Ask
    BY <2>2, <2>3, <2>4, <2>5 DEF Abstract!Ask, Abstract!KeepOrRenew
  <2> QED
    BY <2>6 DEF Abstract!Next
<1>7. CASE /\ stage = "idle" /\ UNCHANGED <<call, stage>>
           /\ \/ UNCHANGED <<sent, answered, replies>>
              \/ sent' = <<>> /\ answered' = {} /\ replies' = <<>>
  <2>1. ~ Received /\ ~ Received'
    BY <1>7 DEF Received
  <2>2. /\ AbsStage = "idle" /\ AbsStage' = "idle"
        /\ AbsRequest' = AbsRequest /\ ResultsRead' = ResultsRead
    BY <1>1, <1>4, <1>5, <1>7, <2>1, AbsStageIs DEF NoRequest
  <2>3. \/ AbsAsked' = AbsAsked /\ AbsAnswers' = AbsAnswers
        \/ AbsAsked' = {} /\ AbsAnswers' = {}
    BY <1>1, <1>7, AbsAppend
  <2> QED
    BY <2>2, <2>3 DEF Abstract!Next, Abstract!HangUp, absVars
<1>8. CASE /\ stage = "send" /\ stage' = "receive"
           /\ sent' = sent \/ sent' = Append(sent, call)
           /\ UNCHANGED <<call, answered, replies, receiveVars>>
  <2>1. ~ Received /\ ~ Received'
    BY <1>8 DEF Received
  <2>2. /\ AbsStage = "asked" /\ AbsStage' = "asked" /\ AbsRequest = call
        /\ AbsRequest' = AbsRequest /\ ResultsRead' = ResultsRead
        /\ AbsAnswers' = AbsAnswers
    BY <1>1, <1>4, <1>5, <1>8, <2>1, AbsStageIs, AbsAppend
  <2>3. CASE sent' = sent
    BY <1>1, <2>2, <2>3, AbsAppend DEF absVars
  <2>4. CASE sent' = Append(sent, call)
    <3>1. call \notin AbsAsked
      BY <1>1, <1>8 DEF SentOnce, AbsAsked
    <3>2. AbsAsked' = AbsAsked \cup {call}
      BY <1>1, <2>4, AbsAppend
    <3> QED
      BY <2>2, <3>1, <3>2 DEF Abstract!Next, Abstract!Transmit
  <2> QED
    BY <1>8, <2>3, <2>4
<1>8a. ResultsRead' \subseteq {<<>>} \cup {<<v>> : v \in Values}
  <2>1. ValuesRead(Values)' \subseteq Values
    BY DEF ValuesRead, ResultIsOf
  <2> QED
    BY <2>1 DEF ResultsRead
\* The receive of a call begins, goes on or ends.
<1>9. ASSUME stage # "idle", stage' # "idle", ~ Received,
             UNCHANGED <<call, sent, replies>>
      PROVE  Abstract!Next \/ UNCHANGED absVars
  <2>1. /\ AbsStage = "asked" /\ AbsRequest = call /\ AbsRequest' = call
        /\ AbsAsked' = AbsAsked /\ AbsAnswers' = AbsAnswers
        /\ ResultsRead = {}
    BY <1>1, <1>4, <1>5, <1>9, AbsStageIs, AbsAppend
  <2>2. CASE ~ Received'
    BY <1>4, <1>5, <1>9, <2>1, <2>2 DEF absVars
  <2>3. CASE Received' /\ rc' # 0
    <3>1. ResultsRead' \subseteq {<<>>} \cup {<<v>> : v \in Values}
      BY <1>8a
    <3>2. AbsStage' = "failed"
      BY <1>4, <2>3
    <3> QED
      BY <2>1, <3>1, <3>2 DEF Abstract!Next, Abstract!Fail, Abstract!AnyResult,
         Abstract!NoResult
  <2>4. CASE Received' /\ rc' = 0
    <3>1. AbsStage' = "ended"
      BY <1>4, <2>4
    <3>3. \/ ResultsRead' = {<<>>}
          \/ \E i \in 1 .. Len(replies') :
                /\ replies'[i].req = call'
                /\ \/ /\ replies'[i].status = "SUCCESS"
                      /\ ResultsRead' = {<<replies'[i].value>>}
                   \/ replies'[i].status = "UNKNOWN" /\ ResultsRead' = {}
                   \/ replies'[i].status = "VERIFIED"
      BY <2>4 DEF ResultIsTheServers
    <3>4. CASE ResultsRead' = {<<>>}
      BY <2>1, <3>1, <3>4 DEF Abstract!Next, Abstract!Succeed, Abstract!NoResult
    <3>5. ASSUME NEW i \in 1 .. Len(replies), replies[i].req = call,
                 \/ /\ replies[i].status = "SUCCESS"
                    /\ ResultsRead' = {<<replies[i].value>>}
                 \/ replies[i].status = "UNKNOWN" /\ ResultsRead' = {}
                 \/ replies[i].status = "VERIFIED"
          PROVE  Abstract!Next
      <4>1. replies[i] \in AbsAnswers
        BY DEF AbsAnswers
      <4>2. ResultsRead' \subseteq Abstract!AnyResult
        BY <1>8a DEF Abstract!AnyResult, Abstract!NoResult
      <4> QED
        BY <2>1, <3>1, <3>5, <4>1, <4>2 DEF Abstract!Next, Abstract!Succeed
    <3> QED
      BY <1>9, <3>3, <3>4, <3>5
  <2> QED
    BY <2>2, <2>3, <2>4
<1>10. CASE /\ stage = "receive" /\ stage' = "reply"
            /\ phase = "idle" /\ (phase' # "idle" \/ rc' = -1)
            /\ UNCHANGED <<call, sent, answered, replies>>
  BY <1>9, <1>10 DEF Received
<1>11. CASE /\ Recv \/ RecvError
            /\ UNCHANGED <<call, stage, sent, answered, replies>>
  <2>1. ~ Received
    BY <1>11 DEF Received, Recv, RecvError
  <2>2. CASE stage = "idle"
    <3>1. ~ Received'
      BY <1>11, <2>2 DEF Received
    <3>2. /\ AbsStage = "idle" /\ AbsStage' = "idle"
          /\ AbsRequest' = AbsRequest /\ ResultsRead' = ResultsRead
      BY <1>1, <1>4, <1>5, <1>11, <2>1, <2>2, <3>1, AbsStageIs DEF NoRequest
    <3> QED
      BY <1>1, <1>11, <3>2, AbsAppend DEF absVars
  <2> QED
    BY <1>9, <1>11, <2>1, <2>2
<1>12. CASE /\ NullPayload \/ HasPayload
            /\ stage = "reply" /\ stage' = "idle"
            /\ UNCHANGED <<call, sent, answered, replies, receiveVars>>
  <2>1. Received /\ ~ Received'
    BY <1>12 DEF NullPayload, HasPayload, Received
  <2>2. /\ AbsStage \in {"ended", "failed"} /\ AbsStage' = "idle"
        /\ AbsRequest' = NoRequest /\ ResultsRead' = {}
        /\ AbsAsked' = AbsAsked /\ AbsAnswers' = AbsAnswers
    BY <1>1, <1>4, <1>5, <1>12, <2>1, AbsStageIs, AbsAppend
  <2> QED
    BY <2>2 DEF Abstract!Next, Abstract!Return, NoRequest
\* The server answers.
<1>13. ASSUME NEW i \in 1 .. Len(sent), NEW s \in Statuses, NEW v \in Values,
              ServerReply(i, s, v), UNCHANGED <<call, stage, sent, receiveVars>>
       PROVE  Abstract!Next
  <2> DEFINE r == [req |-> sent[i], status |-> s, value |-> v]
  <2>1. replies' = Append(replies, r) /\ i \notin answered
    BY <1>13 DEF ServerReply
  <2>2. Received' = Received /\ ResultsRead' = ResultsRead
    BY <1>13, ResultsKept
  <2>3. AbsStage' = AbsStage /\ AbsRequest' = AbsRequest
    BY <1>13, <2>2 DEF AbsStage, AbsRequest
  <2>4. AbsAsked' = AbsAsked /\ AbsAnswers' = AbsAnswers \cup {r}
    BY <1>1, <1>13, <2>1, AbsAppend
  <2>5. sent[i] \in AbsAsked
    BY DEF AbsAsked
  <2>6. \A a \in AbsAnswers : a.req # sent[i]
    BY <1>1, <1>2, <2>1 DEF AbsAnswers, RepliesAnswer, SentOnce, IInv, TypeOK
  <2>7. Abstract!Answer(sent[i], s, v)
    BY <2>2, <2>3, <2>4, <2>6 DEF Abstract!Answer
  <2> QED
    BY <2>5, <2>7, StatusesAssumption DEF Abstract!Next
<1>14. CASE UNCHANGED <<call, stage, sent, answered, replies, receiveVars>>
  <2>1. Received' = Received /\ ResultsRead' = ResultsRead
    BY <1>14, ResultsKept
  <2> QED
    BY <1>1, <1>14, <2>1, AbsAppend DEF absVars, AbsStage, AbsRequest
<1> QED
  BY <1>6, <1>7, <1>8, <1>10, <1>11, <1>12, <1>13, <1>14, RpcSteps

\* A program's calls are calls of AbstractCall, whatever the network and the
\* server do (PortMapperContext.cpp:69-80, Mount.cpp:63-76, rpc.hpp:65-124).
THEOREM CallIsAbstractHolds == RpcSpec => CallIsAbstract
<1>1. RpcInit => Abstract!Init
  <2> SUFFICES ASSUME RpcInit PROVE Abstract!Init
    OBVIOUS
  <2>1. stage = "idle" /\ sent = <<>> /\ replies = <<>>
    BY DEF RpcInit, Init
  <2>2. ~ Received
    BY <2>1 DEF Received
  <2> QED
    BY <2>1, <2>2, NoResultsBefore
       DEF Abstract!Init, AbsStage, AbsRequest, AbsAsked, AbsAnswers, NoRequest
<1>2. RpcIInv /\ ResultIsTheServers' /\ [RpcNext]_rpcVars => [Abstract!Next]_(Abstract!vars)
  BY RpcStepIsAbstractStep DEF absVars, Abstract!vars
<1> QED
  BY <1>1, <1>2, RpcInvariance, ResultIsAnswer, PTL DEF CallIsAbstract, Abstract!Spec, RpcSpec

-----------------------------------------------------------------------------
USE DEF mainVars, clientVars

-----------------------------------------------------------------------------
(***************************************************************************)
(* The program's steps are those of RpcCall.                               *)
(***************************************************************************)

\* The steps that take a reply end the call and move main to its next line.
LEMMA ReturnsEndCalls ==
    ASSUME \/ ReturnMountPort \/ ReturnNfsPort \/ ReturnMounted
           \/ ReturnMountFailed \/ ReturnUmount
    PROVE  /\ Return
           /\ NullPayload \/ HasPayload
           /\ at \in 1 .. Len(Script) /\ at' = at + 1
           /\ exit' = exit
BY DEF ReturnMountPort, ReturnNfsPort, ReturnMounted, ReturnMountFailed,
       ReturnUmount, PortRead, Line

\* The steps in which the process ends, but for the lookup's.
LEMMA EndsChangeNothing ==
    ASSUME KilledBySend \/ MountAsserts \/ MountRunsAway \/ ParseAborts \/ ExitMain
    PROVE  /\ UNCHANGED <<rpcVars, at, mountPortVar, nfsPortVar, mountHandle, tree>>
           /\ exit' \in {"exited", "killed", "aborted", "crashed"}
BY DEF KilledBySend, MountAsserts, MountRunsAway, ParseAborts, ExitMain

\* What a service answers is a reply, and a result of the procedure asked for
\* when it says that it succeeded.
LEMMA AnswersFit ==
    ASSUME NEW op, NEW a \in Answers(op)
    PROVE  /\ a.status \in Statuses /\ a.value \in Values
           /\ a.status = "SUCCESS" => a.value \in Results(op) \cup Refusals(op)
<1>1. Results(op) \cup Refusals(op) \subseteq Values
  BY ServicesAssumption, ResultsAssumption DEF Results, Refusals
<1>2. \/ /\ a.status = "SUCCESS"
         /\ a.value \in Results(op) \cup Refusals(op)
      \/ a.status \in {"FAILED", "UNKNOWN", "VERIFIED"} /\ a.value = Void
  BY DEF Answers, StatusFor
<1> QED
  BY <1>1, <1>2, StatusesAssumption, ResultsAssumption

\* What the program and its server do to the variables of RpcCall, RpcCall
\* allows.
LEMMA ClientStepIsRpcStep ==
    ASSUME ClientTypeOK, [ClientNext]_clientVars
    PROVE  [RpcNext]_rpcVars
<1>1. CASE BeginGetPort \/ BeginMountOp
  <2>1. PICK op \in PortMapperOps \cup MountOps :
           BeginCall(op) /\ (ConnectPortMapperPort \/ ConnectMountPort)
    BY <1>1 DEF BeginGetPort, BeginMountOp
  <2>2. op \in Ops
    BY ProceduresAssumption
  <2> QED
    BY <2>1, <2>2 DEF RpcNext
<1>2. CASE Sends \/ StartsReceive \/ Receives
  BY <1>2 DEF Sends, StartsReceive, Receives, RpcNext
<1>3. CASE \/ ReturnMountPort \/ ReturnNfsPort \/ ReturnMounted
           \/ ReturnMountFailed \/ ReturnUmount
  BY <1>3, ReturnsEndCalls DEF RpcNext
<1>4. CASE KilledBySend \/ MountAsserts \/ MountRunsAway \/ ParseAborts \/ ExitMain
  BY <1>4, EndsChangeNothing
<1>5. CASE SetsMountPort \/ SetsNfsPort
  <2>1. /\ stage = "idle" /\ UNCHANGED callVars
        /\ SetMountPort(mountPortVar) \/ SetNfsPort(nfsPortVar)
    BY <1>5 DEF SetsMountPort, SetsNfsPort, Starts
  <2>2. mountPortVar \in Ports \cup {NoPort} /\ nfsPortVar \in Ports \cup {NoPort}
    BY DEF ClientTypeOK
  <2> QED
    BY <2>1, <2>2 DEF RpcNext
<1>6. CASE AddMountHandle \/ GetRoot \/ Ended
  BY <1>6 DEF AddMountHandle, GetRoot, Ended
<1>7. CASE Lookup
  BY <1>7 DEF Lookup, Starts, RpcNext
<1>8. CASE ServerAnswers
  <2>1. PICK i \in 1 .. Len(sent) : \E a \in Answers(sent[i].op) :
           ServerReply(i, a.status, a.value)
    BY <1>8 DEF ServerAnswers
  <2>2. PICK a \in Answers(sent[i].op) : ServerReply(i, a.status, a.value)
    BY <2>1
  <2>3. a.status \in Statuses /\ a.value \in Values
    BY <2>2, AnswersFit
  <2> QED
    BY <1>8, <2>2, <2>3 DEF ServerAnswers, Environment, RpcNext
<1>9. CASE Arrives \/ ConnectionEnds
  BY <1>9 DEF Arrives, ConnectionEnds, Environment, RpcNext
<1>10. CASE UNCHANGED clientVars
  BY <1>10
<1> QED
  BY <1>1, <1>2, <1>3, <1>4, <1>5, <1>6, <1>7, <1>8, <1>9, <1>10
     DEF ClientNext, Client

-----------------------------------------------------------------------------
(***************************************************************************)
(* The inductive invariant.                                                *)
(***************************************************************************)

\* What a word is read as, as one of T, is in T.
LEMMA ValuesReadType == ASSUME NEW T PROVE ValuesRead(T) \subseteq T
BY DEF ValuesRead, ResultIsOf

\* main's variables keep their types: mountHandle takes handles only.
LEMMA ClientTypeInv ==
    ASSUME ClientTypeOK, [ClientNext]_clientVars
    PROVE  ClientTypeOK'
<1>1. Len(Script) \in Nat
  BY ScriptAssumption
<1>2. CASE /\ UNCHANGED <<at, mountPortVar, nfsPortVar, mountHandle, tree>>
           /\ exit' \in {exit, "crashed"}
  BY <1>2 DEF ClientTypeOK
<1>3. CASE ReturnMountPort \/ ReturnNfsPort
  <2>1. mountPortVar' \in Ports \cup {NoPort} /\ nfsPortVar' \in Ports \cup {NoPort}
    BY <1>3 DEF ReturnMountPort, ReturnNfsPort, ClientTypeOK
  <2>2. at \in 1 .. Len(Script) /\ at' = at + 1
    BY <1>3, ReturnsEndCalls
  <2> QED
    BY <1>1, <1>3, <2>1, <2>2 DEF ReturnMountPort, ReturnNfsPort, ClientTypeOK
<1>4. CASE ReturnMounted
  <2>1. \/ mountHandle' = mountHandle
        \/ \E h \in Handles : mountHandle' = Append(mountHandle, h)
    BY <1>4, ValuesReadType DEF ReturnMounted
  <2>2. mountHandle' \in Seq(Handles)
    BY <2>1 DEF ClientTypeOK
  <2>3. at \in 1 .. Len(Script) /\ at' = at + 1
    BY <1>4, ReturnsEndCalls
  <2> QED
    BY <1>1, <1>4, <2>2, <2>3 DEF ReturnMounted, ClientTypeOK
<1>5. CASE ReturnMountFailed \/ ReturnUmount
  <2>1. at \in 1 .. Len(Script) /\ at' = at + 1
    BY <1>5, ReturnsEndCalls
  <2> QED
    BY <1>1, <1>5, <2>1 DEF ReturnMountFailed, ReturnUmount, ClientTypeOK
<1>6. CASE KilledBySend \/ MountAsserts \/ MountRunsAway \/ ParseAborts \/ ExitMain
  BY <1>6, EndsChangeNothing DEF ClientTypeOK
<1>7. CASE SetsMountPort \/ SetsNfsPort \/ AddMountHandle \/ GetRoot \/ Lookup
  BY <1>1, <1>7 DEF SetsMountPort, SetsNfsPort, AddMountHandle, GetRoot, Lookup,
     Starts, Line, ClientTypeOK
<1> QED
  BY <1>2, <1>3, <1>4, <1>5, <1>6, <1>7
     DEF ClientNext, Client, BeginGetPort, BeginMountOp, HostIsNamed, Sends,
         StartsReceive, Receives, ServerAnswers, Arrives, ConnectionEnds, Ended

\* A call begins with main's line and on the port it needs, and neither
\* changes before the call is over.
LEMMA CallInv ==
    ASSUME ClientTypeOK, CallOfLine, ConnectedForCall, [ClientNext]_clientVars
    PROVE  CallOfLine' /\ ConnectedForCall'
<1>1. CASE BeginGetPort
  <2>1. PICK op \in PortMapperOps :
           /\ Starts(op) /\ BeginCall(op)
           /\ ConnectPortMapperPort /\ HostIsNamed /\ UNCHANGED at
    BY <1>1 DEF BeginGetPort
  <2>2. port' = PortMapperPort
    BY <2>1 DEF ConnectPortMapperPort, Connect
  <2> QED
    BY <2>1, <2>2 DEF BeginCall, Starts, Line, Calling, HostIsNamed, CallOfLine,
       ConnectedForCall, PortFor
<1>2. CASE BeginMountOp
  <2>1. PICK op \in MountOps :
           /\ Starts(op) /\ BeginCall(op)
           /\ ConnectMountPort /\ HostIsNamed /\ UNCHANGED at
    BY <1>2 DEF BeginMountOp
  <2>2. port' = mountPort /\ mountPort' = mountPort
    BY <2>1 DEF ConnectMountPort, Connect
  <2>3. op \notin PortMapperOps
    BY DEF MountOps, PortMapperOps
  <2> QED
    BY <2>1, <2>2, <2>3 DEF BeginCall, Starts, Line, Calling, HostIsNamed,
       CallOfLine, ConnectedForCall, PortFor
<1>3. CASE Sends \/ StartsReceive
  BY <1>3 DEF Sends, StartsReceive, SendRequest, BeginReceive, CallOfLine,
     ConnectedForCall, Calling
<1>4. CASE /\ UNCHANGED <<callVars, port, mountPort, at>>
           /\ exit' = exit \/ exit' # "running"
  BY <1>4 DEF CallOfLine, ConnectedForCall, PortFor, Calling
<1>5. CASE stage' = "idle"
  BY <1>5 DEF CallOfLine, ConnectedForCall, Calling
<1>6. CASE \/ ReturnMountPort \/ ReturnNfsPort \/ ReturnMounted
           \/ ReturnMountFailed \/ ReturnUmount
  BY <1>5, <1>6, ReturnsEndCalls DEF Return
<1>7. CASE KilledBySend \/ MountAsserts \/ MountRunsAway \/ ParseAborts \/ ExitMain
  BY <1>4, <1>7, EndsChangeNothing
<1>8. CASE SetsMountPort \/ SetsNfsPort \/ AddMountHandle \/ GetRoot \/ Lookup
  BY <1>5, <1>8 DEF SetsMountPort, SetsNfsPort, AddMountHandle, GetRoot, Lookup,
     Starts
<1>9. CASE Receives
  BY <1>4, <1>9 DEF Receives, ReceiveLoop, Recv, RecvError, RecvNothing
<1>10. CASE ServerAnswers \/ Arrives \/ ConnectionEnds
  BY <1>4, <1>10 DEF ServerAnswers, ServerReply, Arrives, Deliver,
     ConnectionEnds, ServerClose, ConnReset
<1>11. CASE UNCHANGED clientVars
  BY <1>4, <1>11
<1> QED
  BY <1>1, <1>2, <1>3, <1>6, <1>7, <1>8, <1>9, <1>10, <1>11
     DEF ClientNext, Client, Ended

\* Of the other steps, only the server's change the replies.
LEMMA RepliesKept ==
    ASSUME [ClientNext]_clientVars, ~ ServerAnswers
    PROVE  replies' = replies \/ replies' = <<>>
<1>1. CASE BeginGetPort \/ BeginMountOp \/ Lookup
  BY <1>1, ConnectStream DEF BeginGetPort, BeginMountOp, Lookup
<1>2. CASE Sends \/ StartsReceive \/ Receives
  BY <1>2 DEF Sends, StartsReceive, Receives, SendRequest, Send, SendAccepted,
     SendFailed, BeginReceive, StartReceive, ReceiveBadSocket, ReceiveLoop, Recv,
     RecvError, RecvNothing
<1>3. CASE \/ ReturnMountPort \/ ReturnNfsPort \/ ReturnMounted
           \/ ReturnMountFailed \/ ReturnUmount
  BY <1>3, ReturnsEndCalls DEF Return
<1>4. CASE KilledBySend \/ MountAsserts \/ MountRunsAway \/ ParseAborts \/ ExitMain
  BY <1>4, EndsChangeNothing
<1>5. CASE SetsMountPort \/ SetsNfsPort \/ AddMountHandle \/ GetRoot
  BY <1>5 DEF SetsMountPort, SetsNfsPort, SetMountPort, SetNfsPort,
     AddMountHandle, GetRoot
<1>6. CASE Arrives \/ ConnectionEnds
  BY <1>6 DEF Arrives, Deliver, ConnectionEnds, ServerClose, ConnReset
<1>7. CASE UNCHANGED clientVars
  BY <1>7
<1> QED
  BY <1>1, <1>2, <1>3, <1>4, <1>5, <1>6, <1>7 DEF ClientNext, Client, Ended

\* A reply the server adds is the last one, and nothing else changes for the
\* client.
LEMMA ServerAppends ==
    ASSUME ServerAnswers
    PROVE  \E i \in 1 .. Len(sent) : \E a \in Answers(sent[i].op) :
              /\ replies' = Append(replies, [req |-> sent[i], status |-> a.status,
                                             value |-> a.value])
              /\ UNCHANGED <<receiveVars, callVars, mainVars>>
BY DEF ServerAnswers, ServerReply

\* The server answers with what fits the procedure.
LEMMA ResultsFitInv ==
    ASSUME RpcIInv, ResultsFit, [ClientNext]_clientVars
    PROVE  ResultsFit'
<1>1. replies \in Seq(Reply)
  BY DEF RpcIInv, IInv, TypeOK
<1>2. CASE ~ ServerAnswers
  BY <1>2, RepliesKept DEF ResultsFit, Results, Refusals
<1>3. CASE ServerAnswers
  <2>1. PICK i \in 1 .. Len(sent) : \E a \in Answers(sent[i].op) :
              replies' = Append(replies, [req |-> sent[i], status |-> a.status,
                                          value |-> a.value])
    BY <1>3, ServerAppends
  <2>2. PICK a \in Answers(sent[i].op) :
              replies' = Append(replies, [req |-> sent[i], status |-> a.status,
                                          value |-> a.value])
    BY <2>1
  <2> DEFINE r == [req |-> sent[i], status |-> a.status, value |-> a.value]
  <2>3. r.status = "SUCCESS"
          => r.value \in Results(r.req.op) \cup Refusals(r.req.op)
    BY <2>2, AnswersFit
  <2>4. ASSUME NEW m \in 1 .. Len(replies')
        PROVE  \/ m \in 1 .. Len(replies) /\ replies'[m] = replies[m]
               \/ replies'[m] = r
    BY <1>1, <2>2
  <2> HIDE DEF r
  <2> QED
    BY <2>3, <2>4 DEF ResultsFit, Results, Refusals
<1> QED
  BY <1>2, <1>3

\* The invariant holds when main starts.
LEMMA ClientInitIInv == ClientInit => ClientIInv
<1> SUFFICES ASSUME ClientInit PROVE ClientIInv
  OBVIOUS
<1>1. RpcIInv
  BY RpcInitIInv DEF ClientInit
<1>2. Len(Script) \in Nat
  BY ScriptAssumption
<1>3. ClientTypeOK
  BY <1>2 DEF ClientInit, ClientTypeOK
<1>4. CallOfLine /\ ConnectedForCall /\ ResultsFit
  BY DEF ClientInit, RpcInit, Init, CallOfLine, Calling, ConnectedForCall,
     ResultsFit
<1> QED
  BY <1>1, <1>3, <1>4 DEF ClientIInv

\* Every step of the program and of its server keeps the invariant.
LEMMA ClientNextIInv == ClientIInv /\ [ClientNext]_clientVars => ClientIInv'
<1> SUFFICES ASSUME ClientIInv, [ClientNext]_clientVars PROVE ClientIInv'
  OBVIOUS
<1>1. RpcIInv'
  BY ClientStepIsRpcStep, RpcNextIInv DEF ClientIInv
<1>2. ClientTypeOK' /\ CallOfLine' /\ ConnectedForCall'
  BY ClientTypeInv, CallInv DEF ClientIInv
<1>3. ResultsFit'
  BY ResultsFitInv DEF ClientIInv
<1> QED
  BY <1>1, <1>2, <1>3 DEF ClientIInv

\* The invariant holds as long as the program runs.
THEOREM ClientInvariance == ClientSpec => []ClientIInv
BY ClientInitIInv, ClientNextIInv, PTL DEF ClientSpec

-----------------------------------------------------------------------------
(***************************************************************************)
(* The theorems.                                                           *)
(***************************************************************************)

\* The program makes its calls as RpcCall does (main.cpp:38-80): every theorem
\* about RpcCall, and so about Context, holds of it.
THEOREM ClientImplementsRpc == ClientSpec => RpcSpec
<1>1. ClientInit => RpcInit
  BY DEF ClientInit
<1>2. ClientIInv /\ [ClientNext]_clientVars => [RpcNext]_rpcVars
  BY ClientStepIsRpcStep DEF ClientIInv
<1> QED
  BY <1>1, <1>2, ClientInvariance, PTL DEF ClientSpec, RpcSpec

\* main's calls are calls of AbstractCall (main.cpp:50-76): whatever main does
\* with ports and trees in between, a call whose receive succeeded ends with the
\* server's answer to it or with nothing.
THEOREM ClientCallsAreAbstract == ClientSpec => CallIsAbstract
BY ClientImplementsRpc, CallIsAbstractHolds, PTL

\* Every variable of main has its type; a handle is made of handles the mount
\* service gives out (Mount.cpp:69-76).
THEOREM ClientTypeCorrect == ClientSpec => []ClientTypeOK
<1>1. ClientIInv => ClientTypeOK
  BY DEF ClientIInv
<1> QED
  BY <1>1, ClientInvariance, PTL

\* After a receive that succeeded, the program never takes the reply to one of
\* its calls for the reply to another (rpc.hpp:65-73).
THEOREM ClientAnswersHolds == ClientSpec => []AnswerIsMine
BY ClientImplementsRpc, AnswerIsMineHolds, PTL

\* A payload taken after a successful receive is that of an answer to this call
\* on this connection; unless it has data in its verifier, the result read of it
\* is what it says.
LEMMA AcceptedReply ==
    ASSUME ClientIInv, exit = "running", HasPayload, rc = 0
    PROVE  /\ call.op = Script[at]
           /\ \/ Answered("VERIFIED")
              \/ \E i \in 1 .. Len(replies) :
                    /\ replies[i].req = call
                    /\ replies[i].status = "SUCCESS"
                    /\ replies[i].value \in Results(call.op) \cup Refusals(call.op)
                    /\ WordIsWhole(3)
                    /\ WordReply(3) = replies[i]
<1>1. stage = "reply" /\ Received /\ "SUCCESS" \in StatusesRead /\ XidMatches
  BY DEF HasPayload, Received
<1>2. RpcIInv /\ ResultsFit /\ CallOfLine
  BY DEF ClientIInv
<1>3. PICK i \in 1 .. Len(replies) :
              /\ replies[i] \in Reply
              /\ replies[i].req = call
              /\ WordIsWhole(2) /\ WordReply(2) = replies[i]
              /\ WordIsWhole(3) /\ WordReply(3) = replies[i]
  BY <1>1, <1>2, OwnReply
<1>4. replies[i].status \in {"SUCCESS", "VERIFIED"}
  BY <1>1, <1>3 DEF StatusesRead
<1>5. call.op = Script[at]
  BY <1>1, <1>2 DEF CallOfLine, Calling
<1> QED
  BY <1>2, <1>3, <1>4, <1>5 DEF ResultsFit, Answered

\* A port read from such a reply is the one the server answered with.
LEMMA PortReadIsReplied ==
    ASSUME ClientIInv, exit = "running", rc = 0, Script[at] \in PortMapperOps,
           ~ Answered("VERIFIED"), NEW p, p # NoPort, PortRead(p)
    PROVE  Replied(p)
<1>1. HasPayload /\ p \in ValuesRead(Ports \cup {NoPort})
  BY DEF PortRead
<1>2. call.op = Script[at]
  BY <1>1, AcceptedReply
<1>3. PICK i \in 1 .. Len(replies) :
              /\ replies[i].req = call
              /\ replies[i].status = "SUCCESS"
              /\ replies[i].value \in Results(call.op) \cup Refusals(call.op)
              /\ WordIsWhole(3)
              /\ WordReply(3) = replies[i]
  BY <1>1, AcceptedReply
<1>4. replies[i].value \in Ports
  BY <1>2, <1>3, ServicesAssumption DEF Results, Refusals, PortMapperOps
<1>5. p = replies[i].value
  BY <1>1, <1>3, <1>4 DEF ValuesRead, ResultIsOf
<1> QED
  BY <1>3, <1>5 DEF Replied

\* A port main learns after a receive that succeeded is the port mapper's answer
\* for that very program, unless the answer has data in its verifier
\* (PortMapperContext.cpp:69-80, rpc.hpp:103).
THEOREM LearnsServersPortsHolds == ClientSpec => LearnsServersPorts
<1> DEFINE Step == (rc = 0 /\ ~ Answered("VERIFIED")) =>
        /\ mountPortVar' \notin {mountPortVar, NoPort} => Replied(mountPortVar')
        /\ nfsPortVar' \notin {nfsPortVar, NoPort} => Replied(nfsPortVar')
<1>1. ClientIInv /\ [ClientNext]_clientVars => [Step]_clientVars
  <2> SUFFICES ASSUME ClientIInv, ClientNext, rc = 0, ~ Answered("VERIFIED")
               PROVE  Step
    OBVIOUS
  <2>1. CASE ReturnMountPort
    <3>1. /\ exit = "running" /\ Script[at] \in PortMapperOps
          /\ nfsPortVar' = nfsPortVar /\ PortRead(mountPortVar')
      BY <2>1 DEF ReturnMountPort, Line, PortMapperOps
    <3> QED
      BY <3>1, PortReadIsReplied
  <2>2. CASE ReturnNfsPort
    <3>1. /\ exit = "running" /\ Script[at] \in PortMapperOps
          /\ mountPortVar' = mountPortVar /\ PortRead(nfsPortVar')
      BY <2>2 DEF ReturnNfsPort, Line, PortMapperOps
    <3> QED
      BY <3>1, PortReadIsReplied
  <2>3. CASE UNCHANGED <<mountPortVar, nfsPortVar>>
    BY <2>3
  <2> QED
    BY <2>1, <2>2, <2>3 DEF ClientNext, Client, BeginGetPort, BeginMountOp, Sends,
       KilledBySend, StartsReceive, Receives, ReturnMounted, ReturnMountFailed,
       MountAsserts, MountRunsAway, ReturnUmount, ParseAborts, SetsMountPort,
       SetsNfsPort, AddMountHandle, GetRoot, Lookup, ExitMain, ServerAnswers,
       Arrives, ConnectionEnds, Ended
<1> QED
  BY <1>1, ClientInvariance, PTL DEF ClientSpec, LearnsServersPorts

\* A handle joins mountHandle, after a receive that succeeded, only when the
\* mount service has granted it or has answered with data in the verifier
\* (Mount.cpp:64-76, rpc.hpp:103).
THEOREM HandleIsGrantedHolds == ClientSpec => HandleIsGranted
<1> DEFINE Step == (rc = 0 /\ mountHandle' # mountHandle /\ ~ Answered("VERIFIED"))
        => \E h \in Handles : Replied(h) /\ mountHandle' = Append(mountHandle, h)
<1>1. ClientIInv /\ [ClientNext]_clientVars => [Step]_clientVars
  <2> SUFFICES ASSUME ClientIInv, ClientNext, rc = 0, mountHandle' # mountHandle,
                      ~ Answered("VERIFIED")
               PROVE  \E h \in Handles :
                         Replied(h) /\ mountHandle' = Append(mountHandle, h)
    OBVIOUS
  <2>1. ReturnMounted
    BY DEF ClientNext, Client, BeginGetPort, BeginMountOp, Sends,
       KilledBySend, StartsReceive, Receives, ReturnMountPort, ReturnNfsPort,
       ReturnMountFailed, MountAsserts, MountRunsAway, ReturnUmount, ParseAborts,
       SetsMountPort, SetsNfsPort, AddMountHandle, GetRoot, Lookup, ExitMain,
       ServerAnswers, Arrives, ConnectionEnds, Ended
  <2>2. exit = "running" /\ HasPayload /\ Script[at] = "makeMountCall"
    BY <2>1 DEF ReturnMounted, Line
  <2>3. call.op = "makeMountCall"
    BY <2>2, AcceptedReply
  <2>4. PICK i \in 1 .. Len(replies) :
              /\ replies[i].req = call
              /\ replies[i].status = "SUCCESS"
              /\ replies[i].value \in Results(call.op) \cup Refusals(call.op)
              /\ WordIsWhole(3)
              /\ WordReply(3) = replies[i]
    BY <2>2, AcceptedReply
  <2>5. replies[i].value \in Handles \cup {Denied}
    BY <2>3, <2>4 DEF Results, Refusals, PortMapperOps
  <2>6. ResultIsOf(Handles \cup {Denied})
    BY <2>4, <2>5 DEF ResultIsOf
  <2>7. ValuesRead(Handles \cup {Denied}) = {replies[i].value}
    BY <2>4, <2>6 DEF ValuesRead
  <2>8. /\ replies[i].value \in Handles
        /\ mountHandle' = Append(mountHandle, replies[i].value)
    BY <2>1, <2>4, <2>5, <2>6, <2>7 DEF ReturnMounted
  <2> QED
    BY <2>4, <2>8 DEF Replied
<1> QED
  BY <1>1, ClientInvariance, PTL DEF ClientSpec, HandleIsGranted

\* After a receive that succeeded, the server's answer to this very call is what
\* ends the process, in one of three ways (Mount.cpp:66-82, rpc.hpp:84-103).
THEOREM OnlyTheReplyEndsCallHolds == ClientSpec => OnlyTheReplyEndsCall
<1> DEFINE Ends == \/ exit' = "aborted" /\ Line("makeMountCall") /\ NullPayload
                   \/ exit' = "aborted" /\ Answered("UNKNOWN")
                   \/ exit' = "crashed" /\ Line("makeMountCall") /\ Answered("VERIFIED")
<1> DEFINE Step == (rc = 0 /\ Received /\ exit = "running" /\ exit' # "running") => Ends
<1>1. ClientIInv /\ [ClientNext]_clientVars => [Step]_clientVars
  <2> SUFFICES ASSUME ClientIInv, ClientNext, rc = 0, Received,
                      exit = "running", exit' # "running"
               PROVE  Ends
    OBVIOUS
  <2>1. stage = "reply" /\ at \in 1 .. Len(Script) /\ Len(Script) \in Nat
    BY ScriptAssumption DEF Received, ClientIInv, CallOfLine, Calling
  <2>2. MountAsserts \/ MountRunsAway \/ ParseAborts
    BY <2>1 DEF ClientNext, Client, BeginGetPort, BeginMountOp, Sends, Starts,
       KilledBySend, StartsReceive, Receives, ReturnMountPort, ReturnNfsPort,
       ReturnMounted, ReturnMountFailed, ReturnUmount, SetsMountPort,
       SetsNfsPort, AddMountHandle, GetRoot, Lookup, ExitMain,
       ServerAnswers, Arrives, ConnectionEnds, Ended
  <2>3. CASE MountAsserts
    BY <2>3 DEF MountAsserts
  <2>4. CASE MountRunsAway
    <3>1. /\ Line("makeMountCall") /\ HasPayload /\ exit' = "crashed"
          /\ ~ ResultIsOf(Handles \cup {Denied})
      BY <2>4 DEF MountRunsAway
    <3>2. call.op = "makeMountCall"
      BY <3>1, AcceptedReply DEF Line
    <3>3. ASSUME NEW i \in 1 .. Len(replies),
                 /\ replies[i].req = call
                 /\ replies[i].status = "SUCCESS"
                 /\ replies[i].value \in Results(call.op) \cup Refusals(call.op)
                 /\ WordIsWhole(3)
                 /\ WordReply(3) = replies[i]
          PROVE  FALSE
      <4>1. replies[i].value \in Handles \cup {Denied}
        BY <3>2, <3>3 DEF Results, Refusals, PortMapperOps
      <4> QED
        BY <3>1, <3>3, <4>1 DEF ResultIsOf
    <3>4. Answered("VERIFIED")
      BY <3>1, <3>3, AcceptedReply
    <3> QED
      BY <3>1, <3>4
  <2>5. CASE ParseAborts
    <3>1. XidMatches /\ "UNKNOWN" \in StatusesRead /\ exit' = "aborted"
      BY <2>5 DEF ParseAborts, ParseAsserts
    <3>2. RpcIInv
      BY DEF ClientIInv
    <3>3. PICK i \in 1 .. Len(replies) :
              /\ replies[i] \in Reply
              /\ replies[i].req = call
              /\ WordIsWhole(2) /\ WordReply(2) = replies[i]
              /\ WordIsWhole(3) /\ WordReply(3) = replies[i]
      BY <3>1, <3>2, OwnReply
    <3>4. replies[i].status = "UNKNOWN"
      BY <3>1, <3>3 DEF StatusesRead
    <3> QED
      BY <3>1, <3>3, <3>4 DEF Answered
  <2> QED
    BY <2>2, <2>3, <2>4, <2>5
<1> QED
  BY <1>1, ClientInvariance, PTL DEF ClientSpec, OnlyTheReplyEndsCall

\* A request leaves on a connection to the service it is for, except over
\* descriptor 0 (PortMapperContext.cpp:9, Mount.cpp:9, 88, Context.cpp:75).
THEOREM RequestGoesToItsServiceHolds == ClientSpec => RequestGoesToItsService
<1> DEFINE Step == Len(sent') > Len(sent)
                      => peer = PortFor(call.op) \/ socketFd = 0
<1>1. ClientIInv /\ [ClientNext]_clientVars => [Step]_clientVars
  <2> SUFFICES ASSUME ClientIInv, [ClientNext]_clientVars,
                      Len(sent') > Len(sent), socketFd # 0
               PROVE  peer = PortFor(call.op)
    OBVIOUS
  <2>1. Len(sent) \in Nat
    BY DEF ClientIInv, RpcIInv, IInv, TypeOK
  <2>2. [RpcNext]_rpcVars
    BY ClientStepIsRpcStep DEF ClientIInv
  <2>3. ~ (sent' = sent \/ sent' = <<>>)
    BY <2>1
  <2>4. SendRequest
    <3>1. ~ (ConnectPortMapperPort \/ ConnectMountPort \/ ConnectNfsPort)
      BY <2>3 DEF ConnectPortMapperPort, ConnectMountPort, ConnectNfsPort,
            Connect, OpenSocket, FreshStream
    <3> QED
      BY <2>2, <2>3, <3>1 DEF RpcNext, BeginReceive, StartReceive,
         ReceiveBadSocket, ReceiveLoop, Recv, RecvError, RecvNothing, Return,
         SetMountPort, SetNfsPort, Environment, ServerReply, Deliver,
         ServerClose, ConnReset
  <2>5. stage = "send" /\ link \in Established
    BY <2>3, <2>4 DEF SendRequest, Send, SendAccepted, SendFailed, Established
  <2> QED
    BY <2>5 DEF ClientIInv, ConnectedForCall, RpcIInv, IInv, TalksToPort
<1> QED
  BY <1>1, ClientInvariance, PTL DEF ClientSpec, RequestGoesToItsService
=============================================================================
