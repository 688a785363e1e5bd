--------------------------- MODULE ContextProofs ---------------------------
(***************************************************************************)
(* Proofs about Context, for every set of descriptors, ports, requests and *)
(* replies, every fault and every bound.                                   *)
(***************************************************************************)
EXTENDS Context, TLAPS

USE DEF NoPort, BadSocket, HeaderCells, BodyCells, FrameCells

-----------------------------------------------------------------------------
(***************************************************************************)
(* The frame arithmetic.                                                   *)
(***************************************************************************)

\* A cell within the replies written so far belongs to one of them.
LEMMA FrameOfCell ==
    ASSUME NEW n \in Nat, NEW k \in 1 .. FrameCells * n
    PROVE  /\ (k - 1) % FrameCells \in 0 .. FrameCells - 1
           /\ (k - 1) \div FrameCells + 1 \in 1 .. n
OBVIOUS

\* The cells after a mark are the body of one reply, in order.
LEMMA CellsAfterMark ==
    ASSUME NEW s \in Nat, s % FrameCells = HeaderCells, NEW j \in 1 .. BodyCells
    PROVE  /\ (s + j - 1) % FrameCells = HeaderCells + j - 1
           /\ (s + j - 1) \div FrameCells = s \div FrameCells
OBVIOUS

\* A message that starts after a mark ends at a message boundary.
LEMMA BodyEndsFrame ==
    ASSUME NEW s \in Nat, s % FrameCells = HeaderCells
    PROVE  (s + BodyCells) % FrameCells = 0
OBVIOUS

\* What recv delivers is a cell of a reply (Context.cpp:146).
LEMMA CellAtType ==
    ASSUME replies \in Seq(Reply), NEW k \in 1 .. FrameCells * Len(replies)
    PROVE  CellAt(k) \in Cell
<1>1. Len(replies) \in Nat
  OBVIOUS
<1>2. /\ (k - 1) % FrameCells \in 0 .. FrameCells - 1
      /\ (k - 1) \div FrameCells + 1 \in 1 .. Len(replies)
  BY <1>1, FrameOfCell
<1>3. replies[(k - 1) \div FrameCells + 1] \in Reply
  BY <1>2
<1> QED
  BY <1>2, <1>3 DEF CellAt, Cell

-----------------------------------------------------------------------------
(***************************************************************************)
(* One lemma per group of steps for the types and for the strengthening.   *)
(***************************************************************************)
USE DEF socketVars, streamVars, receiveVars, portVars, vars

\* connect's choice of a socket keeps the types and the socket invariants.
LEMMA OpenSocketTypes ==
    ASSUME TypeOK, NEW p \in Ports \cup {NoPort}, NEW open \in SUBSET Fds,
           OpenSocket(p, open)
    PROVE  /\ socketFd' \in Fds \cup {BadSocket}
           /\ connectError' \in {0, -1}
           /\ openFds' \subseteq Fds
           /\ link' \in {"none", "open", "unconnected"}
           /\ peer' \in Ports \cup {NoPort}
           /\ FreshStream
<1>1. CASE NoSocket(p, open)
  BY <1>1 DEF OpenSocket, NoSocket, TypeOK
<1>2. ASSUME NEW f \in Fds \ open, Accepted(p, open, f)
      PROVE  /\ socketFd' \in Fds \cup {BadSocket}
             /\ connectError' \in {0, -1}
             /\ openFds' \subseteq Fds
             /\ link' \in {"none", "open", "unconnected"}
             /\ peer' \in Ports \cup {NoPort}
  BY <1>2 DEF Accepted, TypeOK
<1>3. ASSUME NEW f \in Fds \ open, Refused(p, open, f)
      PROVE  /\ socketFd' \in Fds \cup {BadSocket}
             /\ connectError' \in {0, -1}
             /\ openFds' \subseteq Fds
             /\ link' \in {"none", "open", "unconnected"}
             /\ peer' \in Ports \cup {NoPort}
  BY <1>3 DEF Refused, TypeOK
<1> QED
  BY <1>1, <1>2, <1>3 DEF OpenSocket

\* The stream's variables have their types on a new connection.
LEMMA FreshStreamTypes ==
    ASSUME FreshStream
    PROVE  /\ totalSent' \in Nat
           /\ totalReceived' \in Nat
           /\ sent' \in Seq(Requests)
           /\ answered' \subseteq 1 .. Len(sent')
           /\ replies' \in Seq(Reply)
           /\ arrived' \in Nat
BY DEF FreshStream

\* connect(newPort), which three other operations are made of.
LEMMA ConnectTypes ==
    ASSUME TypeOK, NEW p \in Ports \cup {NoPort}, Connect(p)
    PROVE  TypeOK'
<1>1. CASE socketFd > 0 \/ socketFd = BadSocket
  <2>1. OpenSocket(p, openFds \ {socketFd})
    BY <1>1 DEF Connect
  <2>2. openFds \ {socketFd} \in SUBSET Fds
    BY DEF TypeOK
  <2>3. /\ socketFd' \in Fds \cup {BadSocket}
        /\ connectError' \in {0, -1}
        /\ openFds' \subseteq Fds
        /\ link' \in {"none", "open", "unconnected"}
        /\ peer' \in Ports \cup {NoPort}
        /\ FreshStream
    BY <2>1, <2>2, OpenSocketTypes
  <2> QED
    BY <2>3, FreshStreamTypes DEF Connect, TypeOK, Established
<1>2. CASE ~(socketFd > 0 \/ socketFd = BadSocket)
  BY <1>2 DEF Connect, TypeOK
<1> QED
  BY <1>1, <1>2

\* The bytes recv delivers have the type of a buffer's.
LEMMA FilledType ==
    ASSUME TypeOK, StreamCounted, phase # "idle" => size - pending <= totalReceived,
           phase # "idle", pending \in 1 .. size,
           NEW n \in 1 .. pending, n <= Available
    PROVE  Filled(n) \in [1 .. BodyCells -> Cell \cup {Junk}]
<1> DEFINE have == size - pending
<1>1. /\ replies \in Seq(Reply)
      /\ size \in Nat /\ pending \in Nat /\ totalReceived \in Nat
      /\ arrived \in Nat
      /\ wireBytes \in [1 .. BodyCells -> Cell \cup {Junk}]
  BY DEF TypeOK
<1>2. Len(replies) \in Nat
  BY <1>1
<1>3. ASSUME NEW j \in 1 .. BodyCells, have < j, j <= have + n
      PROVE  CellAt(totalReceived + j - have) \in Cell
  <2>1. totalReceived + j - have \in 1 .. FrameCells * Len(replies)
    BY <1>1, <1>2, <1>3 DEF StreamCounted, Available
  <2> QED
    BY <2>1, <1>1, CellAtType
<1> QED
  BY <1>1, <1>3 DEF Filled

-----------------------------------------------------------------------------
(***************************************************************************)
(* Each step keeps the inductive invariant.                                *)
(***************************************************************************)

\* A new socket is the only one, its connection is to the port asked for,
\* and connectError tells whether it was made (Context.cpp:33-42).
LEMMA OpenSocketInv ==
    ASSUME IInv, NEW p \in Ports \cup {NoPort}, phase = "idle", port' = p,
           socketFd > 0 \/ socketFd = BadSocket,
           OpenSocket(p, openFds \ {socketFd})
    PROVE  OneSocket' /\ TalksToPort' /\ StatusTruthful' /\ LinkInv'
<1> DEFINE open == openFds \ {socketFd}
<1>1. open = {}
  BY DEF IInv, OneSocket
<1>2. BadSocket \notin Fds
  BY FdsAssumption
<1>3. CASE NoSocket(p, open)
  BY <1>1, <1>3 DEF OpenSocket, NoSocket, FreshStream, OneSocket, TalksToPort,
        StatusTruthful, LinkInv, Established
<1>4. ASSUME NEW f \in Fds \ open, Accepted(p, open, f)
      PROVE  OneSocket' /\ TalksToPort' /\ StatusTruthful' /\ LinkInv'
  BY <1>1, <1>2, <1>4 DEF OpenSocket, Accepted, FreshStream, OneSocket,
        TalksToPort, StatusTruthful, LinkInv, Established
<1>5. ASSUME NEW f \in Fds \ open, Refused(p, open, f)
      PROVE  OneSocket' /\ TalksToPort' /\ StatusTruthful' /\ LinkInv'
  BY <1>1, <1>2, <1>5 DEF OpenSocket, Refused, FreshStream, OneSocket,
        TalksToPort, StatusTruthful, LinkInv, Established
<1> QED
  BY <1>3, <1>4, <1>5 DEF OpenSocket

\* A new connection has carried nothing, and everything counted is counted.
LEMMA FreshStreamCounted ==
    ASSUME FreshStream
    PROVE  StreamCounted'
BY DEF FreshStream, StreamCounted

\* connect(newPort) (Context.cpp:66-71).
LEMMA ConnectInv ==
    ASSUME IInv, NEW p \in Ports \cup {NoPort}, Connect(p)
    PROVE  IInv'
<1>1. TypeOK'
  BY ConnectTypes DEF IInv
<1>2. ReceiveInv' /\ WholeReply'
  BY DEF IInv, Connect, ReceiveInv, WholeReply
<1>3. CASE socketFd > 0 \/ socketFd = BadSocket
  <2>1. OpenSocket(p, openFds \ {socketFd}) /\ phase = "idle" /\ port' = p
    BY <1>3 DEF Connect
  <2>2. OneSocket' /\ TalksToPort' /\ StatusTruthful' /\ LinkInv'
    BY <1>3, <2>1, OpenSocketInv
  <2>3. StreamCounted'
    BY <2>1, FreshStreamCounted DEF OpenSocket
  <2> QED
    BY <1>1, <1>2, <2>2, <2>3 DEF IInv
<1>4. CASE ~(socketFd > 0 \/ socketFd = BadSocket)
  <2>1. socketFd = 0
    BY <1>4, FdsAssumption DEF IInv, TypeOK
  <2>2. OneSocket' /\ TalksToPort' /\ StatusTruthful' /\ LinkInv'
    BY <1>4, <2>1 DEF IInv, Connect, OneSocket, TalksToPort, StatusTruthful,
          LinkInv
  <2>3. StreamCounted'
    BY <1>4 DEF IInv, Connect, StreamCounted
  <2> QED
    BY <1>1, <1>2, <2>2, <2>3 DEF IInv
<1> QED
  BY <1>3, <1>4

\* connect() without a socket (Context.cpp:12-64).
LEMMA ReconnectInv ==
    ASSUME IInv, Reconnect
    PROVE  IInv'
<1>1. /\ phase = "idle" /\ socketFd = BadSocket /\ port' = port
      /\ port \in Ports \cup {NoPort}
      /\ openFds \ {socketFd} = openFds
      /\ openFds \in SUBSET Fds
  BY DEF Reconnect, IInv, TypeOK, OneSocket
<1>2. OpenSocket(port, openFds \ {socketFd})
  BY <1>1 DEF Reconnect
<1>3. OneSocket' /\ TalksToPort' /\ StatusTruthful' /\ LinkInv'
  BY <1>1, <1>2, OpenSocketInv
<1>4. /\ socketFd' \in Fds \cup {BadSocket}
      /\ connectError' \in {0, -1}
      /\ openFds' \subseteq Fds
      /\ link' \in {"none", "open", "unconnected"}
      /\ peer' \in Ports \cup {NoPort}
      /\ FreshStream
  BY <1>1, <1>2, OpenSocketTypes DEF IInv
<1>5. TypeOK'
  BY <1>1, <1>4, FreshStreamTypes DEF Reconnect, IInv, TypeOK, Established
<1>6. StreamCounted'
  BY <1>4, FreshStreamCounted
<1>7. ReceiveInv' /\ WholeReply'
  BY DEF IInv, Reconnect, ReceiveInv, WholeReply
<1> QED
  BY <1>3, <1>5, <1>6, <1>7 DEF IInv

\* disconnect (Context.cpp:73-83).
LEMMA DisconnectInv ==
    ASSUME IInv, Disconnect
    PROVE  IInv'
<1>1. FreshStream
  BY DEF Disconnect
<1>2. TypeOK'
  BY <1>1, FreshStreamTypes DEF IInv, TypeOK, Disconnect
<1>3. StreamCounted'
  BY <1>1, FreshStreamCounted
<1>4. OneSocket' /\ TalksToPort' /\ StatusTruthful' /\ LinkInv'
  BY <1>1 DEF IInv, Disconnect, OneSocket, TalksToPort, StatusTruthful,
        LinkInv, FreshStream, Established
<1>5. ReceiveInv' /\ WholeReply'
  BY DEF IInv, Disconnect, ReceiveInv, WholeReply
<1> QED
  BY <1>2, <1>3, <1>4, <1>5 DEF IInv

\* Steps that change neither the socket, nor the stream, nor receive.
LEMMA OthersInv ==
    ASSUME IInv, UNCHANGED <<socketVars, streamVars, receiveVars>>,
           mountPort' \in Ports \cup {NoPort}, nfsPort' \in Ports \cup {NoPort}
    PROVE  IInv'
<1>1. TypeOK'
  BY DEF IInv, TypeOK
<1>2. OneSocket' /\ TalksToPort' /\ StatusTruthful' /\ LinkInv' /\ StreamCounted'
  BY DEF IInv, OneSocket, TalksToPort, StatusTruthful, LinkInv, StreamCounted
<1>3. ReceiveInv' /\ WholeReply'
  BY DEF IInv, ReceiveInv, WholeReply, MessageStart, CellAt
<1> QED
  BY <1>1, <1>2, <1>3 DEF IInv

\* send (Context.cpp:85-119).
LEMMA SendInv ==
    ASSUME IInv, NEW req \in Requests, Send(req)
    PROVE  IInv'
<1>1. CASE SendAccepted(req)
  <2>1. /\ sent' \in Seq(Requests)
        /\ Len(sent') = Len(sent) + 1
        /\ Len(sent) \in Nat
    BY <1>1 DEF SendAccepted, IInv, TypeOK
  <2>2. TypeOK'
    BY <1>1, <2>1 DEF SendAccepted, Send, IInv, TypeOK
  <2>3. OneSocket' /\ TalksToPort' /\ StatusTruthful' /\ LinkInv'
    BY <1>1 DEF SendAccepted, Send, IInv, OneSocket, TalksToPort,
          StatusTruthful, LinkInv
  <2>4. StreamCounted'
    BY <1>1, <2>1 DEF SendAccepted, Send, IInv, StreamCounted
  <2>5. ReceiveInv' /\ WholeReply'
    BY <1>1 DEF SendAccepted, Send, IInv, ReceiveInv, WholeReply
  <2> QED
    BY <2>2, <2>3, <2>4, <2>5 DEF IInv
<1>2. CASE SendFailed
  <2>1. TypeOK'
    BY <1>2 DEF SendFailed, Send, IInv, TypeOK, Established
  <2>2. OneSocket' /\ TalksToPort' /\ StatusTruthful' /\ LinkInv' /\ StreamCounted'
    BY <1>2 DEF SendFailed, Send, IInv, OneSocket, TalksToPort, StatusTruthful,
          LinkInv, StreamCounted, Established
  <2>3. ReceiveInv' /\ WholeReply'
    BY <1>2 DEF SendFailed, Send, IInv, ReceiveInv, WholeReply
  <2> QED
    BY <2>1, <2>2, <2>3 DEF IInv
<1> QED
  BY <1>1, <1>2 DEF Send

\* A caller's new buffer has the type of one.
LEMMA NewBufferType ==
    ASSUME TypeOK, NewBuffer
    PROVE  wireBytes' \in [1 .. BodyCells -> Cell \cup {Junk}]
BY DEF TypeOK, NewBuffer

\* receive, up to its loop (Context.cpp:121-143).
LEMMA StartReceiveInv ==
    ASSUME IInv, StartReceive
    PROVE  IInv'
<1>1. TypeOK'
  BY NewBufferType DEF IInv, TypeOK, StartReceive
<1>2. OneSocket' /\ TalksToPort' /\ StatusTruthful' /\ LinkInv' /\ StreamCounted'
  BY DEF IInv, StartReceive, OneSocket, TalksToPort, StatusTruthful, LinkInv,
        StreamCounted
<1>3. ReceiveInv' /\ WholeReply'
  BY DEF IInv, TypeOK, StartReceive, ReceiveInv, WholeReply
<1> QED
  BY <1>1, <1>2, <1>3 DEF IInv

\* receive without a socket (Context.cpp:123-126).
LEMMA ReceiveBadSocketInv ==
    ASSUME IInv, ReceiveBadSocket
    PROVE  IInv'
<1>1. TypeOK'
  BY NewBufferType DEF IInv, TypeOK, ReceiveBadSocket
<1>2. OneSocket' /\ TalksToPort' /\ StatusTruthful' /\ LinkInv' /\ StreamCounted'
  BY DEF IInv, ReceiveBadSocket, OneSocket, TalksToPort, StatusTruthful,
        LinkInv, StreamCounted
<1>3. ReceiveInv' /\ WholeReply'
  BY DEF IInv, ReceiveBadSocket, ReceiveInv, WholeReply
<1> QED
  BY <1>1, <1>2, <1>3 DEF IInv

\* recv fails (Context.cpp:147-154).
LEMMA RecvErrorInv ==
    ASSUME IInv, RecvError
    PROVE  IInv'
<1>1. TypeOK'
  BY DEF IInv, TypeOK, RecvError, Established
<1>2. OneSocket' /\ TalksToPort' /\ StatusTruthful' /\ LinkInv' /\ StreamCounted'
  BY DEF IInv, RecvError, OneSocket, TalksToPort, StatusTruthful, LinkInv,
        StreamCounted, Established
<1>3. ReceiveInv' /\ WholeReply'
  BY DEF IInv, RecvError, ReceiveInv, WholeReply
<1> QED
  BY <1>1, <1>2, <1>3 DEF IInv

-----------------------------------------------------------------------------
(***************************************************************************)
(* The environment's steps.                                                *)
(***************************************************************************)

\* A reply appended to the stream changes none of the cells already there.
LEMMA ServerReplyInv ==
    ASSUME IInv, NEW i \in 1 .. Len(sent), NEW status \in Statuses,
           NEW value \in Values, ServerReply(i, status, value)
    PROVE  IInv'
<1> DEFINE r == [req |-> sent[i], status |-> status, value |-> value]
<1>1. /\ r \in Reply
      /\ replies \in Seq(Reply)
      /\ Len(replies) \in Nat
      /\ totalReceived \in Nat /\ arrived \in Nat
      /\ size \in Nat /\ pending \in Nat
  BY DEF IInv, TypeOK, Reply
<1>2. replies' = Append(replies, r)
  BY DEF ServerReply
<1>3. /\ replies' \in Seq(Reply)
      /\ Len(replies') = Len(replies) + 1
      /\ \A k \in 1 .. Len(replies) : replies'[k] = replies[k]
  BY <1>1, <1>2
<1>4. TypeOK'
  BY <1>3 DEF IInv, TypeOK, ServerReply
<1>5. OneSocket' /\ TalksToPort' /\ StatusTruthful' /\ LinkInv'
  BY DEF IInv, ServerReply, OneSocket, TalksToPort, StatusTruthful, LinkInv,
        Established
<1>6. StreamCounted'
  BY <1>1, <1>3 DEF IInv, ServerReply, StreamCounted
<1>7. WholeReply'
  BY DEF IInv, ServerReply, WholeReply
<1>8. ReceiveInv'
  <2>1. ASSUME phase = "body", NEW j \in 1 .. BodyCells, j <= size - pending
        PROVE  wireBytes'[j] = CellAt(MessageStart + j)'
    <3>1. MessageStart + j \in 1 .. FrameCells * Len(replies)
      BY <1>1, <2>1 DEF IInv, ReceiveInv, StreamCounted, MessageStart
    <3>2. CellAt(MessageStart + j)' = CellAt(MessageStart + j)
      BY <1>1, <1>3, <3>1, FrameOfCell DEF CellAt, MessageStart, ServerReply
    <3> QED
      BY <2>1, <3>2 DEF IInv, ReceiveInv, ServerReply
  <2> QED
    BY <2>1 DEF IInv, ReceiveInv, ServerReply, MessageStart
<1> QED
  BY <1>4, <1>5, <1>6, <1>7, <1>8 DEF IInv

\* What arrives changes nothing of what was received.
LEMMA DeliverInv ==
    ASSUME IInv, Deliver
    PROVE  IInv'
<1>1. /\ arrived \in Nat /\ totalReceived \in Nat /\ Len(replies) \in Nat
      /\ arrived' \in Nat
      /\ arrived < arrived'
      /\ arrived' <= FrameCells * Len(replies)
  BY DEF IInv, TypeOK, Deliver
<1>2. TypeOK'
  BY <1>1 DEF IInv, TypeOK, Deliver
<1>3. OneSocket' /\ TalksToPort' /\ StatusTruthful' /\ LinkInv'
  BY DEF IInv, Deliver, OneSocket, TalksToPort, StatusTruthful, LinkInv
<1>4. StreamCounted'
  BY <1>1 DEF IInv, Deliver, StreamCounted
<1>5. ReceiveInv' /\ WholeReply'
  BY DEF IInv, Deliver, ReceiveInv, WholeReply, MessageStart, CellAt
<1> QED
  BY <1>2, <1>3, <1>4, <1>5 DEF IInv

\* A FIN or a RST changes the state of the connection only.
LEMMA LinkLostInv ==
    ASSUME IInv, ServerClose \/ ConnReset
    PROVE  IInv'
<1>1. TypeOK'
  BY DEF IInv, TypeOK, ServerClose, ConnReset, Established
<1>2. OneSocket' /\ TalksToPort' /\ StatusTruthful' /\ LinkInv' /\ StreamCounted'
  BY DEF IInv, ServerClose, ConnReset, OneSocket, TalksToPort, StatusTruthful,
        LinkInv, StreamCounted, Established
<1>3. ReceiveInv' /\ WholeReply'
  BY DEF IInv, ServerClose, ConnReset, ReceiveInv, WholeReply, MessageStart,
        CellAt
<1> QED
  BY <1>1, <1>2, <1>3 DEF IInv

-----------------------------------------------------------------------------
(***************************************************************************)
(* recv takes cells off the stream (Context.cpp:145-175).                  *)
(***************************************************************************)

\* The cells recv puts in the buffer continue the message where it stood.
LEMMA FilledHolds ==
    ASSUME IInv, phase = "body", NEW n \in 1 .. pending, n <= Available
    PROVE  \A j \in 1 .. BodyCells :
              j <= size - pending + n => Filled(n)[j] = CellAt(MessageStart + j)
<1>1. /\ size \in Nat /\ pending \in Nat /\ totalReceived \in Nat
      /\ \A j \in 1 .. BodyCells :
            j <= size - pending => wireBytes[j] = CellAt(MessageStart + j)
  BY DEF IInv, TypeOK, ReceiveInv
<1>2. ASSUME NEW j \in 1 .. BodyCells, j <= size - pending + n
      PROVE  Filled(n)[j] = CellAt(MessageStart + j)
  <2>1. CASE j <= size - pending
    BY <1>1, <2>1 DEF Filled
  <2>2. CASE ~(j <= size - pending)
    <3>1. totalReceived + j - (size - pending) = MessageStart + j
      BY <1>1 DEF MessageStart
    <3> QED
      BY <1>1, <1>2, <2>2, <3>1 DEF Filled
  <2> QED
    BY <2>1, <2>2
<1> QED
  BY <1>2

\* A message that begins with an xid is a whole reply.
LEMMA WholeMessage ==
    ASSUME IInv, phase = "body", NEW n \in 1 .. pending, n <= Available,
           n = pending, Filled(n)[1].at = HeaderCells
    PROVE  Filled(n) = Body(Filled(n)[1].reply)
<1> DEFINE s == MessageStart
           r == replies[s \div FrameCells + 1]
<1>1. /\ size \in Nat /\ pending \in 1 .. size /\ totalReceived \in Nat
      /\ arrived \in Nat /\ Len(replies) \in Nat /\ replies \in Seq(Reply)
      /\ size - pending <= totalReceived
      /\ totalReceived + n <= FrameCells * Len(replies)
      /\ s \in Nat
  BY DEF IInv, TypeOK, ReceiveInv, StreamCounted, Available, MessageStart
<1>2. Filled(n)[1] = CellAt(s + 1)
  BY <1>1, FilledHolds
<1>3. s % FrameCells = HeaderCells
  BY <1>1, <1>2 DEF CellAt
<1>4. size = BodyCells
  BY <1>3 DEF IInv, ReceiveInv
<1>5. s + BodyCells <= FrameCells * Len(replies)
  BY <1>1, <1>4 DEF MessageStart
<1>6. ASSUME NEW j \in 1 .. BodyCells
      PROVE  Filled(n)[j] = Body(r)[j]
  <2>0. j <= size - pending + n
    BY <1>1, <1>4
  <2>1. Filled(n)[j] = CellAt(s + j)
    BY <2>0, FilledHolds
  <2>2. /\ (s + j - 1) % FrameCells = HeaderCells + j - 1
        /\ (s + j - 1) \div FrameCells = s \div FrameCells
    BY <1>1, <1>3, CellsAfterMark
  <2>3. CellAt(s + j) = [at |-> HeaderCells + j - 1, reply |-> r]
    <3>1. s + j - 1 + 1 = s + j /\ CellAt(s + j) =
             [at |-> (s + j - 1) % FrameCells,
              reply |-> replies[(s + j - 1) \div FrameCells + 1]]
      BY <1>1 DEF CellAt
    <3> QED
      BY <2>2, <3>1, Zenon
  <2>4. Body(r)[j] = [at |-> HeaderCells + j - 1, reply |-> r]
    BY DEF Body
  <2> HIDE DEF r, s
  <2> QED
    BY <2>1, <2>3, <2>4, Zenon
<1>7. Filled(n) = Body(r)
  BY <1>6 DEF Filled, Body
<1>8. Filled(n)[1].reply = r
  BY <1>7 DEF Body
<1> QED
  BY <1>7, <1>8

\* A recv that returns data (Context.cpp:155-173).
LEMMA RecvInv ==
    ASSUME IInv, Recv
    PROVE  IInv'
<1> DEFINE n == IF pending <= Available THEN pending ELSE Available
<1>1. /\ phase \in {"header", "body"}
      /\ n > 0
      /\ totalReceived' = totalReceived + n
      /\ RecvPartOfHeader(n) \/ RecvEndOfHeader(n) \/ RecvBody(n)
      /\ UNCHANGED <<socketVars, totalSent, sent, answered, replies, arrived,
                     portVars>>
  BY DEF Recv
<1>2. /\ size \in Nat /\ pending \in 1 .. size
      /\ totalReceived \in Nat /\ arrived \in Nat
      /\ size - pending <= totalReceived
      /\ socketFd # BadSocket
      /\ n \in 1 .. pending
      /\ n <= Available
  BY <1>1 DEF IInv, TypeOK, ReceiveInv, Available
<1> HIDE DEF n
<1>3. Filled(n) \in [1 .. BodyCells -> Cell \cup {Junk}]
  BY <1>1, <1>2, FilledType DEF IInv
<1>4. OneSocket' /\ TalksToPort' /\ StatusTruthful' /\ LinkInv'
  BY <1>1 DEF IInv, OneSocket, TalksToPort, StatusTruthful, LinkInv
<1>5. StreamCounted'
  BY <1>1, <1>2 DEF IInv, StreamCounted, Available
<1>6. CASE RecvPartOfHeader(n)
  <2>1. TypeOK'
    BY <1>1, <1>2, <1>3, <1>6 DEF IInv, TypeOK, RecvPartOfHeader
  <2>2. ReceiveInv' /\ WholeReply'
    BY <1>1, <1>2, <1>6 DEF IInv, RecvPartOfHeader, ReceiveInv, WholeReply
  <2> QED
    BY <1>4, <1>5, <2>1, <2>2 DEF IInv
<1>7. CASE RecvEndOfHeader(n)
  <2>1. PICK d \in Decoded(totalReceived + n) :
           /\ size' = d
           /\ pending' = d
           /\ IF d = 0
              THEN /\ phase' = "idle"
                   /\ rc' = 0
                   /\ wireBytes' = [Filled(n) EXCEPT ![1] = Junk, ![2] = Junk]
              ELSE /\ phase' = "body"
                   /\ rc' = rc
                   /\ wireBytes' = Filled(n)
    BY <1>7 DEF RecvEndOfHeader
  <2>2. /\ d \in Nat
        /\ (totalReceived + n) % FrameCells = HeaderCells => d = BodyCells
    BY BoundsAssumption DEF Decoded
  <2>3. wireBytes' \in [1 .. BodyCells -> Cell \cup {Junk}]
    BY <1>3, <2>1
  <2>4. TypeOK'
    BY <1>1, <1>2, <2>1, <2>2, <2>3 DEF IInv, TypeOK
  <2>5. ReceiveInv'
    BY <1>1, <1>2, <2>1, <2>2 DEF ReceiveInv, MessageStart
  <2>6. WholeReply'
    <3>1. CASE d = 0
      BY <1>3, <2>1, <3>1 DEF WholeReply, Junk
    <3>2. CASE d # 0
      BY <2>1, <3>2 DEF WholeReply
    <3> QED
      BY <3>1, <3>2
  <2> QED
    BY <1>4, <1>5, <2>4, <2>5, <2>6 DEF IInv
<1>8. CASE RecvBody(n)
  <2>1. /\ phase = "body" /\ size' = size /\ pending' = pending - n
        /\ wireBytes' = Filled(n)
        /\ n = pending => phase' = "idle" /\ rc' = 0
        /\ n # pending => phase' = "body" /\ rc' = rc
    BY <1>8 DEF RecvBody
  <2>2. TypeOK'
    BY <1>1, <1>2, <1>3, <2>1 DEF IInv, TypeOK
  <2>3. ReceiveInv'
    <3>1. CASE n = pending
      BY <2>1, <3>1 DEF ReceiveInv
    <3>2. CASE n # pending
      <4>1. MessageStart' = MessageStart
        BY <1>1, <1>2, <2>1 DEF MessageStart
      <4>2. size' - pending' = size - pending + n
        BY <1>2, <2>1
      <4>3. \A j \in 1 .. BodyCells : j <= size' - pending' =>
               wireBytes'[j] = CellAt(MessageStart + j)
        BY <1>2, <2>1, <4>2, FilledHolds
      <4>4. \A j \in 1 .. BodyCells : j <= size' - pending' =>
               wireBytes'[j] = CellAt(MessageStart + j)'
        BY <1>1, <4>1, <4>3 DEF CellAt
      <4> QED
        BY <1>1, <1>2, <2>1, <3>2, <4>1, <4>4 DEF IInv, ReceiveInv
    <3> QED
      BY <3>1, <3>2
  <2>4. WholeReply'
    <3>1. CASE n = pending
      BY <1>2, <2>1, <3>1, WholeMessage DEF WholeReply
    <3>2. CASE n # pending
      BY <2>1, <3>2 DEF WholeReply
    <3> QED
      BY <3>1, <3>2
  <2> QED
    BY <1>4, <1>5, <2>2, <2>3, <2>4 DEF IInv
<1> QED
  BY <1>1, <1>6, <1>7, <1>8

-----------------------------------------------------------------------------
(***************************************************************************)
(* The theorems.                                                           *)
(***************************************************************************)

\* The invariant holds of a Context just constructed.
LEMMA InitIInv == Init => IInv
<1> SUFFICES ASSUME Init PROVE IInv
  OBVIOUS
<1>1. TypeOK
  BY DEF Init, TypeOK
<1>2. OneSocket /\ TalksToPort /\ StatusTruthful /\ StreamCounted /\ LinkInv
  BY DEF Init, OneSocket, TalksToPort, StatusTruthful, StreamCounted, LinkInv,
        Established
<1>3. ReceiveInv /\ WholeReply
  BY DEF Init, ReceiveInv, WholeReply
<1> QED
  BY <1>1, <1>2, <1>3 DEF IInv

\* Every step keeps the invariant.
LEMMA NextIInv == IInv /\ [Next]_vars => IInv'
<1> SUFFICES ASSUME IInv, [Next]_vars PROVE IInv'
  OBVIOUS
<1>1. /\ port \in Ports \cup {NoPort}
      /\ mountPort \in Ports \cup {NoPort}
      /\ nfsPort \in Ports \cup {NoPort}
      /\ PortMapperPort \in Ports \cup {NoPort}
  BY PortsAssumption DEF IInv, TypeOK
<1>2. CASE UNCHANGED vars
  BY <1>1, <1>2, OthersInv
<1>3. CASE Operation
  <2>1. CASE Disconnect
    BY <2>1, DisconnectInv
  <2>2. CASE Reconnect
    BY <2>2, ReconnectInv
  <2>3. ASSUME NEW p \in Ports \cup {NoPort}, Connect(p) PROVE IInv'
    BY <2>3, ConnectInv
  <2>4. CASE ConnectPortMapperPort
    BY <1>1, <1>2, <2>3, <2>4 DEF ConnectPortMapperPort
  <2>5. CASE ConnectMountPort \/ ConnectNfsPort
    BY <1>1, <2>3, <2>5 DEF ConnectMountPort, ConnectNfsPort
  <2>6. ASSUME NEW p \in Ports \cup {NoPort}, SetMountPort(p) \/ SetNfsPort(p)
        PROVE  IInv'
    BY <1>1, <2>6, OthersInv DEF SetMountPort, SetNfsPort
  <2>7. ASSUME NEW req \in Requests, Send(req) PROVE IInv'
    BY <2>7, SendInv
  <2>8. CASE StartReceive \/ ReceiveBadSocket
    BY <2>8, StartReceiveInv, ReceiveBadSocketInv
  <2> QED
    BY <1>3, <2>1, <2>2, <2>3, <2>4, <2>5, <2>6, <2>7, <2>8 DEF Operation
<1>4. CASE ReceiveLoop
  BY <1>2, <1>4, RecvInv, RecvErrorInv DEF ReceiveLoop, RecvNothing
<1>5. CASE Environment
  BY <1>5, ServerReplyInv, DeliverInv, LinkLostInv DEF Environment
<1> QED
  BY <1>2, <1>3, <1>4, <1>5 DEF Next

\* The invariant holds always.
THEOREM Invariance == Spec => []IInv
BY InitIInv, NextIInv, PTL DEF Spec

\* Every variable has its type, whatever the caller, the server and the
\* network do.
THEOREM TypeCorrect == Spec => []TypeOK
<1>1. IInv => TypeOK
  BY DEF IInv
<1> QED
  BY <1>1, Invariance, PTL

\* connect and disconnect leak no descriptor and lose none
\* (Context.cpp:12-83).
THEOREM OneSocketHolds == Spec => []OneSocket
<1>1. IInv => OneSocket
  BY DEF IInv
<1> QED
  BY <1>1, Invariance, PTL

\* The connection in use was made to the port last asked for
\* (Context.cpp:66-71).
THEOREM TalksToPortHolds == Spec => []TalksToPort
<1>1. IInv => TalksToPort
  BY DEF IInv
<1> QED
  BY <1>1, Invariance, PTL

\* printStatus tells the truth (Context.cpp:189-197).
THEOREM StatusTruthfulHolds == Spec => []StatusTruthful
<1>1. IInv => StatusTruthful
  BY DEF IInv
<1> QED
  BY <1>1, Invariance, PTL

\* totalSent and totalReceived count this connection's stream
\* (Context.cpp:78-79, 117, 157).
THEOREM StreamCountedHolds == Spec => []StreamCounted
<1>1. IInv => StreamCounted
  BY DEF IInv
<1> QED
  BY <1>1, Invariance, PTL

\* A successful receive that yields an xid yields one whole reply, at every
\* fragmentation of the stream and after every failed receive
\* (Context.cpp:121-187).
THEOREM WholeReplyHolds == Spec => []WholeReply
<1>1. IInv => WholeReply
  BY DEF IInv
<1> QED
  BY <1>1, Invariance, PTL

\* A receive that was in step with the message boundaries stays so
\* (Context.cpp:159-172).
THEOREM StaysInStepHolds == Spec => StaysInStep
<1> DEFINE Step == (/\ phase = "body" /\ phase' = "idle" /\ rc' = 0
                    /\ MessageStart % FrameCells = HeaderCells)
                   => totalReceived' % FrameCells = 0
<1>1. IInv /\ [Next]_vars => [Step]_vars
  <2> SUFFICES ASSUME IInv, Next, phase = "body", phase' = "idle", rc' = 0,
                      MessageStart % FrameCells = HeaderCells
               PROVE  totalReceived' % FrameCells = 0
    OBVIOUS
  <2>1. Recv
    BY DEF Next, Operation, ReceiveLoop, Environment, Disconnect, Reconnect,
          Connect, ConnectPortMapperPort, ConnectMountPort, ConnectNfsPort,
          SetMountPort, SetNfsPort, Send, StartReceive, ReceiveBadSocket,
          RecvError, RecvNothing, ServerReply, Deliver, ServerClose, ConnReset
  <2>2. /\ size \in Nat /\ pending \in 1 .. size /\ totalReceived \in Nat
        /\ size - pending <= totalReceived
        /\ size = BodyCells
    BY DEF IInv, TypeOK, ReceiveInv, MessageStart
  <2>3. totalReceived' = totalReceived + pending
    BY <2>1, <2>2 DEF Recv, RecvPartOfHeader, RecvEndOfHeader, RecvBody
  <2>4. totalReceived' = totalReceived - (size - pending) + BodyCells
    BY <2>2, <2>3
  <2> QED
    BY <2>2, <2>4, BodyEndsFrame DEF MessageStart
<1> QED
  BY <1>1, Invariance, PTL DEF Spec, StaysInStep
=============================================================================
