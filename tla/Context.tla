------------------------------ MODULE Context ------------------------------
(***************************************************************************)
(* class Context (Context.hpp, Context.cpp): one TCP connection to a       *)
(* server, moved from port to port as the client talks to the port mapper, *)
(* the mount service and the NFS service in turn, with a blocking send and *)
(* a blocking receive of record-marked RPC messages.                       *)
(*                                                                         *)
(* The operations hold the Context's mutex from end to end, and the        *)
(* program has one thread: an operation is one step, except receive, whose *)
(* recv calls interleave with the arrival of data.  What the network and   *)
(* the server may do meanwhile are actions of their own.                   *)
(*                                                                         *)
(* The stream.  A reply travels as FrameCells half words: two of the       *)
(* record mark, then the two halves of the xid, of the status (message     *)
(* type to accept_stat) and of the result.  recv may return any prefix of  *)
(* what has arrived, so a message may be cut anywhere.                     *)
(***************************************************************************)
EXTENDS Integers, Sequences, FiniteSets

CONSTANTS
    Fds,             \* descriptors socket() may return (0 if stdin is closed)
    Ports,           \* port numbers a caller may pass to connect
    PortMapperPort,  \* constructor argument mapperPort
    Listening,       \* ports of the server on which a service accepts
    Requests,        \* RPC requests a caller may send
    Statuses,        \* statuses of a reply
    Values,          \* results of a reply
    Faults,          \* what the environment may do, a subset of FaultKinds
    FalseSizes,      \* bound: sizes decoded from bytes that are no mark, in cells
    MaxSent          \* bound: requests sent on one connection

FaultKinds == {"resolve", "socket", "refuse", "interrupt", "close", "reset"}

ASSUME FdsAssumption == Fds \subseteq Nat
ASSUME PortsAssumption ==
    /\ Ports \subseteq Int
    /\ PortMapperPort \in Ports \ {-1}
    /\ Listening \subseteq Ports \ {-1}
ASSUME FaultsAssumption == Faults \subseteq FaultKinds
ASSUME BoundsAssumption == FalseSizes \subseteq Nat /\ MaxSent \in Nat

NoPort == -1
BadSocket == -1

HeaderCells == 2
BodyCells == 6
FrameCells == HeaderCells + BodyCells

VARIABLES
    socketFd,       \* the descriptor, BadSocket when there is none
    port,           \* the port connect was last asked for
    connectError,   \* result of the last ::connect, uninitialised before it
    totalSent,      \* requests handed to the kernel on this connection
    totalReceived,  \* cells taken from this connection
    mountPort,      \* set by setMountPort
    nfsPort,        \* set by setNfsPort
    openFds,        \* descriptors of sockets the process holds
    link,           \* state of the connection behind socketFd
    peer,           \* port the connection was made to
    sent,           \* requests the kernel accepted, in order
    answered,       \* those the server has answered, as indices of sent
    replies,        \* replies written by the server, in order
    arrived,        \* cells of those replies that have reached the client
    phase,          \* where receive is: "idle", "header" or "body"
    size,           \* receive's size: of the header, then of the message
    pending,        \* receive's pending
    rc,             \* what receive returned last
    wireBytes       \* the first BodyCells half words of the caller's buffer

socketVars == <<socketFd, port, connectError, openFds, link, peer>>
streamVars == <<totalSent, totalReceived, sent, answered, replies, arrived>>
receiveVars == <<phase, size, pending, rc, wireBytes>>
portVars == <<mountPort, nfsPort>>
vars == <<socketVars, streamVars, receiveVars, portVars>>

Reply == [req : Requests, status : Statuses, value : Values]

(***************************************************************************)
(* A half word of a reply is named by its place in the frame.  Any other   *)
(* content of a buffer (uninitialised memory) is Junk.                     *)
(***************************************************************************)
Junk == [at |-> -1]
Cell == [at : 0 .. FrameCells - 1, reply : Reply]

\* The k-th half word of the stream of replies, k >= 1.
CellAt(k) == [at |-> (k - 1) % FrameCells,
              reply |-> replies[(k - 1) \div FrameCells + 1]]

\* A buffer that holds the reply r from its xid on.
Body(r) == [j \in 1 .. BodyCells |->
               [at |-> HeaderCells + j - 1, reply |-> r]]

Available == arrived - totalReceived

Established == {"open", "eof", "reset", "dead"}

\* Mutant of FreshStream: disconnect forgets the totals.
FreshStreamTotalsKept ==
    /\ UNCHANGED <<totalSent, totalReceived>>
    /\ sent' = <<>>
    /\ answered' = {}
    /\ replies' = <<>>
    /\ arrived' = 0

\* No connection: what a new socket, and a failed connect, start from.
FreshStream ==
    /\ totalSent' = 0
    /\ totalReceived' = 0
    /\ sent' = <<>>
    /\ answered' = {}
    /\ replies' = <<>>
    /\ arrived' = 0

-----------------------------------------------------------------------------
Init ==
    /\ socketFd = BadSocket
    /\ port = NoPort
    /\ connectError \in {0, -1}
    /\ totalSent = 0
    /\ totalReceived = 0
    /\ mountPort = NoPort
    /\ nfsPort = NoPort
    /\ openFds = {}
    /\ link = "none"
    /\ peer = NoPort
    /\ sent = <<>>
    /\ answered = {}
    /\ replies = <<>>
    /\ arrived = 0
    /\ phase = "idle"
    /\ size = 0
    /\ pending = 0
    /\ rc = -1
    /\ wireBytes = [j \in 1 .. BodyCells |-> Junk]

-----------------------------------------------------------------------------
(***************************************************************************)
(* Connecting.                                                             *)
(***************************************************************************)

\* getaddrinfo or socket() failed: no descriptor, connectError untouched.
NoSocket(p, open) ==
    /\ \/ p = NoPort
       \/ {"resolve", "socket"} \cap Faults # {}
    /\ socketFd' = BadSocket
    /\ openFds' = open
    /\ link' = "none"
    /\ peer' = NoPort
    /\ UNCHANGED connectError

\* socket() gave f and ::connect succeeded.
Accepted(p, open, f) ==
    /\ p \in Listening
    /\ socketFd' = f
    /\ openFds' = open \cup {f}
    /\ connectError' = 0
    /\ link' = "open"
    /\ peer' = p

\* Mutant of Refused: the result of ::connect is not kept.
RefusedUnnoticed(p, open, f) ==
    /\ p # NoPort
    /\ p \notin Listening \/ "refuse" \in Faults
    /\ socketFd' = f
    /\ openFds' = open \cup {f}
    /\ connectError' = 0
    /\ link' = "unconnected"
    /\ peer' = NoPort

\* Mutant of Refused: connectError takes errno, as the other errors do.
RefusedWithErrno(p, open, f) ==
    /\ p # NoPort
    /\ p \notin Listening \/ "refuse" \in Faults
    /\ socketFd' = f
    /\ openFds' = open \cup {f}
    /\ connectError' = 111
    /\ link' = "unconnected"
    /\ peer' = NoPort

\* socket() gave f and ::connect failed: only logged, the socket is kept.
Refused(p, open, f) ==
    /\ p # NoPort
    /\ p \notin Listening \/ "refuse" \in Faults
    /\ socketFd' = f
    /\ openFds' = open \cup {f}
    /\ connectError' = -1
    /\ link' = "unconnected"
    /\ peer' = NoPort

\* connect() without an open socket, when the process holds open.
OpenSocket(p, open) ==
    /\ FreshStream
    /\ \/ NoSocket(p, open)
       \/ \E f \in Fds \ open : Accepted(p, open, f) \/ Refused(p, open, f)

\* connect(): refuses to run over an open socket.
Reconnect ==
    /\ phase = "idle"
    /\ socketFd = BadSocket
    /\ OpenSocket(port, openFds)
    /\ UNCHANGED <<port, receiveVars, portVars>>

\* Mutant of Disconnect: the descriptor is forgotten, not closed.
DisconnectUnclosed ==
    /\ phase = "idle"
    /\ socketFd > 0
    /\ socketFd' = BadSocket
    /\ link' = "none"
    /\ peer' = NoPort
    /\ FreshStream
    /\ UNCHANGED <<port, connectError, openFds, receiveVars, portVars>>

\* disconnect(): closes descriptors above 0 only.
Disconnect ==
    /\ phase = "idle"
    /\ socketFd > 0
    /\ socketFd' = BadSocket
    /\ openFds' = openFds \ {socketFd}
    /\ link' = "none"
    /\ peer' = NoPort
    /\ FreshStream
    /\ UNCHANGED <<port, connectError, receiveVars, portVars>>

\* Mutant of Connect: connect(newPort) does not disconnect first.
ConnectOverOpen(newPort) ==
    /\ phase = "idle"
    /\ port' = newPort
    /\ IF socketFd = BadSocket
       THEN OpenSocket(newPort, openFds)
       ELSE UNCHANGED <<socketFd, connectError, openFds, link, peer,
                        streamVars>>
    /\ UNCHANGED <<receiveVars, portVars>>

\* connect(newPort): disconnect, then connect, which gives up when
\* disconnect has left the socket open.
Connect(newPort) ==
    /\ phase = "idle"
    /\ port' = newPort
    /\ IF socketFd > 0 \/ socketFd = BadSocket
       THEN OpenSocket(newPort, openFds \ {socketFd})
       ELSE UNCHANGED <<socketFd, connectError, openFds, link, peer,
                        streamVars>>
    /\ UNCHANGED <<receiveVars, portVars>>

\* Connects only when port is another one: a connection that failed, or was
\* lost, is not made again.
ConnectPortMapperPort ==
    /\ phase = "idle"
    /\ IF port # PortMapperPort
       THEN Connect(PortMapperPort)
       ELSE UNCHANGED vars

ConnectMountPort == Connect(mountPort)

ConnectNfsPort == Connect(nfsPort)

SetMountPort(p) ==
    /\ phase = "idle"
    /\ mountPort' = p
    /\ UNCHANGED <<socketVars, streamVars, receiveVars, nfsPort>>

SetNfsPort(p) ==
    /\ phase = "idle"
    /\ nfsPort' = p
    /\ UNCHANGED <<socketVars, streamVars, receiveVars, mountPort>>

-----------------------------------------------------------------------------
(***************************************************************************)
(* Sending and receiving.                                                  *)
(***************************************************************************)

\* The kernel takes the whole request.  After the server's FIN it still does.
SendAccepted(req) ==
    /\ link \in {"open", "eof"}
    /\ Len(sent) < MaxSent
    /\ sent' = Append(sent, req)
    /\ totalSent' = totalSent + 1
    /\ UNCHANGED <<socketVars, totalReceived, answered, replies, arrived>>

\* send returns -1; the first one to fail consumes the pending reset.
SendFailed ==
    /\ link \in {"none", "unconnected", "reset", "dead"}
    /\ link' = IF link = "reset" THEN "dead" ELSE link
    /\ UNCHANGED <<socketFd, port, connectError, openFds, peer, streamVars>>

Send(req) ==
    /\ phase = "idle"
    /\ SendAccepted(req) \/ SendFailed
    /\ UNCHANGED <<receiveVars, portVars>>

\* The caller's buffer is new[]: uninitialised, or the one of the previous
\* call, of which the allocator overwrites the beginning.
NewBuffer ==
    \E recycled \in BOOLEAN :
        wireBytes' = [j \in 1 .. BodyCells |->
                         IF recycled /\ j > 2 THEN wireBytes[j] ELSE Junk]

\* receive up to its loop, on an open socket.
StartReceive ==
    /\ phase = "idle"
    /\ socketFd # BadSocket
    /\ NewBuffer
    /\ phase' = "header"
    /\ size' = HeaderCells
    /\ pending' = HeaderCells
    /\ UNCHANGED <<rc, socketVars, streamVars, portVars>>

\* receive without a socket returns at once.
ReceiveBadSocket ==
    /\ phase = "idle"
    /\ socketFd = BadSocket
    /\ NewBuffer
    /\ size' = 0
    /\ pending' = 0
    /\ rc' = -1
    /\ UNCHANGED <<phase, socketVars, streamVars, portVars>>

\* Mutant of Filled: recv always fills the buffer from its start.
FilledFromStart(n) ==
    [j \in 1 .. BodyCells |->
        IF j <= n THEN CellAt(totalReceived + j) ELSE wireBytes[j]]

\* What n cells from recv make of the buffer.
Filled(n) ==
    LET have == size - pending IN
    [j \in 1 .. BodyCells |->
        IF have < j /\ j <= have + n THEN CellAt(totalReceived + j - have)
                                     ELSE wireBytes[j]]

\* recv returns n > 0 cells of the record mark but not its end.
RecvPartOfHeader(n) ==
    /\ phase = "header"
    /\ n < pending
    /\ pending' = pending - n
    /\ wireBytes' = Filled(n)
    /\ UNCHANGED <<phase, size, rc>>

\* Mutant of Decoded: the mark is taken to count itself in.
DecodedWithMark(at) == IF at % FrameCells = HeaderCells THEN {FrameCells}
                                                        ELSE FalseSizes

\* The sizes a header may decode to: a mark announces its body, other bytes
\* anything, also more than the server will ever send.
Decoded(at) == IF at % FrameCells = HeaderCells THEN {BodyCells}
                                                ELSE FalseSizes

\* recv returns the end of the header: the size of the message is known, and
\* the same buffer takes the message from its start.  A size of 0 ends
\* receive, with a zero word in the buffer.
RecvEndOfHeader(n) ==
    /\ phase = "header"
    /\ n = pending
    /\ \E d \in Decoded(totalReceived + n) :
          /\ size' = d
          /\ pending' = d
          /\ IF d = 0
             THEN /\ phase' = "idle"
                  /\ rc' = 0
                  /\ wireBytes' = [Filled(n) EXCEPT ![1] = Junk, ![2] = Junk]
             ELSE /\ phase' = "body"
                  /\ rc' = rc
                  /\ wireBytes' = Filled(n)

\* Mutant of RecvBody: one recv is taken to return the whole message.
RecvBodyOnce(n) ==
    /\ phase = "body"
    /\ pending' = pending - n
    /\ wireBytes' = Filled(n)
    /\ phase' = "idle"
    /\ rc' = 0
    /\ UNCHANGED size

\* recv returns n > 0 cells of the message.
RecvBody(n) ==
    /\ phase = "body"
    /\ pending' = pending - n
    /\ wireBytes' = Filled(n)
    /\ IF n = pending THEN phase' = "idle" /\ rc' = 0
                      ELSE UNCHANGED <<phase, rc>>
    /\ UNCHANGED size

\* recv returns as much as has arrived, up to what is asked for.
Recv ==
    LET n == IF pending <= Available THEN pending ELSE Available IN
    /\ phase \in {"header", "body"}
    /\ n > 0
    /\ totalReceived' = totalReceived + n
    /\ RecvPartOfHeader(n) \/ RecvEndOfHeader(n) \/ RecvBody(n)
    /\ UNCHANGED <<socketVars, totalSent, sent, answered, replies, arrived,
                   portVars>>

\* Mutant of RecvError: every error is waited out as EAGAIN is.
RecvErrorRetried ==
    /\ phase \in {"header", "body"}
    /\ Available = 0
    /\ \/ link \in {"unconnected", "reset"}
       \/ link = "open" /\ "interrupt" \in Faults
    /\ UNCHANGED vars

\* recv returns -1 with an errno that is not EAGAIN: receive gives up and
\* the cells it has already taken are lost to the next call.
RecvError ==
    /\ phase \in {"header", "body"}
    /\ Available = 0
    /\ \/ link \in {"unconnected", "reset"}
       \/ link = "open" /\ "interrupt" \in Faults
    /\ link' = IF link = "reset" THEN "dead" ELSE link
    /\ phase' = "idle"
    /\ rc' = -1
    /\ UNCHANGED <<socketFd, port, connectError, openFds, peer, streamVars,
                   size, pending, wireBytes, portVars>>

\* recv times out (EAGAIN) or returns 0 at the end of the stream: either way
\* receive goes round its loop again.
RecvNothing ==
    /\ phase \in {"header", "body"}
    /\ Available = 0
    /\ link \in {"open", "eof", "dead"}
    /\ UNCHANGED vars

-----------------------------------------------------------------------------
(***************************************************************************)
(* The server and the network.                                             *)
(***************************************************************************)

ServerReply(i, status, value) ==
    /\ link = "open"
    /\ i \in 1 .. Len(sent) \ answered
    /\ answered' = answered \cup {i}
    /\ replies' = Append(replies,
                     [req |-> sent[i], status |-> status, value |-> value])
    /\ UNCHANGED <<socketVars, totalSent, totalReceived, sent, arrived,
                   receiveVars, portVars>>

\* Some more of what the server wrote arrives.
Deliver ==
    /\ link = "open"
    /\ \E n \in arrived + 1 .. FrameCells * Len(replies) : arrived' = n
    /\ UNCHANGED <<socketVars, totalSent, totalReceived, sent, answered,
                   replies, receiveVars, portVars>>

\* The server's FIN arrives, after everything it wrote.
ServerClose ==
    /\ "close" \in Faults
    /\ link = "open"
    /\ arrived = FrameCells * Len(replies)
    /\ link' = "eof"
    /\ UNCHANGED <<socketFd, port, connectError, openFds, peer, streamVars,
                   receiveVars, portVars>>

\* A RST arrives: what is still on its way is lost.
ConnReset ==
    /\ "reset" \in Faults
    /\ link \in {"open", "eof"}
    /\ link' = "reset"
    /\ UNCHANGED <<socketFd, port, connectError, openFds, peer, streamVars,
                   receiveVars, portVars>>

-----------------------------------------------------------------------------
\* The calls other classes may make on a Context.
Operation ==
    \/ Disconnect
    \/ Reconnect
    \/ \E p \in Ports \cup {NoPort} : Connect(p)
    \/ ConnectPortMapperPort
    \/ ConnectMountPort
    \/ ConnectNfsPort
    \/ \E p \in Ports \cup {NoPort} : SetMountPort(p)
    \/ \E p \in Ports \cup {NoPort} : SetNfsPort(p)
    \/ \E req \in Requests : Send(req)
    \/ StartReceive
    \/ ReceiveBadSocket

ReceiveLoop == Recv \/ RecvError \/ RecvNothing

Environment ==
    \/ \E i \in 1 .. Len(sent), s \in Statuses, v \in Values :
          ServerReply(i, s, v)
    \/ Deliver
    \/ ServerClose
    \/ ConnReset

Next == Operation \/ ReceiveLoop \/ Environment

Spec == Init /\ [][Next]_vars

\* receive is a loop of its thread: it takes what is there, and finds out that
\* the connection was refused or reset.  Signals and data need not come.
ReceiveFairness == WF_vars(Recv) /\ WF_vars(link # "open" /\ RecvError)

-----------------------------------------------------------------------------
(***************************************************************************)
(* Properties.                                                             *)
(***************************************************************************)

\* Where in the stream the message being received began.
MessageStart == totalReceived - (size - pending)

\* Every variable has its type.
TypeOK ==
    /\ socketFd \in Fds \cup {BadSocket}
    /\ port \in Ports \cup {NoPort}
    /\ connectError \in {0, -1}
    /\ totalSent \in Nat
    /\ totalReceived \in Nat
    /\ mountPort \in Ports \cup {NoPort}
    /\ nfsPort \in Ports \cup {NoPort}
    /\ openFds \subseteq Fds
    /\ link \in {"none", "unconnected"} \cup Established
    /\ peer \in Ports \cup {NoPort}
    /\ sent \in Seq(Requests)
    /\ answered \subseteq 1 .. Len(sent)
    /\ replies \in Seq(Reply)
    /\ arrived \in Nat
    /\ phase \in {"idle", "header", "body"}
    /\ size \in Nat
    /\ pending \in Nat
    /\ rc \in {0, -1}
    /\ wireBytes \in [1 .. BodyCells -> Cell \cup {Junk}]

\* However connect, disconnect and their failures follow each other, the
\* process holds exactly the one socket socketFd names (Context.cpp:12-83):
\* moving from port to port leaks no descriptor, even when disconnect skips
\* its close because the descriptor is 0.
OneSocket == openFds = {socketFd} \ {BadSocket}

\* A request goes to the port the last connect asked for: the connection
\* behind socketFd was made to port (Context.cpp:66-71, 199-221).
\* Descriptor 0, which disconnect never closes, is the exception.
TalksToPort == (link \in Established /\ socketFd # 0) => peer = port

\* printStatus (Context.cpp:189-197) tells a connection that was made from
\* one that was not, although connect() returns 0 for both and an earlier
\* connection's connectError survives a failed getaddrinfo or socket().
StatusTruthful ==
    (socketFd # BadSocket /\ connectError = 0) <=> link \in Established

\* When receive returns 0 and the buffer starts with an xid, the buffer holds
\* one whole reply (Context.cpp:141-186): no mixture with the rest of an
\* earlier message whose receive failed half way, nor with what the buffer
\* held before, however the stream was cut.
WholeReply ==
    (phase = "idle" /\ rc = 0 /\ wireBytes[1].at = HeaderCells)
        => wireBytes = Body(wireBytes[1].reply)

\* receive never counts more than has arrived, nor is there ever more in
\* transit than the server wrote on this connection: totals and stream are
\* reset together by disconnect (Context.cpp:78-79).
StreamCounted ==
    /\ totalSent = Len(sent)
    /\ totalReceived <= arrived
    /\ arrived <= FrameCells * Len(replies)

\* A receive that starts at a message boundary, and ends with success, ends at
\* the next boundary: the stream is in step again for the next call
\* (Context.cpp:159-172).
StaysInStep ==
    [][(/\ phase = "body" /\ phase' = "idle" /\ rc' = 0
        /\ MessageStart % FrameCells = HeaderCells)
       => totalReceived' % FrameCells = 0]_vars

\* receive waits for bytes that the peer does not send, on a connection of
\* which nothing says that they will never come, or that is known to be over.
Starved ==
    /\ phase # "idle"
    /\ Available = 0
    /\ link \in {"open", "eof", "dead"}

\* A receive that never returns (Context.cpp:145-175) is one the server has left
\* without the rest of a message, or without any: the loop neither misses bytes
\* that have arrived, nor goes on after a refused or a reset connection, unless
\* that error was reported to an earlier call.
ReceiveEnds == []<>(phase = "idle") \/ <>[]Starved

-----------------------------------------------------------------------------
(***************************************************************************)
(* What the proofs need beyond the properties above.                       *)
(***************************************************************************)

\* There is a descriptor exactly when there is a link, and only a connection
\* that was made has carried replies.
LinkInv ==
    /\ socketFd = BadSocket <=> link = "none"
    /\ link \notin Established => replies = <<>>

\* Inside receive, on a socket, something is missing; the header is
\* HeaderCells long and so is, when the header was a mark, the message
\* BodyCells; the buffer holds what the stream had since MessageStart.
ReceiveInv ==
    /\ phase # "idle" => /\ socketFd # BadSocket
                        /\ pending \in 1 .. size
                        /\ size - pending <= totalReceived
    /\ phase = "header" => size = HeaderCells
    /\ phase = "body" =>
          /\ MessageStart % FrameCells = HeaderCells => size = BodyCells
          /\ \A j \in 1 .. BodyCells :
                j <= size - pending => wireBytes[j] = CellAt(MessageStart + j)

\* The inductive invariant.
IInv ==
    /\ TypeOK
    /\ OneSocket
    /\ TalksToPort
    /\ StatusTruthful
    /\ StreamCounted
    /\ LinkInv
    /\ ReceiveInv
    /\ WholeReply
=============================================================================
