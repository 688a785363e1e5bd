----------------------------- MODULE NfsClient -----------------------------
(***************************************************************************)
(* The program: main (main.cpp:38-80) with the classes it drives over one  *)
(* Context - PortMapperContext, MountContext, FSTree and Inode::lookup -   *)
(* and a server with three services, each on a port of its own.            *)
(*                                                                         *)
(* main is a straight line of calls.  Script is that line, so that shorter *)
(* and longer ones can be checked too; MainScript is the one in main.cpp.  *)
(* A step of the program is one of the calls a Script line makes on the    *)
(* Context (module RpcCall), or what it does with the reply.               *)
(***************************************************************************)
EXTENDS RpcCall

CONSTANTS
    Script,         \* the calls main makes, a sequence of ScriptLines
    MountService,   \* port of the server's mount service
    NfsService,     \* port of the server's NFS service
    Handles,        \* file handles the mount service gives out
    Denied,         \* a mount result other than MNT3_OK
    Void,           \* the empty result
    Export,         \* the path main mounts
    ServerFaults    \* how the server may answer, a subset of AnswerKinds

PortMapperOps == {"getMountPort", "getNfsPort"}
MountOps == {"makeMountCall", "makeUmountCall"}
ScriptLines == PortMapperOps \cup MountOps
                 \cup {"setMountPort", "setNfsPort", "addMountHandle", "getRoot",
                       "lookup"}
AnswerKinds == {"reject", "unregistered", "deny", "unknown", "verify"}

\* main.cpp:50-76.
MainScript == <<"getMountPort", "getNfsPort", "setMountPort", "setNfsPort",
                "makeMountCall", "addMountHandle", "getRoot", "lookup",
                "makeUmountCall">>

ASSUME ScriptAssumption ==
    /\ Script \in Seq(ScriptLines)
    /\ Len(Script) <= MaxCalls
ASSUME ServicesAssumption ==
    /\ {0, PortMapperPort, MountService, NfsService} \subseteq Ports
    /\ {PortMapperPort, MountService, NfsService} \subseteq Listening
ASSUME ResultsAssumption ==
    /\ Ports \cup Handles \cup {Denied, Void} \subseteq Values
    /\ (Handles \cup {Denied}) \cap Ports = {}
ASSUME ProceduresAssumption == PortMapperOps \cup MountOps \subseteq Ops

VARIABLES
    at,             \* the line of Script main is at
    mountPortVar,   \* main's local mountPort
    nfsPortVar,     \* main's local nfsPort
    mountHandle,    \* MountContext's mountHandle, as the handles appended to it
    tree,           \* the keys of FSTree's map
    exit            \* "running", or how the process ended

mainVars == <<at, mountPortVar, nfsPortVar, mountHandle, tree, exit>>
clientVars == <<rpcVars, mainVars>>

ClientInit ==
    /\ RpcInit
    /\ at = 1
    /\ mountPortVar = NoPort
    /\ nfsPortVar = NoPort
    /\ mountHandle = <<>>
    /\ tree = {}
    /\ exit = "running"

\* main is at a line that says op.
Line(op) == exit = "running" /\ at \in 1 .. Len(Script) /\ Script[at] = op

\* main is about to do what the line says.
Starts(op) == Line(op) /\ stage = "idle"

\* The call of the current line is under way.
Calling == exit = "running" /\ stage # "idle"

-----------------------------------------------------------------------------
(***************************************************************************)
(* The steps of a call (module RpcCall).                                   *)
(***************************************************************************)

\* The first call asks for this host's name, and uses getaddrinfo's result
\* also when it failed.
HostIsNamed ==
    \/ exit' = exit
    \/ "resolve" \in Faults /\ sequential = seed /\ exit' = "crashed"

BeginGetPort ==
    \E op \in PortMapperOps :
        /\ Starts(op)
        /\ BeginCall(op)
        /\ ConnectPortMapperPort
        /\ HostIsNamed
        /\ UNCHANGED <<at, mountPortVar, nfsPortVar, mountHandle, tree>>

\* Mutant of BeginMountOp: a connection that is there is used.
BeginMountOpUnconnected ==
    \E op \in MountOps :
        /\ Starts(op)
        /\ BeginCall(op)
        /\ IF socketFd = BadSocket THEN ConnectMountPort ELSE UNCHANGED vars
        /\ HostIsNamed
        /\ UNCHANGED <<at, mountPortVar, nfsPortVar, mountHandle, tree>>

BeginMountOp ==
    \E op \in MountOps :
        /\ Starts(op)
        /\ BeginCall(op)
        /\ ConnectMountPort
        /\ HostIsNamed
        /\ UNCHANGED <<at, mountPortVar, nfsPortVar, mountHandle, tree>>

Sends == Calling /\ SendRequest /\ UNCHANGED mainVars

\* send on a connection that is no more raises SIGPIPE: unless it is ignored,
\* the process ends.  (A reset counts too: after a FIN it reads as EPIPE.)
KilledBySend ==
    /\ Calling
    /\ stage = "send"
    /\ link \in {"unconnected", "reset", "dead"}
    /\ exit' = "killed"
    /\ UNCHANGED <<rpcVars, at, mountPortVar, nfsPortVar, mountHandle, tree>>

StartsReceive == Calling /\ BeginReceive /\ UNCHANGED mainVars

Receives == Calling /\ ReceiveLoop /\ UNCHANGED <<callVars, mainVars>>

-----------------------------------------------------------------------------
(***************************************************************************)
(* What the callers do with the reply.                                     *)
(***************************************************************************)

\* Mutant of PortRead: a null payload is read as well.
PortReadUnchecked(p) ==
    /\ NullPayload \/ HasPayload
    /\ p \in ValuesRead(Ports \cup {NoPort})

\* getPort's result: the port in the payload, or -1.
PortRead(p) ==
    \/ NullPayload /\ p = NoPort
    \/ HasPayload /\ p \in ValuesRead(Ports \cup {NoPort})

ReturnMountPort ==
    /\ Line("getMountPort")
    /\ \E p \in Ports \cup {NoPort} : PortRead(p) /\ mountPortVar' = p
    /\ Return
    /\ at' = at + 1
    /\ UNCHANGED <<nfsPortVar, mountHandle, tree, exit>>

ReturnNfsPort ==
    /\ Line("getNfsPort")
    /\ \E p \in Ports \cup {NoPort} : PortRead(p) /\ nfsPortVar' = p
    /\ Return
    /\ at' = at + 1
    /\ UNCHANGED <<mountPortVar, mountHandle, tree, exit>>

\* Mutant of ReturnMounted: the result is not looked at.
ReturnMountedAlways ==
    /\ Line("makeMountCall")
    /\ HasPayload
    /\ \E h \in ValuesRead(Handles \cup {Denied}) :
          mountHandle' = Append(mountHandle, h)
    /\ Return
    /\ at' = at + 1
    /\ UNCHANGED <<mountPortVar, nfsPortVar, tree, exit>>

\* Mutant of ReturnMounted: a reply that was refused is read as well.
ReturnMountedRefused ==
    /\ Line("makeMountCall")
    /\ NullPayload \/ HasPayload
    /\ \E h \in ValuesRead(Handles \cup {Denied}) \ {Denied} :
          mountHandle' = Append(mountHandle, h)
    /\ Return
    /\ at' = at + 1
    /\ UNCHANGED <<mountPortVar, nfsPortVar, tree, exit>>

\* MNT3_OK: the handle's bytes are appended to mountHandle.  What is no result of
\* a mount may also announce a handle that is too long.
ReturnMounted ==
    /\ Line("makeMountCall")
    /\ HasPayload
    /\ \/ \E h \in ValuesRead(Handles \cup {Denied}) \ {Denied} :
             mountHandle' = Append(mountHandle, h)
       \/ ~ ResultIsOf(Handles \cup {Denied}) /\ mountHandle' = mountHandle
    /\ Return
    /\ at' = at + 1
    /\ UNCHANGED <<mountPortVar, nfsPortVar, tree, exit>>

\* Another result: the handle stays what it was.
ReturnMountFailed ==
    /\ Line("makeMountCall")
    /\ HasPayload
    /\ Denied \in ValuesRead(Handles \cup {Denied})
    /\ Return
    /\ at' = at + 1
    /\ UNCHANGED <<mountPortVar, nfsPortVar, mountHandle, tree, exit>>

\* makeMountCall decodes the payload without looking whether there is one:
\* xdr_decode_u32 asserts its source.
MountAsserts ==
    /\ Line("makeMountCall")
    /\ NullPayload
    /\ exit' = "aborted"
    /\ UNCHANGED <<rpcVars, at, mountPortVar, nfsPortVar, mountHandle, tree>>

\* What is read as the number of authentication types behind anything that is no
\* result of a mount, a port 0 of an earlier call among them, runs past the buffer.
MountRunsAway ==
    /\ Line("makeMountCall")
    /\ HasPayload
    /\ ~ ResultIsOf(Handles \cup {Denied})
    /\ exit' = "crashed"
    /\ UNCHANGED <<rpcVars, at, mountPortVar, nfsPortVar, mountHandle, tree>>

\* makeUmountCall looks at nothing parseAndStripRPC returns.
ReturnUmount ==
    /\ Line("makeUmountCall")
    /\ NullPayload \/ HasPayload
    /\ Return
    /\ at' = at + 1
    /\ UNCHANGED <<mountPortVar, nfsPortVar, mountHandle, tree, exit>>

\* parseAndStripRPC's assertion, for any caller.
ParseAborts ==
    /\ Calling
    /\ ParseAsserts
    /\ exit' = "aborted"
    /\ UNCHANGED <<rpcVars, at, mountPortVar, nfsPortVar, mountHandle, tree>>

-----------------------------------------------------------------------------
(***************************************************************************)
(* The lines of main that call no one, and the end.                        *)
(***************************************************************************)

SetsMountPort ==
    /\ Starts("setMountPort")
    /\ SetMountPort(mountPortVar)
    /\ at' = at + 1
    /\ UNCHANGED <<callVars, mountPortVar, nfsPortVar, mountHandle, tree, exit>>

SetsNfsPort ==
    /\ Starts("setNfsPort")
    /\ SetNfsPort(nfsPortVar)
    /\ at' = at + 1
    /\ UNCHANGED <<callVars, mountPortVar, nfsPortVar, mountHandle, tree, exit>>

\* The handle is not kept, and a path that is there already stays.
AddMountHandle ==
    /\ Starts("addMountHandle")
    /\ tree' = tree \cup {Export}
    /\ at' = at + 1
    /\ UNCHANGED <<rpcVars, mountPortVar, nfsPortVar, mountHandle, exit>>

\* The key getRoot asks the tree for.
RootKey == ""

\* Without that key getRoot dereferences end(): the program crashes, or goes
\* on with what lies behind the map, the zeroes of the tree's idle mutex where
\* libstdc++ and glibc lay both out: no inode.
GetRoot ==
    /\ Starts("getRoot")
    /\ \/ at' = at + 1 /\ UNCHANGED exit
       \/ RootKey \notin tree /\ exit' = "crashed" /\ UNCHANGED at
    /\ UNCHANGED <<rpcVars, mountPortVar, nfsPortVar, mountHandle, tree>>

\* Inode::lookup connects to the NFS service, then dereferences its parent,
\* which is no inode; on a real one, whose selfHandle nothing ever sets, it
\* would come to line 270 and dereference that.
Lookup ==
    /\ Starts("lookup")
    /\ ConnectNfsPort
    /\ exit' = "crashed"
    /\ UNCHANGED <<callVars, at, mountPortVar, nfsPortVar, mountHandle, tree>>

\* putContext and return.
ExitMain ==
    /\ exit = "running"
    /\ at = Len(Script) + 1
    /\ exit' = "exited"
    /\ UNCHANGED <<rpcVars, at, mountPortVar, nfsPortVar, mountHandle, tree>>

Client ==
    \/ BeginGetPort
    \/ BeginMountOp
    \/ Sends
    \/ KilledBySend
    \/ StartsReceive
    \/ Receives
    \/ ReturnMountPort
    \/ ReturnNfsPort
    \/ ReturnMounted
    \/ ReturnMountFailed
    \/ MountAsserts
    \/ MountRunsAway
    \/ ReturnUmount
    \/ ParseAborts
    \/ SetsMountPort
    \/ SetsNfsPort
    \/ AddMountHandle
    \/ GetRoot
    \/ Lookup
    \/ ExitMain

-----------------------------------------------------------------------------
(***************************************************************************)
(* The server.  A service answers only for its own procedures.             *)
(***************************************************************************)

Service(op) == IF op \in PortMapperOps THEN PortMapperPort ELSE MountService

\* The results of op, done.
Results(op) ==
    CASE op = "getMountPort" -> {MountService}
      [] op = "getNfsPort" -> {NfsService}
      [] op = "makeMountCall" -> Handles
      [] OTHER -> {Void}

\* The results of op, refused by the service itself.
Refusals(op) ==
    (IF op \in PortMapperOps /\ "unregistered" \in ServerFaults THEN {0} ELSE {})
      \cup
    (IF op = "makeMountCall" /\ "deny" \in ServerFaults THEN {Denied} ELSE {})

\* What else a service may answer.
StatusFor == [reject |-> "FAILED", unknown |-> "UNKNOWN", verify |-> "VERIFIED"]

Answers(op) ==
    IF peer = Service(op)
    THEN [status : {"SUCCESS"}, value : Results(op) \cup Refusals(op)]
           \cup [status : {StatusFor[k] : k \in ServerFaults \cap DOMAIN StatusFor},
                 value : {Void}]
    ELSE {[status |-> "FAILED", value |-> Void]}

ServerAnswers ==
    /\ exit = "running"
    /\ \E i \in 1 .. Len(sent) :
          \E a \in Answers(sent[i].op) : ServerReply(i, a.status, a.value)
    /\ UNCHANGED <<callVars, mainVars>>

Arrives == exit = "running" /\ Deliver /\ UNCHANGED <<callVars, mainVars>>

ConnectionEnds ==
    /\ exit = "running"
    /\ ServerClose \/ ConnReset
    /\ UNCHANGED <<callVars, mainVars>>

\* The process has ended.
Ended == exit # "running" /\ UNCHANGED clientVars

ClientNext == Client \/ ServerAnswers \/ Arrives \/ ConnectionEnds \/ Ended

ClientSpec == ClientInit /\ [][ClientNext]_clientVars

\* receive waits for data on a connection that is open: nothing makes them come,
\* and nothing a signal.
WaitsForData == phase # "idle" /\ Available = 0 /\ link = "open"

(***************************************************************************)
(* The program runs when it can, which a blocked recv cannot; a server     *)
(* that is up answers, and what it wrote arrives.  Nothing in the program  *)
(* makes up for a server that does not: receive's timeout only starts recv *)
(* again.                                                                  *)
(***************************************************************************)
FairClientSpec ==
    /\ ClientSpec
    /\ WF_clientVars(~ WaitsForData /\ Client)
    /\ WF_clientVars(ServerAnswers)
    /\ WF_clientVars(Arrives)

-----------------------------------------------------------------------------
(***************************************************************************)
(* Properties.                                                             *)
(***************************************************************************)

\* Every variable of main has its type.
ClientTypeOK ==
    /\ at \in 1 .. Len(Script) + 1
    /\ mountPortVar \in Ports \cup {NoPort}
    /\ nfsPortVar \in Ports \cup {NoPort}
    /\ mountHandle \in Seq(Handles)
    /\ tree \subseteq {Export}
    /\ exit \in {"running", "exited", "killed", "aborted", "crashed"}

\* The server has written, on this connection, a reply of this status to the
\* current call.
Answered(status) ==
    \E i \in 1 .. Len(replies) : replies[i].req = call /\ replies[i].status = status

\* It has written that the current call succeeded, with the result v.
Replied(v) ==
    \E i \in 1 .. Len(replies) :
        /\ replies[i].req = call
        /\ replies[i].status = "SUCCESS"
        /\ replies[i].value = v

\* A port main learns after a receive that succeeded is the one the port
\* mapper gave for this very program (PortMapperContext.cpp:69-80): not the
\* other program's, read from the reply before or from a recycled buffer.  Only
\* a reply to this call with data in its verifier may be misread (rpc.hpp:103).
LearnsServersPorts ==
    [][(rc = 0 /\ ~ Answered("VERIFIED")) =>
         /\ mountPortVar' \notin {mountPortVar, NoPort} => Replied(mountPortVar')
         /\ nfsPortVar' \notin {nfsPortVar, NoPort} => Replied(nfsPortVar')
      ]_clientVars

\* A handle joins mountHandle after a receive that succeeded only when the
\* mount service has just granted it (Mount.cpp:64-76), unless it has answered
\* this call with data in the verifier (rpc.hpp:103).
HandleIsGranted ==
    [][(rc = 0 /\ mountHandle' # mountHandle /\ ~ Answered("VERIFIED"))
         => \E h \in Handles : Replied(h) /\ mountHandle' = Append(mountHandle, h)
      ]_clientVars

\* The port a call of op is meant for, as far as the client knows.
PortFor(op) == IF op \in PortMapperOps THEN PortMapperPort ELSE mountPort

\* A request leaves on a connection to the service it is for: the port mapper,
\* or the port main was told is the mount service's (PortMapperContext.cpp:9,
\* Mount.cpp:9, 88) - with every connect's result ignored, a request of one
\* service could end on the connection left by another.  Over descriptor 0, which
\* disconnect does not close (Context.cpp:75), it does: of the requests that go to
\* another service, all go that way.
RequestGoesToItsService ==
    [][Len(sent') > Len(sent)
         => peer = PortFor(call.op) \/ socketFd = 0]_clientVars

\* After a receive that succeeded, a call ends the process for what the server
\* has answered to this very call, and in three cases: a mount gets no payload
\* (Mount.cpp:66-69); the call was denied for a reason that parseAndStripRPC
\* asserts not to exist (rpc.hpp:95); a mount is answered with data in the
\* verifier, in which the number of authentication types is then read
\* (rpc.hpp:103, Mount.cpp:78-82).  Neither a number that bounds a loop nor the
\* reason of a denial comes from an earlier reply or from the recycled buffer.
OnlyTheReplyEndsCall ==
    [][(rc = 0 /\ Received /\ exit = "running" /\ exit' # "running")
         => \/ exit' = "aborted" /\ Line("makeMountCall") /\ NullPayload
            \/ exit' = "aborted" /\ Answered("UNKNOWN")
            \/ exit' = "crashed" /\ Line("makeMountCall") /\ Answered("VERIFIED")
      ]_clientVars

\* recv finds the stream at its end and returns 0 each time receive asks.
AtEndOfStream ==
    phase # "idle" /\ Available = 0 /\ link \in {"eof", "dead"}

\* receive has read a size where no record mark was, since an earlier receive on
\* this connection was interrupted, and waits for more than the server sends.
OutOfStep ==
    WaitsForData /\ phase = "body" /\ MessageStart % FrameCells # HeaderCells

\* The program comes to an end (main.cpp:38-80) when the server answers every
\* request it takes, whatever it answers.  Two things can keep it from that,
\* whatever else has failed before: a connection that ends under a receive, whose
\* loop takes the 0 of recv for a timeout (Context.cpp:146-162), and the size that
\* a call to the port mapper reads out of step, when an interrupted call before
\* it has left a part of its reply in the stream (Context.cpp:150-154, 171,
\* PortMapperContext.cpp:9).
Termination == <>[](exit # "running" \/ AtEndOfStream \/ OutOfStep)

-----------------------------------------------------------------------------
(***************************************************************************)
(* What the proofs need beyond the properties above.                       *)
(***************************************************************************)

\* The call under way is the one main's line makes.
CallOfLine == Calling => at \in 1 .. Len(Script) /\ Script[at] = call.op

\* A call that has connected waits on the port of the service it is for.
ConnectedForCall == stage = "send" => port = PortFor(call.op)

\* A service answers with the results of the procedure it was asked for.
ResultsFit ==
    \A i \in 1 .. Len(replies) :
        replies[i].status = "SUCCESS"
            => replies[i].value \in Results(replies[i].req.op)
                                     \cup Refusals(replies[i].req.op)

\* The inductive invariant.
ClientIInv ==
    /\ RpcIInv
    /\ ClientTypeOK
    /\ CallOfLine
    /\ ConnectedForCall
    /\ ResultsFit

-----------------------------------------------------------------------------
(***************************************************************************)
(* What the repository says of the program, and the program does not do.   *)
(***************************************************************************)

\* DASSERT(src) of xdr_decode_u32 (xdr.cpp:79) holds of every caller.
SourceIsNeverNull == ~ (exit = "aborted" /\ NullPayload)

\* "Root entries of the tree have iName same as export of remote"
\* (FSTree.hpp:31): once main has added its export, getRoot finds the root.
RootIsFound == Line("getRoot") => RootKey \in tree
=============================================================================
