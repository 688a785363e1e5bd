----------------------------- MODULE RpcMessage -----------------------------
(***************************************************************************)
(* A call and its reply byte for byte: the request getPort, makeMountCall  *)
(* and makeUmountCall lay out with RPC::makeRPC and RPC::addAuthSys        *)
(* (rpc.hpp:13-63), the server that reads it and answers, and              *)
(* RPC::parseAndStripRPC (rpc.hpp:65-124) and its caller that take the     *)
(* reply apart.                                                            *)
(*                                                                         *)
(* RpcCall has whole and cut messages and no bytes, this module bytes of   *)
(* whole messages.  What a server does with bytes is XDR's and RPC's and   *)
(* not of this code: external.                                             *)
(***************************************************************************)
EXTENDS Xdr

CONSTANTS
    Xids,       \* the xid of the call, and of an earlier one
    Stamps,     \* the stamps addAuthSys draws
    Machines,   \* what getSelfFQDN returns, byte strings
    Paths,      \* exports to mount, byte strings
    Ports,      \* ports the port mapper gives
    Granted,    \* file handles the mount service gives, byte strings
    AuthLists,  \* the flavors it announces with them
    Verifiers   \* bodies of a server's verifier

ASSUME WordsAssumption ==
    /\ Xids \cup Stamps \cup Ports \subseteq U32
    /\ AuthLists \subseteq Seq(U32)
ASSUME TextsAssumption ==
    /\ Machines \cup Paths \cup Granted \cup Verifiers \subseteq Seq(Byte)
    /\ \A handle \in Granted : Len(handle) <= 64

\* The programs.
PORTMAP == 100000
NFS == 100003
MOUNT == 100005

\* Bytes of the buffer of a request (GenericEnums.hpp:7, 9, 10).
RequestSize == 1024

\* A word holds the numbers of the programs and of flavors, and below its highest
\* bit the size of a request.  A request is at most 87 bytes longer than its texts.
\* No one looks whether it fits its buffer: names and exports with which it does
\* not are left out, what the code does then is undefined.
ASSUME SizesAssumption ==
    /\ {PORTMAP, NFS, MOUNT} \subseteq U32
    /\ \A auths \in AuthLists : Len(auths) \in U32
    /\ RequestSize < HighBit * (Base * Base * Base)
    /\ \A name \in Machines \cup {<<>>}, path \in Paths \cup {<<>>} :
          Len(name) + Len(path) + 87 <= RequestSize

Null == -1
NoResult == [done |-> FALSE]

VARIABLES
    xid, stamp, machine,  \* what goes into the request beside the call
    call,     \* the program, its version, the procedure and its argument
    wire,     \* the request
    reply,    \* what the server means by its reply
    buffer,   \* wireResponse: the reply's bytes, then junk
    payload,  \* what parseAndStripRPC returned, an offset into buffer
    result,   \* what the caller decoded
    stage     \* "idle", "sent", "replied", "parsed", "returned" or "aborted"

vars == <<xid, stamp, machine, call, wire, reply, buffer, payload, result, stage>>

-----------------------------------------------------------------------------
(***************************************************************************)
(* The request.                                                            *)
(***************************************************************************)

\* Word after word.
EncodeWords(ws) ==
    [i \in 1 .. WordBytes * Len(ws) |->
        EncodeU32(ws[((i - 1) \div WordBytes) + 1])[((i - 1) % WordBytes) + 1]]

GetPort(program) ==
    [program |-> PORTMAP, version |-> 2, procedure |-> 3,
     argument |-> <<program, 3, 6, 0>>]
Mount(path) ==
    [program |-> MOUNT, version |-> 3, procedure |-> 1, argument |-> path]
Umount(path) ==
    [program |-> MOUNT, version |-> 3, procedure |-> 3, argument |-> path]

Calls ==
    {GetPort(program) : program \in {NFS, MOUNT}}
    \cup {Mount(path) : path \in Paths} \cup {Umount(path) : path \in Paths}

IsGetPort(c) == c.program = PORTMAP
IsMount(c) == c.program = MOUNT /\ c.procedure = 1

\* A CALL of RPC version 2, with room for the record mark.
MakeRPC(x, c) == EncodeWords(<<0, x, 0, 2, c.program, c.version>>)

\* What addAuthSys puts behind the size of the credentials.  A size is
\* measured from the beginning of its buffer, 8 bytes before these.
Credentials ==
    LET name == EncodeWords(<<stamp>>) \o EncodeBytes(machine)
    IN  name \o Zeros(Padding(8 + Len(name), WordBytes)) \o EncodeWords(<<0, 0, 1, 0>>)

\* AUTH_SYS, the size, put in last, the credentials, and no verifier.
AddAuthSys ==
    EncodeWords(<<1, Len(Credentials)>>) \o Credentials \o EncodeWords(<<0, 0>>)

\* The argument, behind as many bytes of the message.
Argument(c, size) ==
    IF IsGetPort(c)
    THEN EncodeWords(c.argument)
    ELSE LET path == EncodeBytes(c.argument)
         IN  path \o Zeros(Padding(size + Len(path), WordBytes))

\* Mutant of Sealed: the size counts the mark.
SealedWithMark(bytes) ==
    LastFragment(EncodeU32(Len(bytes))) \o SubSeq(bytes, WordBytes + 1, Len(bytes))

\* The record mark is put in when the size is known.
Sealed(bytes) ==
    LastFragment(EncodeU32(Len(bytes) - WordBytes))
        \o SubSeq(bytes, WordBytes + 1, Len(bytes))

Request ==
    LET head == MakeRPC(xid, call) \o EncodeU32(call.procedure) \o AddAuthSys
    IN  Sealed(head \o Argument(call, Len(head)))

Init ==
    /\ xid \in Xids
    /\ stamp \in Stamps
    /\ machine \in Machines
    /\ call \in Calls
    /\ wire = <<>>
    /\ reply = NoResult
    /\ buffer = <<>>
    /\ payload = Null
    /\ result = NoResult
    /\ stage = "idle"

SendRequest ==
    /\ stage = "idle"
    /\ wire' = Request
    /\ stage' = "sent"
    /\ UNCHANGED <<xid, stamp, machine, call, reply, buffer, payload, result>>

-----------------------------------------------------------------------------
(***************************************************************************)
(* The server: the request by XDR and RPC, and the replies there are.      *)
(***************************************************************************)

\* Where what follows an opaque starts.
Behind(src, at) ==
    LET length == DecodeU32(src, at)
    IN  at + WordBytes + length + Padding(length, WordBytes)

WordsAt(src, at, n) == [i \in 1 .. n |-> DecodeU32(src, at + WordBytes * (i - 1))]

\* A message: record mark (the last fragment, its size), xid, type, RPC version,
\* program, version, procedure, flavor, credentials (stamp, machine, uid, gid,
\* gids), verifier, argument.
Heard(src) ==
    LET ids == Behind(src, 40)
        verifier == Behind(src, 32)
        argument == Behind(src, verifier + WordBytes)
        words == DecodeU32(src, 16) = PORTMAP
    IN  [last |-> src[1] >= HighBit,
         size |-> DecodeU32(StripLastFragment(src), 0),
         header |-> WordsAt(src, 4, 7),
         stamp |-> DecodeU32(src, 36),
         machine |-> Opaque(src, 40),
         ids |-> WordsAt(src, ids, 4),
         idsEnd |-> ids + 16,
         verifierAt |-> verifier,
         verifier |-> WordsAt(src, verifier, 2),
         argument |-> IF words THEN WordsAt(src, argument, 4) ELSE Opaque(src, argument),
         end |-> IF words THEN argument + 16 ELSE Behind(src, argument)]

\* The results of a call that succeeds: a port; a status and, if it is 0, a
\* handle and flavors; or nothing.
Results(c) ==
    IF IsGetPort(c)
    THEN {[port |-> port] : port \in Ports}
    ELSE IF IsMount(c)
    THEN {[status |-> 0, handle |-> h, auths |-> a] : h \in Granted, a \in AuthLists}
         \cup {[status |-> 13, handle |-> <<>>, auths |-> <<>>]}
    ELSE {[done |-> TRUE]}

Padded(bytes) == EncodeBytes(bytes) \o Zeros(Padding(Len(bytes), WordBytes))

ResultBytes(c, r) ==
    IF IsGetPort(c)
    THEN EncodeU32(r.port)
    ELSE IF IsMount(c)
    THEN IF r.status # 0
         THEN EncodeU32(r.status)
         ELSE EncodeU32(0) \o Padded(r.handle)
                \o EncodeWords(<<Len(r.auths)>> \o r.auths)
    ELSE <<>>

\* An accepted call, with a verifier and an accept_stat, or one denied, for its
\* RPC version, its credentials or a reason nobody knows.
Replies ==
    [xid : {Heard(Source(wire, 0)).header[1]} \cup Xids, accepted : {TRUE},
     verifier : Verifiers, stat : {0}, result : Results(call)]
    \cup [xid : {xid}, accepted : {TRUE}, verifier : Verifiers, stat : 1 .. 5,
          result : {NoResult}]
    \cup [xid : {xid}, accepted : {FALSE}, verifier : {<<>>}, stat : 0 .. 2,
          result : {NoResult}]

ReplyBytes(r) ==
    IF r.accepted
    THEN EncodeWords(<<r.xid, 1, 0, IF r.verifier = <<>> THEN 0 ELSE 2>>)
           \o Padded(r.verifier) \o EncodeU32(r.stat)
           \o (IF r.stat = 0 THEN ResultBytes(call, r.result)
               ELSE IF r.stat = 2 THEN EncodeWords(<<2, 3>>) ELSE <<>>)
    ELSE EncodeWords(<<r.xid, 1, 1, r.stat>>)
           \o (IF r.stat = 0 THEN EncodeWords(<<2, 2>>) ELSE EncodeU32(5))

\* receive has stripped the record mark.
ServerReplies ==
    /\ stage = "sent"
    /\ reply' \in Replies
    /\ buffer' = ReplyBytes(reply')
    /\ stage' = "replied"
    /\ UNCHANGED <<xid, stamp, machine, call, wire, payload, result>>

-----------------------------------------------------------------------------
(***************************************************************************)
(* The reply.                                                              *)
(***************************************************************************)

\* Mutant of PayloadOf: a denied call is taken for an accepted one.
PayloadOfDenied(src) ==
    IF DecodeU32(src, 0) = xid /\ DecodeU32(src, 20) = 0 THEN 24 ELSE Null

\* The payload is behind xid, type, reply type, flavor and length of the
\* verifier, and accept_stat; any reply type but MSG_DENIED is accepted.
PayloadOf(src) ==
    IF /\ DecodeU32(src, 0) = xid
       /\ DecodeU32(src, 8) # 1
       /\ DecodeU32(src, 20) = 0
    THEN 24
    ELSE Null

\* Denied, and for neither of the two reasons: an assertion fails.
ParseAborts(src) ==
    /\ DecodeU32(src, 0) = xid
    /\ DecodeU32(src, 8) = 1
    /\ DecodeU32(src, 12) \notin {0, 1}

ParseAndStripRPC ==
    /\ stage = "replied"
    /\ \E junk \in {0, Base - 1} :
          /\ ~ ParseAborts(Source(buffer, junk))
          /\ payload' = PayloadOf(Source(buffer, junk))
    /\ stage' = "parsed"
    /\ UNCHANGED <<xid, stamp, machine, call, wire, reply, buffer, result>>

ParseAssertion ==
    /\ stage = "replied"
    /\ ParseAborts(Source(buffer, 0))
    /\ stage' = "aborted"
    /\ UNCHANGED <<xid, stamp, machine, call, wire, reply, buffer, payload, result>>

\* xdr_decode_nBytes: the bytes, and the offset behind them; of a length it does
\* not accept nothing is taken, and the offset is behind the length.
DecodedHandle(src, at) ==
    IF DecodeU32(src, at) <= 64
    THEN [bytes |-> Opaque(src, at), end |-> at + WordBytes + DecodeU32(src, at)]
    ELSE [bytes |-> <<>>, end |-> at + WordBytes]

\* Mutant of DecodedGrant: the number of flavors is taken for a flavor.
DecodedGrantOneMore(src, at) ==
    LET handle == DecodedHandle(src, at)
    IN  [status |-> 0, handle |-> handle.bytes,
         auths |-> WordsAt(src, handle.end, DecodeU32(src, handle.end))]

\* A handle, the number of flavors, the flavors.
DecodedGrant(src, at) ==
    LET handle == DecodedHandle(src, at)
    IN  [status |-> 0, handle |-> handle.bytes,
         auths |-> WordsAt(src, handle.end + WordBytes, DecodeU32(src, handle.end))]

\* The caller returns r.
Returns(r) ==
    /\ result' = r
    /\ stage' = "returned"
    /\ UNCHANGED <<xid, stamp, machine, call, wire, reply, buffer, payload>>

\* getPort: -1 without a payload.
ReturnPort ==
    /\ stage = "parsed"
    /\ IsGetPort(call)
    /\ Returns([port |-> IF payload = Null THEN -1 ELSE DecodeU32(buffer, payload)])

\* makeMountCall.
ReturnMounted ==
    /\ stage = "parsed"
    /\ IsMount(call)
    /\ payload # Null
    /\ \E junk \in {0, Base - 1} :
          LET src == Source(buffer, junk)
              status == DecodeU32(src, payload)
          IN  Returns(IF status = 0
                      THEN DecodedGrant(src, payload + WordBytes)
                      ELSE [status |-> status, handle |-> <<>>, auths |-> <<>>])

\* makeMountCall decodes a null pointer, which is asserted not to be one.
MountAsserts ==
    /\ stage = "parsed"
    /\ IsMount(call)
    /\ payload = Null
    /\ stage' = "aborted"
    /\ UNCHANGED <<xid, stamp, machine, call, wire, reply, buffer, payload, result>>

\* makeUmountCall takes no result.
ReturnUmounted ==
    /\ stage = "parsed"
    /\ ~ IsGetPort(call) /\ ~ IsMount(call)
    /\ Returns([done |-> TRUE])

Next ==
    \/ SendRequest
    \/ ServerReplies
    \/ ParseAndStripRPC
    \/ ParseAssertion
    \/ ReturnPort
    \/ ReturnMounted
    \/ MountAsserts
    \/ ReturnUmounted

Spec == Init /\ [][Next]_vars

-----------------------------------------------------------------------------
(***************************************************************************)
(* Properties.                                                             *)
(***************************************************************************)

\* A server that knows nothing of how the message was put together reads its size
\* from the record mark and hears the call that was meant, with its credentials,
\* and what it has heard ends where the message does (rpc.hpp:13-63,
\* PortMapperContext.cpp:20-59, Mount.cpp:23-53): two sizes put in afterwards, the
\* mark's and the credentials', two alignments in two buffers, a copy of one into
\* the other, for host names and paths of any length by four.
RequestIsHeard ==
    stage # "idle" =>
        LET heard == Heard(Source(wire, 0)) IN
        /\ heard.last /\ heard.size = Len(wire) - WordBytes
        /\ heard.header = <<xid, 0, 2, call.program, call.version, call.procedure, 1>>
        /\ heard.stamp = stamp
        /\ heard.machine = machine
        /\ heard.ids = <<0, 0, 1, 0>>
        /\ heard.idsEnd = heard.verifierAt
        /\ heard.verifier = <<0, 0>>
        /\ heard.argument = call.argument
        /\ heard.end = Len(wire)

\* The call succeeded, as the server has it.
Succeeded == reply.accepted /\ reply.xid = xid /\ reply.stat = 0

\* Of all replies, late, denied and failed ones, with whatever lies behind them
\* in the buffer, just a success of this call has a payload, and that is where
\* its results are, unless there is a verifier (rpc.hpp:65-124).
PayloadIsResults ==
    (stage \in {"parsed", "returned"} /\ (reply.accepted => reply.verifier = <<>>)) =>
        IF Succeeded THEN payload = Len(buffer) - Len(ResultBytes(call, reply.result))
                     ELSE payload = Null

\* What the caller decodes is what the server meant: the port, the handle whatever
\* its length, and the flavors if the handle is a whole number of words, since
\* xdr_decode_nBytes skips no padding (PortMapperContext.cpp:74-78, Mount.cpp:68-82).
ResultIsMeant ==
    (stage = "returned" /\ Succeeded /\ reply.verifier = <<>>) =>
        \/ result = reply.result
        \/ /\ IsMount(call)
           /\ Len(reply.result.handle) % WordBytes # 0
           /\ result.handle = reply.result.handle

=============================================================================
