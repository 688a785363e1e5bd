# A TLA+ model of nfs-client-simulator

The program (`src/main.cpp`) plays an NFS client against one server: it asks the
port mapper for the ports of the mount and the NFS service, mounts an export,
enters it in a tree, looks up a file and unmounts. Everything goes over **one**
TCP connection object, `Context`, that is moved from port to port, and over
record-marked RPC messages laid out by hand. There is one thread; what makes the
program hard is the network beside it: a byte stream that is cut anywhere,
connections that are refused, closed or reset, receives that fail half way, and
callers that look at none of the results.

This directory models the connection, the calls, the whole program with a server
and a network beside it, the wire format, and the smaller parts around them: the
command line, the names of inodes, the names of enumerators. It model-checks them
with TLC and proves the main safety properties with TLAPS.

    tlc -workers 2 -config MCContextPorts.cfg MCContext.tla
    tlapm ContextProofs.tla


## 1. Inventory

| component (source) | state | operations | made correct by |
|---|---|---|---|
| **Context** (`Context.hpp`, `Context.cpp:12-221`) | `socketFd`, `port`, `connectError`, totals, `mountPort`, `nfsPort` | `connect` x2, `disconnect`, `connectPortMapperPort`/`MountPort`/`NfsPort`, the setters, `send`, `receive`, `printStatus` | one socket, to the port asked for, with an honest status; a successful `receive` delivers one whole message and stays in step |
| **RPC** (`rpc.hpp`) | none | `makeRPC`, `addAuthSys`, `parseAndStripRPC` | a reply accepted is the reply to this call |
| **PortMapperContext** (`PortMapperContext.cpp`) | a reference to the Context | `getPort`, `getMountPort`, `getNfsPort` | the port returned is the port mapper's answer |
| **MountContext** (`Mount.cpp`) | `mountHandle` | `makeMountCall`, `makeUmountCall`, setters of path and version | the handle is one the server granted |
| **FSTree** (`FSTree.cpp`) | a map from path to root | `addMountHandle`, `getRoot` | the root entered is found |
| **Inode** (`Context.hpp:98-224`, `Context.cpp:225-301`) | name, handles, permissions | constructor, `stripSlash`, `lookup` | inodes lie below the export; a lookup decodes its own handle |
| **main** (`main.cpp`) | local ports | a straight line of calls | reaches its end |
| **XDR codec** (`xdr.cpp`) | none | `encode`/`decode` of words, strings, vectors; alignment; record mark | decoding inverts encoding |
| **ServerContexts**, **parseArgs** (`Context.hpp:254-302`, `Utils.cpp:34-74`) | contexts and their use counts | `addContext`, `getContext`, `putContext`, the `-s` option | the contexts are the servers asked for; the one main uses is counted while it is used |
| **Utils** (`Utils.cpp:76-125`) | the counter of `getMonotonic` | random numbers, host name, buffer owner | xids differ |
| **DescriptiveEnum** (`descriptiveenum/`, the enumerations of `GenericEnums.hpp`, `Context.hpp`, `PortMapperContext.hpp`, `rpc.hpp`) | a map from values to names for each enumeration | `generateEnumMap`, `printEnum` | the name printed is the value's |
| **Logging** | the log level | printing | - |

How they interact: `main` calls `PortMapperContext` and `MountContext` in turn.
Each of their calls (a) connects the shared `Context`, (b) builds a request with
`RPC` and the XDR encoders, drawing the xid and an authentication stamp from
`getMonotonic`, (c) calls `Context::send`, then `Context::receive` into a buffer
that was just allocated and not initialised, (d) hands the buffer to
`RPC::parseAndStripRPC` and decodes what it returns. Steps (a) and (c) return
errors that no caller looks at. The server and the network act between any two
system calls. Before the calls `parseArgs` fills `ServerContexts`, of which main takes
the first context and puts it back at the end.

Hard behaviours, each at its line in `PROJECT.json` under `hazards`: the state a
failed `receive` leaves in the stream and in the buffer, `connect` results that
are ignored, descriptor 0, connections that are trusted because the port is the
same, a recycled response buffer, xids that wrap, null payloads that are decoded,
handles that are appended and never replaced, alignment, sizes put in afterwards, buffers
nobody measures, data that are announced and not skipped, a denial that is asserted not to exist, a port found by pointer arithmetic on what `strtok`
has cut, searches in a name that is being taken apart, a second numbering of
enumerators beside the compiler's.


## 2. Modules

| module | what it is |
|---|---|
| `Context` | class Context, the kernel's end of the connection, the server's replies and the network |
| `MCContext` | its instance for TLC |
| `ContextProofs` | its inductive invariant and theorems |
| `AbstractCall` | what a call promises: it goes out once, is answered once, and returns that answer or none |
| `RpcCall` | EXTENDS Context with a call: xid, send, receive, parse, for any caller; implements `AbstractCall` |
| `MCRpcCall` | its instance for TLC; its theorems are in `NfsClientProofs` |
| `NfsClient` | EXTENDS RpcCall with main, PortMapperContext, MountContext, FSTree, lookup and a server of three services |
| `NfsClientProofs`, `MCNfsClient` | theorems of `RpcCall` and `NfsClient`, and the instances for TLC |
| `Xdr` | the codec on bytes, as operators |
| `XdrMessage` | EXTENDS Xdr: a message is encoded field by field, sealed, decoded field by field |
| `XdrProofs` | lemmas and theorems about the codec |
| `XdrMessageProofs`, `MCXdrMessage` | theorems about `XdrMessage`, and its instance for TLC |
| `RpcMessage` | EXTENDS Xdr: a request and its reply byte for byte, as `rpc.hpp` and its callers lay them out and take them apart |
| `RpcMessageProofs`, `MCRpcMessage` | its theorems, and its instance for TLC |
| `Startup` | `parseArgs` and `ServerContexts`, as main uses them |
| `StartupProofs`, `MCStartup` | its theorems, and its instance for TLC |
| `InodeNames` | the constructor of `Inode`, `stripSlash` loop by loop, the default permissions |
| `InodeProofs`, `MCInodeNames` | its theorems, and its instances for TLC |
| `EnumNames` | the program's enumerations, `generateEnumMap` and `printEnum` |
| `EnumProofs`, `MCEnumNames` | its theorem, and its instance for TLC |

### Context

The object's fields keep their names; its mutex is held from end to end by every
operation and the program has one thread, so an operation is one step, except
`receive`: each `recv` is a step (`Recv`, `RecvError`, `RecvNothing`), with
`phase`, `size`, `pending` for its local variables. Seven variables are the
kernel's: `openFds`, `link` (what the connection is: `none`, `unconnected`,
`open`, `eof` after the server's FIN, `reset`, and `dead` once an error has been
taken from it) and `peer`, and the stream: `sent`, `answered`, `replies`,
`arrived`.

* A reply is 8 *cells* (half words): two of the record mark, then two each of the
  xid, the status (message type to accept_stat) and the result. `recv` returns
  whatever has arrived, up to what is asked for, and `Deliver` decides what has:
  so a message is cut at every cell. Half words are enough to cut *inside* the
  mark and inside each word that is compared.
* Bytes that are not a record mark, but are decoded as one, give any of `FalseSizes` (the
  code: anything below 2^31): some that end before, at or inside a word, and, where the end
  of the program is checked, one larger than all the server will ever send, for which a
  receive waits for ever on an open connection. The proofs allow any set of sizes.
* A cell in a buffer is named by its place in its frame and its reply; anything
  else is `Junk`. A new response buffer is uninitialised or the previous one,
  recycled by the allocator with its first bytes, the xid among them, overwritten.
* `RecvError` also happens on an open connection (fault `interrupt`): a blocking
  `recv` under `SO_RCVTIMEO` returns EINTR after SIGSTOP/SIGCONT without any
  handler. EAGAIN and end of stream only go round the loop (`RecvNothing`).
* One fragment per reply: the code strips the bit of a last fragment without
  looking at it, and knows of no other fragment.

### RpcCall

`seq` names a request by the value of `getMonotonic`'s counter; its xid is
`seq % XidModulus` (2^32 in the code). A call draws two values, the xid and the
stamp of `addAuthSys`. `parseAndStripRPC` is three predicates on the buffer:
`NullPayload`, `HasPayload`, `ParseAsserts`; a word that is not whole (its halves
are of different replies, or junk) reads as any value. One assumption is made
here: such a word, or a word of the wrong kind, does not equal the xid by chance.
A reply has one of four statuses: `SUCCESS`; `FAILED`, what `parseAndStripRPC` turns into
null; `UNKNOWN`, a denial for a reason other than the two it asserts to be all
(`rpc.hpp:95`: the process ends); and `VERIFIED`, an accepted call with data in its
verifier, which are not skipped (`rpc.hpp:103`), so that the reply reads as a success or a
failure with any result.
`RpcSpec` lets any program call any procedure on any of the three connections.

`AbstractCall` knows nothing of streams, buffers and xids: a call is `made`, `served`
by a server with some answer, and `returned` with that answer or with nothing, once
each. Two calls may return anything: one whose receive failed, and one whose answer has
data in its verifier; an unknown denial has no outcome, since the process ends.
`CallIsAbstract` maps the state of `RpcCall` to it (`INSTANCE AbstractCall WITH ...`).

### NfsClient

`Script` is main's line of calls, `MainScript` the one in `main.cpp`. A step of
the program is a step of the call its line makes, or what that line does with the
reply. `exit` says how the process ended: `exited`, `killed` (SIGPIPE from
`send`), `aborted` (an assertion) or `crashed` (a null pointer or a read past a
buffer). `GetRoot` dereferences `end()`: it crashes, or yields what lies behind
the map's header, a null `shared_ptr` in the usual layout; `Lookup` then ends the
program either way, so that what is behind `Context.cpp:228` is not modelled.
`KilledBySend` is also allowed when a reset is pending, where the kernel reports
ECONNRESET first unless the FIN came before: an over-approximation.

A service answers what it was asked on its own port; a request that reaches
another service is refused. `ServerFaults` lets services reject calls
(`reject`), deny them for an unknown reason (`unknown`) and put data into verifiers
(`verify`), the port mapper not know a program (`unregistered`, port 0) and the
mount service deny (`deny`). `client_main` has `unregistered` and `verify`, which
reads as a rejected or denied reply too; `client_remount` `deny`, `unknown` and `verify`;
`null_source` `reject`.

### Xdr and XdrMessage

Bytes of `Base` values (256 in the code); sequences from 1, offsets from 0.
`XdrMessage` puts fields into a message as the callers do - strings are followed
by `xdr_encode_align`, vectors are not -, seals it with the record mark when the
size is known, and takes it apart in the same order with what is behind the
message reading as junk. In `RpcMessage` the fields are those of the three calls, with
the size of the credentials put in when it is known, and the reader is a server
that knows XDR and RPC and nothing of the encoder (`Heard`, external: it reads the last
fragment's bit and the size from the record mark, then the fields); every reply
there is (late, denied, failed, with and without a verifier) goes through
`parseAndStripRPC` and the caller's decoders. Left out: `getInteger` (never instantiated; its loop
never advances), `mem_dump_impl` (prints) and the empty `xdr_encode_handlestring`.

### Startup

An option's argument is a sequence of commas, letters and digits. `Token` and `Number` are
`strtok` and `atoi`; `PortText` is the code's pointer arithmetic: as many characters
from the *start of the argument* as the token is long, plus one. `AddServer`,
`SkipOption`, `CrashOnNoToken` (`strlen` of a null pointer) and `EndOfOptions` are one
round of the loop each; `GetContext`, `MakeCalls` and `PutContext` are main's use
of the first context, where `vector::at` or an assertion may end the process.

### InodeNames

A name is a sequence of slashes, dots and other characters. Each round of a loop of
`stripSlash` is a step on `myName`, since what matters is what one removal leaves for
the next search. `Construct` is the rest of the constructor: `selfDir` for a directory,
`self` for any other inode; the `self` a directory assigns is a local variable.

### EnumNames

The enumerations are copied from the sources as sequences of enumerators. What `stoll`
reads of an initialiser (`reads`) and what it means to the compiler (`means`) are two
numbers, which differ for `(1u << n)`. `NameNext` and `NameAt` are the two branches
of `generateEnumMap`'s loop, `PrintEnum` is `operator[]` on the static map. Cutting the
text at commas and equals signs is left out.


## 3. What the runs check

| run (`PROJECT.json`) | states | shows |
|---|---|---|
| `context_ports` | 770k | any calls in any order, two ports, descriptors 0 and 3, every failure of connecting: `OneSocket` (no descriptor leaks), `TalksToPort` (the connection is to the port asked for, but for descriptor 0), `StatusTruthful` (`connectError` and `socketFd` tell a made connection, though `connect()` returns 0 for both and an old `connectError` survives), `StreamCounted` (totals belong to this connection), `ReceiveEnds` (a receive that goes on for ever goes on over a connection the server has left silent, see Fairness) |
| `rpc_call` | 1.9M | two calls, the first may fail and leave its reply in the stream or the buffer: `WholeReply` (what a successful receive delivers under an xid is one whole reply, not a mixture), `StaysInStep` (a receive that starts at a message ends at the next), `AnswerIsMine` (a reply whose xid is accepted after a successful receive answers this call, whatever its status), `OnlyKnownRequests` (nothing in flight or in the buffer bears a later call's, or another's, number) and `CallIsAbstract` (the refinement of `AbstractCall`); replies of all four statuses |
| `client_main` | 849k | the program as `main` runs it, with every fault of the network: `LearnsServersPorts` (a port main learns after a successful receive is the port mapper's answer to that very question, unless that has data in its verifier) and `Termination` (the program ends, with two exceptions, see Fairness) |
| `client_remount` | 4.4M | mount, mount again, unmount, with descriptors 0 and 3: `HandleIsGranted` (after a successful receive a handle is appended only when the service has just granted it, unless it answered with data in the verifier), `RequestGoesToItsService` (a request leaves on a connection to the port it is for, or over descriptor 0, which `disconnect` does not close: there it does go to the service connected before), `OnlyTheReplyEndsCall` (after a receive that succeeded a call ends the process in three ways, each for the reply to this very call: a mount without a payload, a denial for an unknown reason, a mount's reply with data in its verifier) |
| `xdr_message` | 80k | all messages of up to three fields: `MarkIsTruthful`, `WholeWords` (every field at a word), `ReadsBack` (each decoder leaves the offset at the next field, up to a string with padding) |
| `rpc_message` | 23k | requests byte for byte: `RequestIsHeard` (the server reads the size from the record mark and hears the call that was meant, and nothing is left over), `PayloadIsResults` (a payload is there just for a success of this call, and starts at its results), `ResultIsMeant` (the caller decodes what the server meant) |
| `startup` | 587k | every command line of up to two options: `ContextsAreServers` (the contexts are the `server,port` arguments), `UsageIsBalanced` (the flag and the counter of `parseArgs` agree with the vector, no assertion on a use count fails, nothing is in use at the end) |
| `inode_names` | 1.7M | two inodes, of any type and any name of up to four characters, the second below the first or the export: `StripsSlashes` (slashes go, with the dots that stood before one, and nothing else), `NamesStayInside` (each lies right below its parent, and at last below the export) |
| `enum_names` | 2k | the 19 enumerations and all small ones, with values from a server printed: `NamesAreTheCompilers` |
| `null_source` | violation | `makeMountCall` decodes the null payload of a rejected call (`DASSERT(src)`, `xdr.cpp:79`) |
| `root_lookup` | violation | `getRoot` looks for the key `""`, `addMountHandle` enters the export (`FSTree.hpp:31`) |
| `xdr_null` | violation | `xdr_encode_string` does not copy the null byte its comment announces (`xdr.cpp:41`) |

Several properties are conditioned on `rc = 0`. That is what the code earns: after
a receive that *failed* behind the xid, `parseAndStripRPC` reads the status and
the result from the recycled buffer, and may return an earlier call's port; no
caller looks at `rc`. Data in a verifier are misread as status and result whenever there
are any, so that `LearnsServersPorts`, `HandleIsGranted` and `CallIsAbstract` claim nothing of
a call answered with them. `ReadsBack` likewise stops at a string with padding,
because `xdr_decode_string` does not skip it, and takes a `uint64_t` modulo 2^32,
because `xdr_decode_u64` gathers it in 32 bits; `PayloadIsResults` and `ResultIsMeant` leave
out verifiers, `ResultIsMeant` the flavors behind a handle that needs padding;
`ContextsAreServers` leaves out arguments that begin with a comma (`,,7` has port 7, `,ab,7`
none), and `NamesAreTheCompilers` initialisers that are no plain number: `stoll` reads
`1u << 3` as 1, so that all of `PERMS` share a name, which nothing prints.

Every property of a passing run has a mutant in `PROJECT.json`: a definition of
the model changed as a plausible bug would change the code, that makes the run
fail.

### Bounds

* `MaxSent` requests per connection: 1 or 2 in the runs of `Context` and
  `RpcCall`, where 2 is the least that leaves one message in the stream behind
  another; 6 in the client, more than a run of main sends.
* `FalseSizes`: 0, which makes a receive succeed with nothing taken, and one more. 1, 2 or 3 of
  the 6 cells of a message end inside or behind a word, or in the next message; 20 in
  `client_main` is more than the two replies of 8 cells the port mapper sends on
  a connection, so that the receive waits for ever. None in the runs without faults,
  which cut no message.
* `MaxCalls`: 2 calls are the least in which one can answer the other; 9 and 6 are
  the script's lengths. `XidModulus` is `2 * MaxCalls`, the tightest the
  assumption allows, and `Seeds` is chosen so that xids wrap during the run.
* `Fds` is one descriptor, or 0 and 3: 0 is the value the code treats apart.
* `Statuses`: the four above in all runs of calls; one in `context_ports`, whose `Context` does
  not read them. `Values`, `Handles`: two of each where they are compared, so that a swap shows.
* `Base` 4: a byte has two bits, a word eight; `Words` and `Longs` hold both ends
  and the highest bit. Strings and vectors of 0 to 4 bytes: every remainder by 4.
  `MaxFields` 3: a field before and a field behind each field. `BufferSize` 32 never
  refuses them. In `RpcMessage` `Base` is 32, so that a word holds program numbers up to
  100005; names, paths and handles have every remainder by 4. `RequestSize` is the code's 1024.
* `MaxText` 4, `MaxOptions` 2: the least for a comma before, between and behind a server
  and a port, and for a bad option before and after a good one.
* `MaxName` 4: a pair of characters around the place where another has been removed;
  `MaxInodes` 2: an inode below another.
* `MaxPrints` 2: an unknown value, and one printed after it. `SizeModulus` is above all
  values of the enumerations. Small enumerations have three enumerators and the values
  -1, 0 and 1: enough to repeat a value and to count on from each.

Symmetry is used where values are only compared: `Handles` in the client, `Ops`
and `Values` in `RpcCall`, whose `RpcNext` treats all procedures alike; the runs
that use it check no liveness.

### Fairness

`FairClientSpec` assumes weak fairness of the program's steps (one thread, blocked
only in `recv`), of the server's answers and of their arrival. A `recv` that has nothing to
take on an open connection is blocked (`WaitsForData`): it need not return, so that neither
data nor a signal is assumed to come. Nothing in the
code makes up for a server that does not answer: the receive timeout only starts
`recv` again. Everything else may go wrong: connections are refused, closed and reset,
receives interrupted, calls refused. `Termination` says that the program then still
ends, with two exceptions. `AtEndOfStream`: a connection ends under a receive, where
`recv` returns 0 and the loop of `receive` goes round for ever. `OutOfStep`: the receive of
one call to the port mapper is interrupted behind the record mark, the next call uses the same
connection, reads a size where there is none, and waits for that many bytes on an open
connection whose server has answered all. Without the faults `close`, `reset` and `interrupt`
there is neither. The repository claims nothing of such
connections, so that these are hazards and not findings.

What a single receive needs is `ReceiveEnds`, in `context_ports`. `ReceiveFairness` is weak fairness
of the program's `recv` when there is something to take - bytes that have arrived, a
reset - and of nothing else: no answer, no arrival is promised. `ReceiveEnds` then says
that a receive ends unless the connection is `Starved` from some time on: nothing has
arrived that it has not taken, be it that the server is silent, or has closed the
connection and `recv` returns 0, round after round. It has no other way to hang.

Deadlock is checked in all runs but those of the modules that describe one message, one
start or one line of inodes and names, which are done when they are done
(`XdrMessage`, `RpcMessage`, `Startup`, `InodeNames`, `EnumNames`).


## 4. What is proved

For every value of the constants that satisfies the named assumptions: any ports,
descriptors, faults, bounds, scripts, seeds, and any even number of values of a
byte.

* **Context** (`ContextProofs`). `IInv` = the invariants, `LinkInv` (there is a
  descriptor exactly when there is a link; only made connections carried replies)
  and `ReceiveInv`. `WholeReply` is not inductive: at the moment `receive` ends,
  nothing says what the buffer holds. `ReceiveInv` says it for every moment
  before: since `MessageStart` the buffer holds just what the stream had, and if
  that was the end of a mark, `size` is a message's. A first cell that is the
  beginning of an xid then puts `MessageStart` at a mark's end, so that the six
  cells are one reply's (`FrameOfCell`, `CellsAfterMark`, `BodyEndsFrame`). Theorems: `TypeCorrect`, `OneSocketHolds`,
  `TalksToPortHolds`, `StatusTruthfulHolds`, `StreamCountedHolds`,
  `WholeReplyHolds`, `StaysInStepHolds`.
* **RpcCall** (`NfsClientProofs`, first half). `RpcImplementsContext`: `RpcSpec` implements
  `Context`'s `Spec`, so that all of the above holds of it. `RpcIInv` adds
  `RpcTypeOK` and `OnlyKnownRequests`. `AnswerIsMine` follows: the accepted reply
  is whole (`WholeReply`) whatever its status, is to a known request, and has the xid of this call;
  two values of the counter less than `XidModulus` apart have different xids
  (`XidsDiffer`), and `CallsAssumption` says that a program does not draw more.
  `CallIsAbstractHolds`: each initial state and each step of `RpcSpec` maps to one of
  `AbstractCall` or to a stutter. The step that returns needs `ResultIsTheServers`: the
  result that was read is the one the server put into this very reply, unless that is
  `VERIFIED`, and it is none if the reply is `UNKNOWN`.
* **NfsClient** (`NfsClientProofs`). `ClientImplementsRpc`, for any script. `ClientIInv`
  adds that the call is its line's (`CallOfLine`), has been connected for
  (`ConnectedForCall`), that services answer for what they were asked
  (`ResultsFit`) and that the reply in the buffer came on this connection
  (`ReplyIsHere`). Theorems: `ClientTypeCorrect`, `ClientAnswersHolds`,
  `LearnsServersPortsHolds`, `HandleIsGrantedHolds`,
  `RequestGoesToItsServiceHolds` (of descriptors other than 0), `OnlyTheReplyEndsCallHolds`
  (an action property from the same invariant: by `OwnReply` the words that were read are
  those of the reply to this call, whose status leaves the three ways), and
  `ClientCallsAreAbstract`, by way of `RpcCall`. All but the types and the requests say what
  holds after a receive that succeeded.
* **Xdr** (`XdrProofs`). `U32RoundTrip`, `U64LosesHighWord`, `MarkRoundTrip` and
  `OpaqueRoundTrip`, for every word, size and byte string and every place in the buffer.
  They all rest on the four digits of a word (`WordParts`), for any even `Base`.
* **XdrMessage** (`XdrMessageProofs`): `XdrTypeCorrect`, `MarkIsTruthfulHolds`,
  `WholeWordsHolds` and `ReadsBackHolds`, for messages of any fields. `ReadsBack` speaks of
  what was read and is not inductive; `WireIInv` says where everything is: each field's bytes
  are in `wire` from its `start` on, behind the word of the mark, which is all that sealing
  changes; the next field starts where they end, unless there is padding (`Layout`); and
  `offset` is the start of the next field as long as none was passed (`InStep`). The assumption `BufferSize < 2^31` is
  what lets a mark, and every length inside a message, fit a word.
* **RpcMessage** (`RpcMessageProofs`): `RequestIsHeardHolds`, `PayloadIsResultsHolds`,
  `ResultIsMeantHolds`, for any host name, export, xid, stamp, port, handle, list of flavors,
  verifier and `Base`. `MessageIInv` follows the message: the request is `Request` of a call that
  is one of `Calls` (`Meant`, `RequestSent`), the buffer is `ReplyBytes` of one of `Replies`
  (`ReplySent`), the payload was found in it with some junk behind (`PayloadFound`), and
  the result decoded from there (`ResultDecoded`). Each theorem is then about bytes: a
  message is a concatenation of words and opaques, `Holds` says which bytes lie where, and
  `U32RoundTrip` and `OpaqueRoundTrip` read them. Besides types, `SizesAssumption` is needed:
  the numbers of the programs are words, as they are in the code's 32 bits, and the host's name
  and the export fit the 1024 bytes of a request with the at most 87 bytes around them
  (`SizesFit`), so that every size put in afterwards is a word and the mark's is below its
  highest bit (`SealedMark`). `ResultIsMeant` is about the port, a handle of up to 64
  bytes, and the flavors behind handles that are whole words. That a denied or failed
  reply has no payload comes from its own words, wherever the junk behind it begins.
* **Startup** (`StartupProofs`): `UsageIsBalancedHolds`, for any command lines; `StartupIInv`
  adds what `optCorrect` means: there is a server just when it is set. And
  `ContextsAreServersHolds`: the argument behind the token's length plus one is the
  argument behind its first comma, given that the token starts where the argument does
  (`TokenIsServer`, `GivesItsServer`; `MinExists` says that there is a first comma), and
  `AccountsInv` counts: the context of a good option is at the place that the good options up to
  it give (`UpToNext`), and what `getContext` and `putContext` change is neither server nor port.
* **InodeNames** (`InodeProofs`): `NamesStayInsideHolds`, for names of any length and any
  number of inodes. `NamesStayInside` speaks of finished names only; `LoopInv` says what each
  loop has established and the later ones keep: taking a `./` out of a name without `..`
  makes none (`DotSlashRemoval`), taking a `/` out of a name with neither makes neither
  (`SlashRemoval`) - the slash was not behind a dot, or it would have gone with it.
  `StripsSlashesHolds` says what is left. Its invariant `StripInv` has an increasing function from
  the places of `myName` to those of `name` (`Picks`): whatever is not picked was a slash or
  stood before one (`Covers`), and, in the first loop, a dot that is left is followed by what
  followed it in the name (`DotsFollowed`), so that a `./` found after some removals is a `./` of
  the name. The function ends up enumerating just the characters that need not go
  (`PlacesAtEnd`, `KeptIsPicked`).
* **EnumNames** (`EnumProofs`): `NamesAreTheCompilersHolds`, for enumerations of any length
  and a `size_t` of any width. `EnumIInv` ties `currentValue` to the value the compiler gives
  the next bare enumerator, and the map to the enumerators entered so far (`Numbering`);
  `CountedOn` is the arithmetic of -1 that wraps and is counted on.

Every safety property of a passing run is a theorem. Model-checked only: `Termination` and
`ReceiveEnds`, since liveness and ENABLED are beyond the prover. What a recursive definition
computes takes induction over data, which is out of its reach too: `atoi` (`Number`, a fold) is
the same unknown operator on both sides of `ContextsAreServers`.


## 5. Not modelled

Two places where the code does other than its comments say are modelled as the code does
it and have no run of their own: `parseAndStripRPC` takes the first word of a verifier's
data for the accept_stat (`rpc.hpp:103`, "Ignore the opague data"; byte for byte in
`RpcMessage`, as the status `VERIFIED` in `RpcCall`), and the constructor of
`Inode` assigns the qualified name of a directory to a local variable that hides the
member `self` (`Context.hpp:152`, 219).

* The text of addresses and logs; `printStatus` is the property `StatusTruthful`.
  `Logging` and printing.
* `Inode::lookup` beyond its first dereference: no run of main gets there. The operations
  `Inode` and `ServerContexts` declare and nobody defines (`makeMkdir`, `read`, `write`,
  `deleteContext` and others).
* A host name or an export too long for the 1024 bytes of a request, which nobody checks
  (`Mount.cpp:14`, 29, 42, 49): what is overwritten then is undefined.
* The export path and version that `MountContext` keeps: nothing reads them.
* `ScopedMemoryHandler`: one owner, one thread.
* Cutting the text of an enumeration into items (`splitString`, `removeChar`).
* The build files, which `src/bin` holds as CMake generated them.


## 6. Plan

Done: `Context`, `RpcCall` with `AbstractCall`, `NfsClient`, `Xdr`, `XdrMessage`, `Startup`,
`InodeNames`, `EnumNames` and `RpcMessage`, with their proofs. Left:

1. `lookup` byte for byte, should the program come to reach it.
2. A refinement from `RpcMessage` to the replies of `RpcCall`: which words of a reply make the
   cells that `RpcCall` calls its status and its result.
