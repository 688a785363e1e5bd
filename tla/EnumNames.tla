----------------------------- MODULE EnumNames -----------------------------
(***************************************************************************)
(* The names of enumerators for the log: DESC_CLASS_ENUM gives the text of *)
(* an enumeration to generateEnumMap (DescriptiveEnum.cpp:33-55), which    *)
(* numbers the enumerators as the compiler should have, and printEnum      *)
(* (DescriptiveEnum.hpp:48-53) looks values up, those a server sent among  *)
(* them.                                                                   *)
(***************************************************************************)
EXTENDS Integers, Sequences

CONSTANTS
    Lists,        \* the enumerations, sequences of enumerators
    Enumerators,  \* what a list is made of
    SizeModulus,  \* values of a size_t, 2^64 in the code
    Asked,        \* values printed, of type int
    MaxPrints     \* bound: values printed

\* An enumerator, with or without an initialiser: the number that stoll reads
\* from the text of the initialiser, and the number it means to the compiler.
Named(name) == [name |-> name, init |-> FALSE, reads |-> 0, means |-> 0]
At(name, value) == [name |-> name, init |-> TRUE, reads |-> value, means |-> value]

\* "(1u << n)": the parentheses are removed, and stoll stops at the u.
Shift(name, n) == [name |-> name, init |-> TRUE, reads |-> 1, means |-> 2 ^ n]

Numbered(names) == [i \in 1 .. Len(names) |-> At(names[i], i - 1)]

ASSUME ListsAssumption ==
    /\ Lists \subseteq Seq(Enumerators)
    /\ \A e \in Enumerators : e.init \in BOOLEAN /\ e.reads \in Int /\ e.means \in Int
ASSUME ModulusAssumption == SizeModulus \in Nat \ {0}
ASSUME AskedAssumption == Asked \subseteq Int
ASSUME PrintsAssumption == MaxPrints \in Nat

-----------------------------------------------------------------------------
(***************************************************************************)
(* The enumerations of the program.                                        *)
(***************************************************************************)

AUTH_TYPE ==
    <<At("None", -1), At("AUTH_INVALID", -1), At("AUTH_NONE", 0), At("AUTH_SYS", 1),
      At("AUTH_SHORT", 2), At("AUTH_DH", 3), At("RPCSEC_GSS", 6), Named("UNKNOWN")>>
RPCTYPE == <<At("None", -1), At("CALL", 0), At("REPLY", 1), Named("UNKNOWN")>>
RPC_VERSION ==
    <<At("None", -1), At("RPC_VERSION1", 1), At("RPC_VERSION2", 2), At("UNKNOWN", 255)>>
PROGRAM_VERSION ==
    <<At("None", -1), At("PROGRAM_VERSION2", 2), At("PROGRAM_VERSION3", 3)>>
RPC_PROGRAM ==
    <<At("PORTMAP", 100000), At("NFS", 100003), At("MOUNT", 100005), At("NLM", 100021)>>
PROTOCOL_TYPE == <<At("IPPROTO_TCP", 6), At("IPPROTO_UDP", 17)>>
MOUNT_VER == <<At("None", -1), At("VERSION3", 3)>>
MOUNTPROG ==
    Numbered(<<"MOUNTPROC3_NULL", "MOUNTPROC3_MNT", "MOUNTPROC3_DUMP",
               "MOUNTPROC3_UMNT", "MOUNTPROC3_UMNTALL", "MOUNTPROC3_EXPORT">>)
MOUNTREPLY ==
    <<At("MNT3_OK", 0), At("MNT3ERR_PERM", 1), At("MNT3ERR_NOENT", 2),
      At("MNT3ERR_IO", 5), At("MNT3ERR_ACCES", 13), At("MNT3ERR_NOTDIR", 20),
      At("MNT3ERR_INVAL", 22), At("MNT3ERR_NAMETOOLONG", 63),
      At("MNT3ERR_NOTSUPP", 10004), At("MNT3ERR_SERVERFAULT", 10006)>>
PORTMAPPER ==
    Numbered(<<"PMAPPROC_NULL", "PMAPPROC_SET", "PMAPPROC_UNSET", "PMAPPROC_GETPORT",
               "PMAPPROC_DUMP", "PMAPPROC_CALLIT">>)
NFSPROG ==
    Numbered(<<"NFSPROC3_NULL", "NFSPROC3_GETATTR", "NFSPROC3_SETATTR",
               "NFSPROC3_LOOKUP", "NFSPROC3_ACCESS", "NFSPROC3_READLINK",
               "NFSPROC3_READ", "NFSPROC3_WRITE", "NFSPROC3_CREATE",
               "NFSPROC3_MKDIR", "NFSPROC3_SYMLINK", "NFSPROC3_MKNOD",
               "NFSPROC3_REMOVE", "NFSPROC3_RMDIR", "NFSPROC3_RENAME",
               "NFSPROC3_LINK", "NFSPROC3_READDIR", "NFSPROC3_READDIRPLUS",
               "NFSPROC3_FSSTAT", "NFSPROC3_FSINFO", "NFSPROC3_PATHCONF",
               "NFSPROC3_COMMIT">>)
NFSPROGERR ==
    <<At("NFS3_OK", 0), At("NFS3ERR_PERM", 1), At("NFS3ERR_NOENT", 2),
      At("NFS3ERR_IO", 5), At("NFS3ERR_NXIO", 6), At("NFS3ERR_ACCES", 13),
      At("NFS3ERR_EXIST", 17), At("NFS3ERR_XDEV", 18), At("NFS3ERR_NODEV", 19),
      At("NFS3ERR_NOTDIR", 20), At("NFS3ERR_ISDIR", 21), At("NFS3ERR_INVAL", 22),
      At("NFS3ERR_FBIG", 27), At("NFS3ERR_NOSPC", 28), At("NFS3ERR_ROFS", 30),
      At("NFS3ERR_MLINK", 31), At("NFS3ERR_NAMETOOLONG", 63),
      At("NFS3ERR_NOTEMPTY", 66), At("NFS3ERR_DQUOT", 69), At("NFS3ERR_STALE", 70),
      At("NFS3ERR_REMOTE", 71), At("NFS3ERR_BADHANDLE", 10001),
      At("NFS3ERR_NOT_SYNC", 10002), At("NFS3ERR_BAD_COOKIE", 10003),
      At("NFS3ERR_NOTSUPP", 10004), At("NFS3ERR_TOOSMALL", 10005),
      At("NFS3ERR_SERVERFAULT", 10006), At("NFS3ERR_BADTYPE", 10007),
      At("NFS3ERR_JUKEBOX", 10008)>>
PERMS ==
    LET names == <<"XOTH", "WOTH", "ROTH", "XGRP", "WGRP", "RGRP",
                   "XUSR", "WUSR", "RUSR", "STXT", "SGRP", "SUSR">>
    IN  [i \in 1 .. Len(names) |-> Shift(names[i], i - 1)]
INODE_TYPE ==
    <<At("NFS3REG", 1), At("NFS3DIR", 2), At("NFS3BLK", 3), At("NFS3CHR", 4),
      At("NFS3LNK", 5), At("NFS3SOCK", 6), At("NFS3FIFO", 7)>>
GetContextStrategy ==
    <<Named("None"), Named("Random"), Named("Iterate"), Named("Fixed"), Named("UNKNOWN")>>
RPC_REPLY == Numbered(<<"MSG_ACCEPTED", "MSG_DENIED">>)
RPC_REJECTED == Numbered(<<"RPC_MISMATCH", "AUTH_ERROR">>)
RPC_AUTH_ERROR ==
    Numbered(<<"AUTH_OK", "AUTH_BADCRED", "AUTH_REJECTEDCRED", "AUTH_BADVERF",
               "AUTH_REJECTEDVERF", "AUTH_TOOWEAK", "AUTH_INVALIDRESP", "AUTH_FAILED",
               "AUTH_KERB_GENERIC", "AUTH_TIMEEXPIRE", "AUTH_TKT_FILE", "AUTH_DECODE",
               "AUTH_NET_ADDR", "RPCSEC_GSS_CREDPROBLEM", "RPCSEC_GSS_CTXPROBLEM">>)
RPC_SUCCESS ==
    Numbered(<<"SUCCESS", "PROG_UNAVAIL", "PROG_MISMATCH", "PROC_UNAVAIL",
               "GARBAGE_ARGS", "SYSTEM_ERR">>)

Enumerations ==
    {AUTH_TYPE, RPCTYPE, RPC_VERSION, PROGRAM_VERSION, RPC_PROGRAM, PROTOCOL_TYPE,
     MOUNT_VER, MOUNTPROG, MOUNTREPLY, PORTMAPPER, NFSPROG, NFSPROGERR, PERMS,
     INODE_TYPE, GetContextStrategy, RPC_REPLY, RPC_REJECTED, RPC_AUTH_ERROR,
     RPC_SUCCESS}

-----------------------------------------------------------------------------
VARIABLES
    list,          \* the enumeration whose values are printed
    next,          \* the enumerator generateEnumMap is at
    currentValue,
    enumMap,       \* returnMap, then printEnum's static map
    prints         \* values printed

vars == <<list, next, currentValue, enumMap, prints>>

Init ==
    /\ list \in Lists
    /\ next = 1
    /\ currentValue = 0
    /\ enumMap = [k \in {} |-> ""]
    /\ prints = 0

\* operator[] of std::map and an assignment: an entry is made or replaced.
Put(map, key, name) ==
    [k \in DOMAIN map \cup {key} |-> IF k = key THEN name ELSE map[k]]

\* An item without '='.
NameNext ==
    /\ next <= Len(list)
    /\ ~ list[next].init
    /\ enumMap' = Put(enumMap, currentValue, list[next].name)
    /\ currentValue' = (currentValue + 1) % SizeModulus
    /\ next' = next + 1
    /\ UNCHANGED <<list, prints>>

\* Mutant of NameAt: the value is not counted on.
NameAtUncounted ==
    /\ next <= Len(list)
    /\ list[next].init
    /\ enumMap' = Put(enumMap, list[next].reads % SizeModulus, list[next].name)
    /\ currentValue' = list[next].reads % SizeModulus
    /\ next' = next + 1
    /\ UNCHANGED <<list, prints>>

\* An item with '='.
NameAt ==
    /\ next <= Len(list)
    /\ list[next].init
    /\ enumMap' = Put(enumMap, list[next].reads % SizeModulus, list[next].name)
    /\ currentValue' = (list[next].reads + 1) % SizeModulus
    /\ next' = next + 1
    /\ UNCHANGED <<list, prints>>

\* operator[] makes an entry with an empty name for a value it does not know.
PrintEnum ==
    /\ next > Len(list)
    /\ prints < MaxPrints
    /\ \E value \in Asked :
          LET key == value % SizeModulus IN
          enumMap' = IF key \in DOMAIN enumMap THEN enumMap ELSE Put(enumMap, key, "")
    /\ prints' = prints + 1
    /\ UNCHANGED <<list, next, currentValue>>

Next == NameNext \/ NameAt \/ PrintEnum

Spec == Init /\ [][Next]_vars

-----------------------------------------------------------------------------
(***************************************************************************)
(* Properties.                                                             *)
(***************************************************************************)

\* The value the language gives the i-th enumerator of s: that of the last
\* initialiser up to there, and one more for each enumerator since.
IsLastInit(s, i, k) ==
    k \in 1 .. i /\ s[k].init /\ \A j \in k + 1 .. i : ~ s[j].init

Value(s, i) ==
    IF \E k \in 1 .. i : s[k].init
    THEN LET k == CHOOSE k \in 1 .. i : IsLastInit(s, i, k)
         IN  s[k].means + (i - k)
    ELSE i - 1

\* Every initialiser is a plain number.
Plain(s) == \A i \in 1 .. Len(s) : s[i].reads = s[i].means

\* Whatever mixture of initialised and bare enumerators, of repeated values and
\* of -1, which wraps to the largest size_t and on to 0: a value is printed as
\* the last enumerator the compiler gave it to, and one that no enumerator has
\* as nothing, however many such were printed before (DescriptiveEnum.cpp:45-52,
\* DescriptiveEnum.hpp:49-52).
NamesAreTheCompilers ==
    (next > Len(list) /\ Plain(list)) =>
        LET key(i) == Value(list, i) % SizeModulus IN
        /\ \A i \in 1 .. Len(list) : key(i) \in DOMAIN enumMap
        /\ \A k \in DOMAIN enumMap :
              \/ enumMap[k] = "" /\ \A i \in 1 .. Len(list) : key(i) # k
              \/ \E i \in 1 .. Len(list) :
                    /\ key(i) = k
                    /\ enumMap[k] = list[i].name
                    /\ \A j \in i + 1 .. Len(list) : key(j) # k
=============================================================================
