---------------------------- MODULE InodeNames ----------------------------
(***************************************************************************)
(* The names of inodes: the constructor of Context::Inode                  *)
(* (Context.hpp:148-173) and stripSlash (Context.hpp:191-214), which takes *)
(* the slashes out of a name, one loop after the other.                    *)
(*                                                                         *)
(* Inodes are made one after the other, each below the export              *)
(* (FSTree.cpp:31) or below a directory made before.  A name is a sequence *)
(* of characters: Slash, Dot or another one.                               *)
(***************************************************************************)
EXTENDS Integers, Sequences, FiniteSets

CONSTANTS
    Characters,
    Slash,
    Dot,
    Names,      \* names an inode may be asked to have
    Export,     \* the qualified name of the export
    MaxInodes   \* bound: inodes made

INODE_TYPE == {"NFS3REG", "NFS3DIR", "NFS3BLK", "NFS3CHR", "NFS3LNK",
               "NFS3SOCK", "NFS3FIFO"}

\* Permissions::makeDefault: rwx for user, group and others, the lowest nine of
\* the twelve bits.
DefaultMode == {"XOTH", "WOTH", "ROTH", "XGRP", "WGRP", "RGRP",
                "XUSR", "WUSR", "RUSR"}

ASSUME CharactersAssumption == {Slash, Dot} \subseteq Characters /\ Slash # Dot
ASSUME NamesAssumption == Names \subseteq Seq(Characters) /\ Export \in Seq(Characters)
ASSUME InodesAssumption == MaxInodes \in Nat

VARIABLES
    inodes,    \* the inodes made, in order
    parent,    \* the constructor's argument parent
    name,      \* the constructor's argument name
    type,      \* the constructor's argument type
    myName,    \* what stripSlash has made of name so far
    stage      \* "new", then where stripSlash is: "dotdot", "dotSlash", "slash", "done"

vars == <<inodes, parent, name, type, myName, stage>>

Init ==
    /\ inodes = <<>>
    /\ parent = Export
    /\ name = <<>>
    /\ type = "NFS3DIR"
    /\ myName = <<>>
    /\ stage = "new"

\* The qualified names a directory may have as parent.
Directories ==
    {Export} \cup {inodes[i].selfDir : i \in {j \in 1 .. Len(inodes) :
                                                 inodes[j].type = "NFS3DIR"}}

-----------------------------------------------------------------------------
(***************************************************************************)
(* stripSlash.                                                             *)
(***************************************************************************)

\* The places of a pattern of one or two characters.
Slashes(s) == {i \in 1 .. Len(s) : s[i] = Slash}
DotSlashes(s) == {i \in 1 .. Len(s) - 1 : s[i] = Dot /\ s[i + 1] = Slash}
DotDots(s) == {i \in 1 .. Len(s) - 1 : s[i] = Dot /\ s[i + 1] = Dot}

\* rfind.
IsLast(i, S) == i \in S /\ \A j \in S : j <= i

\* s without the n characters from place i on.
Without(s, i, n) == [j \in 1 .. Len(s) - n |-> IF j < i THEN s[j] ELSE s[j + n]]

Begin ==
    /\ stage = "new"
    /\ Len(inodes) < MaxInodes
    /\ parent' \in Directories
    /\ name' \in Names
    /\ type' \in INODE_TYPE
    /\ myName' = name'
    /\ stage' = "dotdot"
    /\ UNCHANGED inodes

\* A name with ".." in it is emptied.
RejectDotDot ==
    /\ stage = "dotdot"
    /\ DotDots(myName) # {}
    /\ myName' = <<>>
    /\ stage' = "done"
    /\ UNCHANGED <<inodes, parent, name, type>>

\* Mutant of AcceptName: the loop over "./" is left out, as slashes go anyway.
AcceptNameSlashOnly ==
    /\ stage = "dotdot"
    /\ DotDots(myName) = {}
    /\ stage' = "slash"
    /\ UNCHANGED <<inodes, parent, name, type, myName>>

AcceptName ==
    /\ stage = "dotdot"
    /\ DotDots(myName) = {}
    /\ stage' = "dotSlash"
    /\ UNCHANGED <<inodes, parent, name, type, myName>>

StripDotSlash ==
    /\ stage = "dotSlash"
    /\ \E i \in DotSlashes(myName) :
          /\ IsLast(i, DotSlashes(myName))
          /\ myName' = Without(myName, i, 2)
    /\ UNCHANGED <<inodes, parent, name, type, stage>>

NoDotSlash ==
    /\ stage = "dotSlash"
    /\ DotSlashes(myName) = {}
    /\ stage' = "slash"
    /\ UNCHANGED <<inodes, parent, name, type, myName>>

StripSlash ==
    /\ stage = "slash"
    /\ \E i \in Slashes(myName) :
          /\ IsLast(i, Slashes(myName))
          /\ myName' = Without(myName, i, 1)
    /\ UNCHANGED <<inodes, parent, name, type, stage>>

NoSlash ==
    /\ stage = "slash"
    /\ Slashes(myName) = {}
    /\ stage' = "done"
    /\ UNCHANGED <<inodes, parent, name, type, myName>>

-----------------------------------------------------------------------------
\* The rest of the constructor.  The self that a directory assigns is a local
\* variable: the member keeps the name it was given, slashes and all.
Construct ==
    /\ stage = "done"
    /\ inodes' = Append(inodes,
          [type |-> type, perms |-> DefaultMode, parentName |-> parent,
           self |-> IF type = "NFS3DIR" THEN name ELSE myName,
           selfDir |-> IF type = "NFS3DIR" THEN parent \o <<Slash>> \o myName
                                           ELSE <<>>])
    /\ stage' = "new"
    /\ UNCHANGED <<parent, name, type, myName>>

Next ==
    \/ Begin
    \/ RejectDotDot
    \/ AcceptName
    \/ StripDotSlash
    \/ NoDotSlash
    \/ StripSlash
    \/ NoSlash
    \/ Construct

Spec == Init /\ [][Next]_vars

-----------------------------------------------------------------------------
(***************************************************************************)
(* Properties.                                                             *)
(***************************************************************************)

\* Every variable has its type.
TypeOK ==
    /\ inodes \in Seq([type : INODE_TYPE, perms : {DefaultMode},
                       parentName : Seq(Characters), self : Seq(Characters),
                       selfDir : Seq(Characters)])
    /\ parent \in Seq(Characters)
    /\ name \in Seq(Characters)
    /\ type \in INODE_TYPE
    /\ myName \in Seq(Characters)
    /\ stage \in {"new", "dotdot", "dotSlash", "slash", "done"}

\* The characters of s at the places in S, in order.
Kept(s, S) ==
    [j \in 1 .. Cardinality(S) |->
        s[CHOOSE i \in S : Cardinality({k \in S : k < i}) = j - 1]]

\* What the two loops, which take "./" and "/" out from the end, one by one,
\* come to (Context.hpp:203-213): the slashes of the name are gone, and the dots
\* that stood before one; no removal makes a pair that was not there.
StripsSlashes ==
    stage = "done" =>
        myName = IF DotDots(name) # {}
                 THEN <<>>
                 ELSE Kept(name, DOMAIN name \ (Slashes(name) \cup DotSlashes(name)))

\* A name that came through stripSlash is one component, and not "..".
Component(s) == Slashes(s) = {} /\ DotDots(s) = {}

\* s lies below dir, with one more component.
Below(s, dir) ==
    /\ Len(s) > Len(dir)
    /\ SubSeq(s, 1, Len(dir)) = dir
    /\ s[Len(dir) + 1] = Slash
    /\ Component(SubSeq(s, Len(dir) + 2, Len(s)))

\* Whatever inodes are asked to be called, with the removal of slashes unable to
\* put two dots together: a directory lies right below its parent, which is the
\* export or lies below it, and any other inode is called by one component
\* (Context.hpp:148-159, 191-214).
NamesStayInside ==
    \A i \in 1 .. Len(inodes) :
        LET inode == inodes[i] IN
        /\ \/ inode.parentName = Export
           \/ \E j \in 1 .. i - 1 :
                 inodes[j].type = "NFS3DIR" /\ inode.parentName = inodes[j].selfDir
        /\ IF inode.type = "NFS3DIR" THEN Below(inode.selfDir, inode.parentName)
                                     ELSE Component(inode.self)

=============================================================================
