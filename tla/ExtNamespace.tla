----------------------------- MODULE ExtNamespace -----------------------------
(***************************************************************************)
(* The names of an ext2/3/4 volume: extfsk_create, extfsk_unlink,             *)
(* extfsk_rename and extfsk_symlink (bridge/ext_fskit.c) below                *)
(* createItem, removeItem, renameItem and createSymbolicLink                  *)
(* (EXTVolume.swift).                                                        *)
(*                                                                         *)
(* The bridge holds no lock and undoes nothing: each call of libext2fs is a   *)
(* step, other clients' calls come between, and any of them may fail and end  *)
(* the operation where it stands.                                            *)
(***************************************************************************)
EXTENDS Naturals, FiniteSets

CONSTANTS
    Clients,    \* threads FSKit calls the volume on
    RootIno,
    Inos,       \* the inodes below the root
    EntryNames,
    None,       \* no inode, no name
    Careful,    \* clients empty a directory before they remove it, and do not
                \* move one below itself
    MaxFailures, \* bound: failing library calls
    MaxAfter    \* bound: calls that begin after one has failed

ASSUME ExtNamespaceAssumption ==
    /\ RootIno \notin Inos /\ None \notin Inos \cup {RootIno} \cup EntryNames
    /\ IsFiniteSet(Inos) /\ IsFiniteSet(EntryNames)
    /\ Careful \in BOOLEAN /\ MaxFailures \in Nat /\ MaxAfter \in Nat

All == Inos \cup {RootIno}

VARIABLES
    ents,       \* ents[<<d, n, i>>]: how many entries of d call i n
    used,       \* the inode bitmap
    dirs,       \* the inodes whose mode says directory
    links,      \* i_links_count
    dotdot,     \* the directory that ".." of a directory names
    op,         \* what each client's call is doing
    failures,   \* library calls that failed so far
    after       \* calls begun since

disk == <<ents, used, dirs, links, dotdot>>
extNamesVars == <<disk, op, failures, after>>

Pcs == {"idle", "link", "write", "mark", "unlink", "read", "free", "save",
        "relink", "drop", "dotdot", "counts", "touch"}

\* d, n, i: the entry the call is about; d2, n2: where a rename goes and j the
\* inode it finds there; held: the link count read before the inode is written.
Idle == [pc |-> "idle", ok |-> TRUE, rename |-> FALSE,
         d |-> RootIno, n |-> None, i |-> None,
         d2 |-> RootIno, n2 |-> None, j |-> None, held |-> 0]

NamedIn(d, n) == {i \in Inos : ents[<<d, n, i>>] > 0}
Holders(i) == {e \in All \X EntryNames : ents[<<e[1], e[2], i>>] > 0}
Empty(d) == \A n \in EntryNames : NamedIn(d, n) = {}

\* The directories a client can be in: the root and those that have a name.
Reached == {d \in dirs : d = RootIno \/ Holders(d) # {}}

\* Where d lies below i, itself included.
Below(i) == LET up[k \in Nat] == IF k = 0 THEN {i}
                                 ELSE up[k - 1] \cup
                                      {j \in Inos \cap dirs : dotdot[j] \in up[k - 1]}
            IN  up[Cardinality(Inos)]

AddEntry(d, n, i) == ents' = [ents EXCEPT ![<<d, n, i>>] = @ + 1]
DropEntry(d, n, i) == ents' = [ents EXCEPT ![<<d, n, i>>] = @ - 1]

At(c, pc) == op[c].pc = pc
Fault == failures < MaxFailures /\ failures' = failures + 1
Begins(c) ==
    /\ At(c, "idle")
    /\ IF failures = 0 THEN after' = after ELSE after < MaxAfter /\ after' = after + 1
GoOn(c, pc) == op' = [op EXCEPT ![c].pc = pc] /\ UNCHANGED failures
Reply(c, ok) == op' = [op EXCEPT ![c] = [Idle EXCEPT !.ok = ok]]
Return(c, ok) == Reply(c, ok) /\ UNCHANGED failures

\* What the unlinking part of a call removes.
Victim(c) == IF op[c].rename THEN <<op[c].d2, op[c].n2, op[c].j>>
             ELSE <<op[c].d, op[c].n, op[c].i>>

(***************************************************************************)
(* extfsk_create of a file.                                                 *)
(***************************************************************************)
\* The kernel has found the name free.  ext2fs_new_inode picks a free inode and
\* leaves the bitmap as it is.
StartCreate(c, d, n) ==
    /\ Begins(c) /\ d \in Reached /\ NamedIn(d, n) = {}
    /\ \E i \in Inos \ used :
          op' = [op EXCEPT ![c] = [Idle EXCEPT !.pc = "link", !.d = d, !.n = n, !.i = i]]
    /\ UNCHANGED <<disk, failures>>

\* ext2fs_link asks for a directory, not for a name that is free; a full
\* directory is expanded and the call repeated.
CreateLink(c) ==
    LET o == op[c] IN
    /\ At(c, "link")
    /\ \/ o.d \in dirs /\ AddEntry(o.d, o.n, o.i) /\ GoOn(c, "write")
       \/ o.d \notin dirs /\ Return(c, FALSE) /\ UNCHANGED ents
    /\ UNCHANGED <<used, dirs, links, dotdot>>

CreateWrite(c) ==
    /\ At(c, "write")
    /\ dirs' = dirs \ {op[c].i}
    /\ links' = [links EXCEPT ![op[c].i] = 1]
    /\ GoOn(c, "mark")
    /\ UNCHANGED <<ents, used, dotdot>>

\* CreateMark left out: the inode stays free in the bitmap.
CreateUnmarked(c) ==
    /\ At(c, "mark")
    /\ used' = used
    /\ Return(c, TRUE)
    /\ UNCHANGED <<ents, dirs, links, dotdot>>

CreateMark(c) ==
    /\ At(c, "mark")
    /\ used' = used \cup {op[c].i}
    /\ Return(c, TRUE)
    /\ UNCHANGED <<ents, dirs, links, dotdot>>

\* mkdir and symlink are one call of the library each; it refuses a name that is
\* there.  The lookup of the child that follows may fail.
Make(c, d, n, isdir) ==
    /\ Begins(c) /\ d \in Reached /\ NamedIn(d, n) = {}
    /\ \E i \in Inos \ used :
          /\ AddEntry(d, n, i)
          /\ used' = used \cup {i}
          /\ IF isdir
             THEN /\ dirs' = dirs \cup {i}
                  /\ links' = [links EXCEPT ![i] = 2, ![d] = @ + 1]
                  /\ dotdot' = [dotdot EXCEPT ![i] = d]
             ELSE /\ dirs' = dirs \ {i}
                  /\ links' = [links EXCEPT ![i] = 1]
                  /\ UNCHANGED dotdot
    /\ \/ Return(c, TRUE)
       \/ Fault /\ Reply(c, FALSE)

(***************************************************************************)
(* extfsk_unlink and ext_after_unlink; extfsk_rename calls them for a file    *)
(* that has the new name.                                                    *)
(***************************************************************************)
StartRemove(c, d, n, i) ==
    /\ Begins(c) /\ d \in Reached /\ i \in NamedIn(d, n)
    /\ Careful /\ i \in dirs => Empty(i)
    /\ op' = [op EXCEPT ![c] = [Idle EXCEPT !.pc = "unlink", !.d = d, !.n = n, !.i = i]]
    /\ UNCHANGED <<disk, failures>>

\* UnlinkEntry that leaves the entry where it is.
UnlinkNothing(c) ==
    /\ At(c, "unlink") /\ ents[Victim(c)] > 0
    /\ GoOn(c, "read")
    /\ UNCHANGED disk

\* ext2fs_unlink looks for an entry with the name and the inode.
UnlinkEntry(c) ==
    LET v == Victim(c) IN
    /\ At(c, "unlink")
    /\ \/ ents[v] > 0 /\ DropEntry(v[1], v[2], v[3]) /\ GoOn(c, "read")
       \/ ents[v] = 0 /\ Return(c, FALSE) /\ UNCHANGED ents
    /\ UNCHANGED <<used, dirs, links, dotdot>>

ReadInode(c) ==
    /\ At(c, "read")
    /\ op' = [op EXCEPT ![c].pc = "free", ![c].held = links[Victim(c)[3]]]
    /\ UNCHANGED <<disk, failures>>

AfterRemove(c) == IF op[c].rename THEN GoOn(c, "relink") ELSE Return(c, TRUE)

Erased(i) == [e \in DOMAIN ents |-> IF e[1] = i THEN 0 ELSE ents[e]]
OneLess(d) == [links EXCEPT ![d] = IF @ > 1 THEN @ - 1 ELSE @]

\* FreeDir that leaves the parent's count alone.
FreeDirParentKept(c) ==
    LET v == Victim(c) IN
    /\ At(c, "free") /\ v[3] \in dirs
    /\ links' = links /\ ents' = Erased(v[3])
    /\ used' = used \ {v[3]}
    /\ op' = [op EXCEPT ![c].pc = "save", ![c].held = 0]
    /\ UNCHANGED <<dirs, dotdot, failures>>

\* A directory loses its blocks and its inode with its name, whatever it holds;
\* its parent loses the link that ".." was.
FreeDir(c) ==
    LET v == Victim(c) IN
    /\ At(c, "free") /\ v[3] \in dirs
    /\ links' = OneLess(v[1]) /\ ents' = Erased(v[3])
    /\ used' = used \ {v[3]}
    /\ op' = [op EXCEPT ![c].pc = "save", ![c].held = 0]
    /\ UNCHANGED <<dirs, dotdot, failures>>

\* FreeFile that never gives the inode back.
FreeFileKept(c) ==
    /\ At(c, "free") /\ Victim(c)[3] \notin dirs
    /\ \/ op[c].held = 0 /\ AfterRemove(c)
       \/ /\ op[c].held > 0 /\ UNCHANGED failures
          /\ op' = [op EXCEPT ![c].pc = "save", ![c].held = @ - 1]
    /\ UNCHANGED disk

\* A file loses a link, and its inode with the last one.
FreeFile(c) ==
    LET i == Victim(c)[3] IN
    /\ At(c, "free") /\ i \notin dirs
    /\ \/ op[c].held = 0 /\ AfterRemove(c) /\ UNCHANGED used
       \/ /\ op[c].held > 0
          /\ used' = IF op[c].held = 1 THEN used \ {i} ELSE used
          /\ op' = [op EXCEPT ![c].pc = "save", ![c].held = @ - 1]
          /\ UNCHANGED failures
    /\ UNCHANGED <<ents, dirs, links, dotdot>>

Save(c) ==
    /\ At(c, "save")
    /\ links' = [links EXCEPT ![Victim(c)[3]] = op[c].held]
    /\ AfterRemove(c)
    /\ UNCHANGED <<ents, used, dirs, dotdot>>

(***************************************************************************)
(* extfsk_rename.                                                           *)
(***************************************************************************)
\* The kernel settles a rename between two names of one inode itself, and
\* lets a file replace a file and a directory a directory only.  The bridge looks
\* the new name up for a file, not for a directory, and takes any error of
\* that lookup for a free name.
StartRename(c, d, n, i, d2, n2) ==
    LET there == NamedIn(d2, n2) IN
    /\ Begins(c) /\ {d, d2} \subseteq Reached /\ i \in NamedIn(d, n) /\ i \notin there
    /\ there \cap dirs = IF i \in dirs THEN there ELSE {}
    /\ Careful /\ i \in dirs => d2 \notin Below(i)
    /\ \/ /\ \/ (i \in dirs \/ there = {}) /\ UNCHANGED failures
             \/ i \notin dirs /\ there # {} /\ Fault
          /\ op' = [op EXCEPT ![c] = [Idle EXCEPT !.pc = "relink", !.rename = TRUE,
                                 !.d = d, !.n = n, !.i = i, !.d2 = d2, !.n2 = n2]]
       \/ /\ i \notin dirs /\ UNCHANGED failures
          /\ \E j \in there :
                op' = [op EXCEPT ![c] = [Idle EXCEPT !.pc = "unlink", !.rename = TRUE,
                                 !.d = d, !.n = n, !.i = i, !.d2 = d2, !.n2 = n2, !.j = j]]
    /\ UNCHANGED disk

\* RenameLink after the old name is taken off.
DropFirst(c) ==
    LET o == op[c] IN
    /\ At(c, "relink") /\ ents[<<o.d, o.n, o.i>>] > 0
    /\ DropEntry(o.d, o.n, o.i) /\ GoOn(c, "drop")
    /\ UNCHANGED <<used, dirs, links, dotdot>>

RenameLink(c) ==
    LET o == op[c] IN
    /\ At(c, "relink")
    /\ \/ o.d2 \in dirs /\ AddEntry(o.d2, o.n2, o.i) /\ GoOn(c, "drop")
       \/ o.d2 \notin dirs /\ Return(c, FALSE) /\ UNCHANGED ents
    /\ UNCHANGED <<used, dirs, links, dotdot>>

RenameDrop(c) ==
    LET o == op[c] IN
    /\ At(c, "drop")
    /\ \/ /\ ents[<<o.d, o.n, o.i>>] > 0 /\ DropEntry(o.d, o.n, o.i)
          /\ \/ o.i \notin dirs /\ GoOn(c, "touch")
             \/ o.i \in dirs /\ o.d = o.d2 /\ Return(c, TRUE)
             \/ o.i \in dirs /\ o.d # o.d2 /\ GoOn(c, "dotdot")
       \/ ents[<<o.d, o.n, o.i>>] = 0 /\ Return(c, FALSE) /\ UNCHANGED ents
    /\ UNCHANGED <<used, dirs, links, dotdot>>

\* DotDot that leaves ".." where it points.
DotDotKept(c) ==
    /\ At(c, "dotdot")
    /\ dotdot' = dotdot
    /\ GoOn(c, "counts")
    /\ UNCHANGED <<ents, used, dirs, links>>

DotDot(c) ==
    /\ At(c, "dotdot")
    /\ dotdot' = [dotdot EXCEPT ![op[c].i] = op[c].d2]
    /\ GoOn(c, "counts")
    /\ UNCHANGED <<ents, used, dirs, links>>

\* Counts of the new parent only.
CountsNewOnly(c) ==
    /\ At(c, "counts")
    /\ links' = [links EXCEPT ![op[c].d2] = @ + 1]
    /\ Return(c, TRUE)
    /\ UNCHANGED <<ents, used, dirs, dotdot>>

Counts(c) ==
    /\ At(c, "counts")
    /\ links' = [OneLess(op[c].d) EXCEPT ![op[c].d2] = @ + 1]
    /\ Return(c, TRUE)
    /\ UNCHANGED <<ents, used, dirs, dotdot>>

\* ext_after_unlink with kill = 0: the change time is written.
Touch(c) ==
    /\ At(c, "touch")
    /\ Return(c, TRUE)
    /\ UNCHANGED disk

\* A library call fails, and the operation returns as it stands.  To free a
\* directory takes two calls, and the first has changed the parent by then.
CallFails(c) ==
    /\ op[c].pc \in Pcs \ {"idle", "mark", "counts"}
    /\ At(c, "free") => Victim(c)[3] \in dirs \/ op[c].held = 1
    /\ links' = IF At(c, "free") /\ Victim(c)[3] \in dirs THEN OneLess(Victim(c)[1])
                ELSE links
    /\ Fault /\ Reply(c, FALSE)
    /\ UNCHANGED <<ents, used, dirs, dotdot>>

\* A parent's count that cannot be read is left alone, and nobody is told.
CountMissed(c) ==
    /\ Fault
    /\ \/ /\ At(c, "counts") /\ Reply(c, TRUE)
          /\ links' \in {OneLess(op[c].d), [links EXCEPT ![op[c].d2] = @ + 1]}
          /\ UNCHANGED <<ents, used>>
       \/ /\ At(c, "free") /\ Victim(c)[3] \in dirs
          /\ ents' = Erased(Victim(c)[3]) /\ used' = used \ {Victim(c)[3]}
          /\ op' = [op EXCEPT ![c].pc = "save", ![c].held = 0]
          /\ UNCHANGED links
    /\ UNCHANGED <<dirs, dotdot>>

BoundReached(c) == failures > 0 /\ after = MaxAfter /\ At(c, "idle") /\ UNCHANGED extNamesVars

\* The volume is empty but for a file that Linux may have given several names:
\* createLink of EXTVolume refuses to make one.
ExtNamesInit ==
    /\ \E f \in Inos, given \in SUBSET EntryNames :
          /\ ents = [e \in All \X EntryNames \X Inos |->
                        IF e[1] = RootIno /\ e[2] \in given /\ e[3] = f THEN 1 ELSE 0]
          /\ used = {RootIno} \cup {i \in {f} : given # {}}
          /\ links = [i \in All |-> IF i = RootIno THEN 2
                                   ELSE IF i = f THEN Cardinality(given) ELSE 0]
    /\ dirs = {RootIno}
    /\ dotdot = [i \in Inos |-> RootIno]
    /\ op = [c \in Clients |-> Idle]
    /\ failures = 0 /\ after = 0

CreateFile(c) == CreateLink(c) \/ CreateWrite(c) \/ CreateMark(c)
Remove(c) == UnlinkEntry(c) \/ ReadInode(c) \/ FreeDir(c) \/ FreeFile(c) \/ Save(c)
Rename(c) == RenameLink(c) \/ RenameDrop(c) \/ DotDot(c) \/ Counts(c) \/ Touch(c)

Starts(c) ==
    \/ \E d \in All, n \in EntryNames : StartCreate(c, d, n)
    \/ \E d \in All, n \in EntryNames, isdir \in BOOLEAN : Make(c, d, n, isdir)
    \/ \E d \in All, n \in EntryNames, i \in Inos : StartRemove(c, d, n, i)
    \/ \E d, d2 \in All, n, n2 \in EntryNames, i \in Inos : StartRename(c, d, n, i, d2, n2)

ExtNamesNext == \E c \in Clients :
    \/ At(c, "idle") /\ Starts(c)
    \/ (CreateFile(c) \/ Remove(c) \/ Rename(c)) /\ UNCHANGED after
    \/ (CallFails(c) \/ CountMissed(c)) /\ UNCHANGED after
    \/ BoundReached(c)

ExtNamesSpec == ExtNamesInit /\ [][ExtNamesNext]_extNamesVars

(***************************************************************************)
(* Properties.                                                              *)
(***************************************************************************)
\* No call is under way, and none of the library's has failed.
Settled == failures = 0 /\ \A c \in Clients : At(c, "idle")

\* Between calls every entry names an inode in use, so that the next creation
\* cannot give that inode to another file (extfsk_create, ext_after_unlink).
NoDangling == Settled => \A i \in Inos : Holders(i) # {} => i \in used

\* Between calls the link count of a file is the number of its entries, and that
\* of a directory 2 and its subdirectories; a wrong one frees a file that has a
\* name, or never frees it (ext_after_unlink, extfsk_rename).
LinksAgree == Settled => \A i \in used :
    links[i] = IF i \in dirs
               THEN 2 + Cardinality({j \in Inos \cap used \cap dirs : dotdot[j] = i})
               ELSE Cardinality(Holders(i))

\* Between calls a directory has one entry, and ".." names the directory
\* that holds it (extfsk_rename, dotdot_helper).
TreeAgrees == Settled => \A i \in Inos \cap used \cap dirs :
    \E n \in EntryNames : Holders(i) = {<<dotdot[i], n>>} /\ ents[<<dotdot[i], n, i>>] = 1

\* Between calls nothing in use is without a name: what a removed directory held
\* is not lost (ext_after_unlink: a directory's name taken off, nothing refers
\* to it).
NothingLost == Settled => \A i \in Inos \cap used : Holders(i) # {}

\* A file never shares its name with another file or directory, within a call
\* either (extfsk_create, extfsk_rename; the library does not ask).
FilesNamedAlone == failures = 0 => \A d \in All, n \in EntryNames :
    NamedIn(d, n) \subseteq dirs \/ Cardinality(NamedIn(d, n)) <= 1

\* Between calls no two inodes have one name in one directory: a rename takes
\* away what has the new name (extfsk_rename: POSIX rename).
NamesUnique == Settled => \A d \in All, n \in EntryNames : Cardinality(NamedIn(d, n)) <= 1

\* A file or directory being renamed has a name at every moment, whatever
\* call fails (extfsk_rename links the new name before it takes off the old).
RenamedKept == \A c \in Clients :
    op[c].rename => Holders(op[c].i) # {}

==============================================================================
