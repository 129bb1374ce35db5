--------------------------- MODULE NtfsNamespace ---------------------------
(***************************************************************************)
(* The names of an NTFS volume as nfsk_create, nfsk_unlink, nfsk_link and   *)
(* nfsk_rename (bridge/ntfs_fskit.c) change them.                           *)
(*                                                                         *)
(* Every public operation holds the bridge lock from its first to its last  *)
(* step (module BridgeLock), so one operation runs at a time.  A rename is  *)
(* not one step all the same: it is up to five calls of nfsk_do_link and    *)
(* nfsk_do_unlink, each of which can fail, and the extension's process can  *)
(* die between any two of them.                                             *)
(*                                                                         *)
(* A directory index maps a name to an MFT record.  A record is in use      *)
(* while some entry names it: ntfs_delete frees the record with its last    *)
(* name.  The process counter rename_seq makes the temporary names of       *)
(* renames that replace a file distinct.                                    *)
(***************************************************************************)
EXTENDS Naturals, FiniteSets

CONSTANTS
    Root,       \* the root directory's record
    Dirs,       \* user records that are or become directories
    Files,      \* user records that are or become regular files
    System,     \* records below FILE_first_user: $LogFile, $Bitmap, ...
    Names,      \* the names clients use
    LongNames,  \* those too long to take the suffix of a temporary name
    NoInode,    \* what a lookup returns for a name that is not there
    MaxSeq,     \* bound: replacing renames in the life of one process
    MaxFaults,  \* bound: calls that fail for no modelled reason (I/O error,
                \* ENOSPC, ENOMEM) in one operation
    LateErrors, \* TRUE: nfsk_do_link may report an error after it has linked
    MaxCrashes  \* bound: deaths of the process in a behaviour

Inodes   == Dirs \cup Files
AllDirs  == Dirs \cup {Root}
Records  == Inodes \cup System \cup {Root}

\* An entry: a directory, a name, and 0, or k > 0 for the temporary name
\* made of that name when rename_seq is k.
Entries   == AllDirs \X Names \X (0 .. MaxSeq)
IsTemp(e) == e[3] > 0

ASSUME NamespaceAssumption ==
    /\ NoInode \notin Records
    /\ Root \notin Inodes \cup System
    /\ Inodes \cap System = {}
    /\ Dirs \cap Files = {}
    /\ Names # {} /\ LongNames \subseteq Names
    /\ MaxSeq \in Nat
    /\ MaxFaults \in Nat
    /\ MaxCrashes \in Nat
    /\ LateErrors \in BOOLEAN

VARIABLES
    index,   \* the directory indexes: entry -> record or NoInode
    pc,      \* the call the running rename makes next, "idle" between operations
    req,     \* the last rename: its entries, the records it looked up and, for
             \* the properties, what the new name was when it began
    res,     \* outcome of the last operation: "ok", "err" or "crash"
    seq,     \* rename_seq
    faults,  \* failures so far in the running operation
    crashes  \* deaths so far

vars == <<index, pc, req, res, seq, faults, crashes>>

Calls == {"link_new", "unlink_old", "undo_new",
          "link_tmp", "drop_target", "link_src", "drop_src",
          "undo_src", "restore", "drop_tmp"}

AnyEntry == CHOOSE e \in Entries : TRUE
NoReq    == [from |-> AnyEntry, to |-> AnyEntry, tmp |-> AnyEntry,
             ino |-> NoInode, xino |-> NoInode, was |-> NoInode]

(***************************************************************************)
(* libntfs-3g: what the bridge's two building blocks check and do.          *)
(***************************************************************************)
\* Some entry names record i.
Named(ix, i) == \E e \in Entries : ix[e] = i

\* Record d is a directory in use, so that nfsk_iget and a lookup in it work.
IsOpenDir(ix, d) == d = Root \/ (d \in Dirs /\ Named(ix, d))

\* ntfs_check_empty_dir: record i is not a directory that holds entries.
IsEmptyDir(ix, i) == \A e \in Entries : e[1] = i => ix[e] = NoInode

\* The name fits (ulen <= 255) and is free in the directory.
CanLink(ix, e) ==
    /\ IsOpenDir(ix, e[1])
    /\ ix[e] = NoInode
    /\ IsTemp(e) => e[2] \notin LongNames

\* nfsk_do_unlink: the name is there, its record is not a system file, and
\* ntfs_delete does not take the last name of a directory with entries.
CanUnlink(ix, e) ==
    /\ IsOpenDir(ix, e[1])
    /\ ix[e] \in Inodes
    /\ IsEmptyDir(ix, ix[e]) \/ \E f \in Entries : f # e /\ ix[f] = ix[e]

\* A call that cannot succeed fails; one that can may fail all the same, which
\* counts as a fault.
Fails(can) == ~can \/ faults < MaxFaults
Cost(can)  == IF can THEN 1 ELSE 0

LinkOk(e, i) == CanLink(index, e) /\ index' = [index EXCEPT ![e] = i]
UnlinkOk(e)  == CanUnlink(index, e) /\ index' = [index EXCEPT ![e] = NoInode]

\* nfsk_do_link fails.  Its late error is the one of the ntfs_inode_close
\* that follows a link that was made.
LinkFails(e, i) ==
    /\ Fails(CanLink(index, e))
    /\ UNCHANGED index \/ (LateErrors /\ LinkOk(e, i))

UnlinkFails(e) == Fails(CanUnlink(index, e)) /\ UNCHANGED index

(***************************************************************************)
(* Operations of one call.                                                  *)
(***************************************************************************)
OneCall(r) ==
    /\ pc = "idle"
    /\ req' = NoReq /\ res' = r
    /\ UNCHANGED <<pc, seq, faults, crashes>>

\* nfsk_create: ntfs_create takes a free record, of the kind asked for.
Create(e, i) ==
    /\ ~IsTemp(e)
    /\ i \in Inodes /\ ~Named(index, i)
    /\ \/ OneCall("ok")  /\ LinkOk(e, i)
       \/ OneCall("err") /\ LinkFails(e, i)

\* nfsk_symlink: a record of its own, which carries the target.
Symlink(e, i) == i \in Files /\ Create(e, i)

\* nfsk_unlink: by name alone, the caller's record number is not used.
Unlink(e) ==
    \/ OneCall("ok")  /\ UnlinkOk(e)
    \/ OneCall("err") /\ UnlinkFails(e)

\* nfsk_link: system records and directories take no further name.
Link(i, e) ==
    /\ ~IsTemp(e)
    /\ Named(index, i)
    /\ \/ OneCall("ok")  /\ i \in Files /\ LinkOk(e, i)
       \/ OneCall("err") /\ i \in Files /\ LinkFails(e, i)
       \/ OneCall("err") /\ i \notin Files /\ UNCHANGED index

(***************************************************************************)
(* nfsk_rename, up to its first change.                                     *)
(***************************************************************************)
\* Both directories open, and the source is a record that is not a system file.
SourceFound(from, to) ==
    /\ ~IsTemp(from) /\ ~IsTemp(to)
    /\ IsOpenDir(index, from[1]) /\ IsOpenDir(index, to[1])
    /\ index[from] \in Inodes

\* The name of the record that makes way: "%s.ntfs-3g-%010d".
TempOfNext(e, n) == <<e[1], e[2], n + 1>>
TempOf(e, n)     == <<e[1], e[2], n>>

\* Nothing is changed: the source is missing or a system file, the new name
\* is a directory that holds entries, or a call that only reads failed.
RenameRefused(from, to) ==
    /\ ~IsTemp(from) /\ ~IsTemp(to)
    /\ \/ ~SourceFound(from, to)
       \/ /\ index[to] \notin {NoInode, index[from]}
          /\ ~IsEmptyDir(index, index[to])
       \/ MaxFaults > 0
    /\ OneCall("err") /\ UNCHANGED index

\* Both names lead to one record already.
RenameSameInode(from, to) ==
    /\ SourceFound(from, to)
    /\ index[to] = index[from]
    /\ OneCall("ok") /\ UNCHANGED index

RenameBegins(from, to, tmp, xino, call) ==
    /\ pc = "idle" /\ pc' = call /\ res' = "err"
    /\ req' = [from |-> from, to |-> to, tmp |-> tmp,
               ino |-> index[from], xino |-> xino, was |-> index[to]]
    /\ UNCHANGED <<index, crashes>>

\* The new name is free, or its lookup failed: nfsk_rename takes any error of
\* the lookup for "not there".
RenameToFree(from, to) ==
    /\ SourceFound(from, to)
    /\ Fails(index[to] # NoInode)
    /\ faults' = faults + Cost(index[to] # NoInode)
    /\ RenameBegins(from, to, to, NoInode, "link_new")
    /\ UNCHANGED seq

\* The new name is taken by another record, which makes way under a
\* temporary name.
RenameOver(from, to) ==
    /\ SourceFound(from, to)
    /\ index[to] \notin {NoInode, index[from]}
    /\ IsEmptyDir(index, index[to])
    /\ seq < MaxSeq /\ seq' = seq + 1
    /\ RenameBegins(from, to, TempOf(to, seq + 1), index[to], "link_tmp")
    /\ UNCHANGED faults

(***************************************************************************)
(* nfsk_rename, one call at a time: the next call and the value that will    *)
(* be returned, after success and after failure.                             *)
(***************************************************************************)
Goto(call, r, f) ==
    /\ pc' = call /\ res' = r
    /\ faults' = IF call = "idle" THEN 0 ELSE f
    /\ UNCHANGED <<req, seq, crashes>>

DoLink(e, i, okCall, okRes, failCall, failRes) ==
    \/ LinkOk(e, i)    /\ Goto(okCall, okRes, faults)
    \/ LinkFails(e, i) /\ Goto(failCall, failRes, faults + Cost(CanLink(index, e)))

DoUnlink(e, okCall, okRes, failCall, failRes) ==
    \/ UnlinkOk(e)    /\ Goto(okCall, okRes, faults)
    \/ UnlinkFails(e) /\ Goto(failCall, failRes, faults + Cost(CanUnlink(index, e)))

\* The new name is free.
LinkNew ==
    /\ pc = "link_new"
    /\ DoLink(req.to, req.ino, "unlink_old", "err", "idle", "err")

\* UnlinkOld without the rollback.
UnlinkOldOnly ==
    /\ pc = "unlink_old"
    /\ DoUnlink(req.from, "idle", "ok", "idle", "err")

UnlinkOld ==
    /\ pc = "unlink_old"
    /\ DoUnlink(req.from, "idle", "ok", "undo_new", "err")

UndoNew ==
    /\ pc = "undo_new"
    /\ DoUnlink(req.to, "idle", "err", "idle", "err")

\* LinkTmp whose failure is not looked at.
LinkTmpUnchecked ==
    /\ pc = "link_tmp"
    /\ DoLink(req.tmp, req.xino, "drop_target", "err", "drop_target", "err")

\* The new name is taken.
LinkTmp ==
    /\ pc = "link_tmp"
    /\ DoLink(req.tmp, req.xino, "drop_target", "err", "idle", "err")

DropTarget ==
    /\ pc = "drop_target"
    /\ DoUnlink(req.to, "link_src", "err", "drop_tmp", "err")

LinkSrc ==
    /\ pc = "link_src"
    /\ DoLink(req.to, req.ino, "drop_src", "err", "restore", "err")

\* DropSrc that restores the replaced record without undoing the new link.
DropSrcNoUndo ==
    /\ pc = "drop_src"
    /\ DoUnlink(req.from, "drop_tmp", "ok", "restore", "err")

DropSrc ==
    /\ pc = "drop_src"
    /\ DoUnlink(req.from, "drop_tmp", "ok", "undo_src", "err")

\* UndoSrc that gives up instead of going on to the restoration.
UndoSrcThenDropTmp ==
    /\ pc = "undo_src"
    /\ DoUnlink(req.to, "drop_tmp", "err", "drop_tmp", "err")

UndoSrc ==
    /\ pc = "undo_src"
    /\ DoUnlink(req.to, "restore", "err", "restore", "err")

Restore ==
    /\ pc = "restore"
    /\ DoLink(req.to, req.xino, "drop_tmp", "err", "drop_tmp", "err")

DropTmp ==
    /\ pc = "drop_tmp"
    /\ DoUnlink(req.tmp, "idle", res, "idle", res)

\* The process dies.  The next one starts with rename_seq = 0 and finds the
\* indexes as the completed calls left them.
Crash ==
    /\ crashes < MaxCrashes /\ crashes' = crashes + 1
    /\ pc' = "idle" /\ res' = "crash" /\ seq' = 0 /\ faults' = 0
    /\ req' = IF pc = "idle" THEN NoReq ELSE req
    /\ UNCHANGED index

(***************************************************************************)
(* The specification.                                                       *)
(***************************************************************************)
\* A fresh volume: the root holds the system files, each under one name.
Init ==
    /\ index \in [Entries -> System \cup {NoInode}]
    /\ \A s \in System : \E e \in {Root} \X Names \X {0} :
           \A f \in Entries : index[f] = s <=> f = e
    /\ pc = "idle" /\ req = NoReq /\ res = "ok"
    /\ seq = 0 /\ faults = 0 /\ crashes = 0

RenameStart(from, to) ==
    \/ RenameRefused(from, to)
    \/ RenameSameInode(from, to)
    \/ RenameToFree(from, to)
    \/ RenameOver(from, to)

RenameStep ==
    \/ LinkNew \/ UnlinkOld \/ UndoNew
    \/ LinkTmp \/ DropTarget \/ LinkSrc \/ DropSrc
    \/ UndoSrc \/ Restore \/ DropTmp

Next ==
    \/ \E e \in Entries, i \in Inodes : Create(e, i) \/ Symlink(e, i) \/ Link(i, e)
    \/ \E e \in Entries : Unlink(e)
    \/ \E from, to \in Entries : RenameStart(from, to)
    \/ RenameStep
    \/ Crash

Spec == Init /\ [][Next]_vars

(***************************************************************************)
(* Properties.                                                              *)
(***************************************************************************)
\* Every variable has its type; the temporary name of a rename is an entry.
TypeOK ==
    /\ index \in [Entries -> Records \cup {NoInode}]
    /\ pc \in Calls \cup {"idle"}
    /\ req \in [from : Entries, to : Entries, tmp : Entries,
                ino : Inodes \cup {NoInode}, xino : Records \cup {NoInode},
                was : Records \cup {NoInode}]
    /\ res \in {"ok", "err", "crash"}
    /\ seq \in 0 .. MaxSeq
    /\ faults \in 0 .. MaxFaults
    /\ crashes \in 0 .. MaxCrashes

\* At every instant of a rename, the ones at which the process may die and
\* those after a failure included, the record that is moved has a name, and
\* the record that is replaced has one until the rename has succeeded
\* (the three phases of nfsk_rename_impl).
DataKept ==
    req.ino # NoInode =>
        /\ Named(index, req.ino)
        /\ req.xino # NoInode =>
               Named(index, req.xino) \/ (pc = "idle" /\ res = "ok")

\* A rename that returned an error has put both names back.
FailedRenameRestores ==
    (pc = "idle" /\ res = "err" /\ req.ino # NoInode) =>
        /\ index[req.from] = req.ino
        /\ index[req.to] = req.was

\* A directory, which nfsk_link never gives a second name, has one name again
\* whenever a rename of it has ended, with success or not.
DirsHaveOneName ==
    (pc = "idle" /\ crashes = 0) => \A d \in Dirs, e, f \in Entries :
                       (index[e] = d /\ index[f] = d) => e = f

(***************************************************************************)
(* What a client sees through the lock: the rename it waits for has happened *)
(* entirely or not at all.                                                   *)
(***************************************************************************)
ClientEntries == {e \in Entries : ~IsTemp(e)}

visible ==
    [e \in ClientEntries |->
        IF pc \in {"idle", "drop_tmp"} THEN index[e]
        ELSE IF e = req.from THEN req.ino
        ELSE IF e = req.to THEN req.was
        ELSE index[e]]

Atomic == INSTANCE AtomicNamespace
          WITH ns <- visible, alive <- crashes = 0, Places <- ClientEntries

\* Renames are atomic, and none replaces or removes a system file or a
\* directory that holds entries.
AtomicSpec == Atomic!Spec

============================================================================
