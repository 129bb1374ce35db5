------------------------ MODULE NtfsNamespaceProofs ------------------------
(***************************************************************************)
(* For every volume, with any number of directories, files, names and       *)
(* crashes: a rename of which at most one call fails, and then without       *)
(* effect, never takes the last name of a record, wherever the process dies. *)
(***************************************************************************)
EXTENDS NtfsNamespace, TLAPS

FreePath   == {"link_new", "unlink_old", "undo_new"}
TargetPath == {"link_tmp", "drop_target", "link_src", "drop_src",
               "undo_src", "restore", "drop_tmp"}

\* Between operations nothing is pending.
IdleInv == pc = "idle" => faults = 0 /\ DataKept

\* While a rename runs both directories stay open, and the source keeps its
\* old name until the rename has succeeded.
SourceInv ==
    pc # "idle" =>
        /\ req.ino \in Inodes
        /\ ~IsTemp(req.from) /\ ~IsTemp(req.to)
        /\ IsOpenDir(index, req.from[1]) /\ IsOpenDir(index, req.to[1])
        /\ res = "err" => index[req.from] = req.ino
        /\ res = "ok"  => pc = "drop_tmp"
        /\ res # "crash"

FreeInv ==
    pc \in FreePath =>
        /\ req.xino = NoInode
        /\ pc # "link_new" => index[req.to] = req.ino /\ req.from # req.to

\* The replaced record keeps the temporary name, and what the new name leads
\* to at each call.  The fault that led to a rollback was the only one.
TargetInv ==
    pc \in TargetPath =>
        /\ req.xino \in Records /\ req.xino # req.ino
        /\ IsTemp(req.tmp)
        /\ pc # "link_tmp" => index[req.tmp] = req.xino
        /\ pc \in {"link_tmp", "drop_target"} => index[req.to] = req.xino
        /\ pc \in {"link_src", "restore"} => index[req.to] = NoInode
        /\ pc \in {"drop_src", "undo_src"} => index[req.to] = req.ino /\ req.from # req.to
        /\ pc \in {"undo_src", "restore"} => faults = 1
        /\ pc = "drop_tmp" => index[req.to] = IF res = "ok" THEN req.ino ELSE req.xino

Inv == TypeOK /\ IdleInv /\ SourceInv /\ FreeInv /\ TargetInv

(***************************************************************************)
(* Types.                                                                   *)
(***************************************************************************)
\* Some entry exists, so that NoReq has its type.
LEMMA AnyEntryType == AnyEntry \in Entries
<1>1. PICK n \in Names : TRUE
  BY NamespaceAssumption
<1>2. <<Root, n, 0>> \in Entries
  BY <1>1, NamespaceAssumption DEF Entries, AllDirs
<1> QED
  BY <1>2 DEF AnyEntry

LEMMA NoReqType ==
    NoReq \in [from : Entries, to : Entries, tmp : Entries,
               ino : Inodes \cup {NoInode}, xino : Records \cup {NoInode},
               was : Records \cup {NoInode}]
BY AnyEntryType DEF NoReq

\* The temporary name of an entry is an entry, and not a client's.
LEMMA TempOfType ==
    ASSUME NEW e \in Entries, NEW n \in 1 .. MaxSeq
    PROVE  TempOf(e, n) \in Entries /\ IsTemp(TempOf(e, n))
BY NamespaceAssumption DEF TempOf, Entries, IsTemp

\* The type correctness of the namespace: every operation, and every call of a
\* rename, keeps the type of every variable.
THEOREM TypeCorrect == Spec => []TypeOK
<1>1. Init => TypeOK
  BY NoReqType, NamespaceAssumption DEF Init, TypeOK, Records
<1>2. TypeOK /\ [Next]_vars => TypeOK'
  <2> SUFFICES ASSUME TypeOK, [Next]_vars PROVE TypeOK'
    OBVIOUS
  <2> USE NamespaceAssumption
  <2>1. ASSUME NEW e \in Entries, NEW i \in Inodes, Create(e, i) \/ Symlink(e, i) \/ Link(i, e)
        PROVE  TypeOK'
    BY <2>1, NoReqType
    DEF TypeOK, Create, Symlink, Link, OneCall, LinkOk, LinkFails, Records
  <2>2. ASSUME NEW e \in Entries, Unlink(e)
        PROVE  TypeOK'
    BY <2>2, NoReqType DEF TypeOK, Unlink, OneCall, UnlinkOk, UnlinkFails
  <2>3. ASSUME NEW from \in Entries, NEW to \in Entries, RenameStart(from, to)
        PROVE  TypeOK'
    <3>1. CASE RenameRefused(from, to) \/ RenameSameInode(from, to)
      BY <3>1, NoReqType DEF TypeOK, RenameRefused, RenameSameInode, OneCall
    <3>2. CASE RenameToFree(from, to)
      BY <3>2 DEF TypeOK, RenameToFree, RenameBegins, SourceFound, Fails, Cost, Calls
    <3>3. CASE RenameOver(from, to)
      <4>1. seq + 1 \in 1 .. MaxSeq
        BY <3>3 DEF TypeOK, RenameOver
      <4> QED
        BY <3>3, <4>1, TempOfType
        DEF TypeOK, RenameOver, RenameBegins, SourceFound, Calls
    <3> QED
      BY <2>3, <3>1, <3>2, <3>3 DEF RenameStart
  <2>4. ASSUME NEW e \in Entries, NEW i \in Records \cup {NoInode},
               NEW okCall \in Calls \cup {"idle"}, NEW okRes \in {"ok", "err", "crash"},
               NEW failCall \in Calls \cup {"idle"}, NEW failRes \in {"ok", "err", "crash"},
               \/ DoLink(e, i, okCall, okRes, failCall, failRes)
               \/ DoUnlink(e, okCall, okRes, failCall, failRes)
        PROVE  TypeOK'
    BY <2>4 DEF TypeOK, DoLink, DoUnlink, Goto, LinkOk, LinkFails, UnlinkOk,
                UnlinkFails, Fails, Cost
  <2>5. CASE RenameStep
    <3>1. req.from \in Entries /\ req.to \in Entries /\ req.tmp \in Entries
      BY DEF TypeOK
    <3>2. CASE LinkNew \/ LinkTmp \/ LinkSrc \/ Restore
      <4>1. /\ req.ino \in Records \cup {NoInode}
            /\ req.xino \in Records \cup {NoInode}
        BY DEF TypeOK, Records
      <4>2. CASE LinkNew
        BY <3>1, <4>1, <4>2, <2>4 DEF LinkNew, Calls
      <4>3. CASE LinkTmp
        BY <3>1, <4>1, <4>3, <2>4 DEF LinkTmp, Calls
      <4>4. CASE LinkSrc
        BY <3>1, <4>1, <4>4, <2>4 DEF LinkSrc, Calls
      <4>5. CASE Restore
        BY <3>1, <4>1, <4>5, <2>4 DEF Restore, Calls
      <4> QED
        BY <3>2, <4>2, <4>3, <4>4, <4>5
    <3>3. CASE UnlinkOld \/ UndoNew \/ DropTarget \/ DropSrc \/ UndoSrc \/ DropTmp
      <4>1. NoInode \in Records \cup {NoInode} /\ res \in {"ok", "err", "crash"}
        BY DEF TypeOK
      <4>2. CASE UnlinkOld
        BY <3>1, <4>1, <4>2, <2>4 DEF UnlinkOld, Calls
      <4>3. CASE UndoNew
        BY <3>1, <4>1, <4>3, <2>4 DEF UndoNew, Calls
      <4>4. CASE DropTarget
        BY <3>1, <4>1, <4>4, <2>4 DEF DropTarget, Calls
      <4>5. CASE DropSrc
        BY <3>1, <4>1, <4>5, <2>4 DEF DropSrc, Calls
      <4>6. CASE UndoSrc
        BY <3>1, <4>1, <4>6, <2>4 DEF UndoSrc, Calls
      <4>7. CASE DropTmp
        BY <3>1, <4>1, <4>7, <2>4 DEF DropTmp, Calls
      <4> QED
        BY <3>3, <4>2, <4>3, <4>4, <4>5, <4>6, <4>7
    <3> QED
      BY <2>5, <3>2, <3>3 DEF RenameStep
  <2>6. CASE Crash
    BY <2>6, NoReqType DEF TypeOK, Crash
  <2>7. CASE UNCHANGED vars
    BY <2>7 DEF TypeOK, vars
  <2> QED
    BY <2>1, <2>2, <2>3, <2>5, <2>6, <2>7 DEF Next
<1> QED
  BY <1>1, <1>2, PTL DEF Spec

(***************************************************************************)
(* The names of the records through one call.                               *)
(***************************************************************************)
\* A link takes no name away.
LEMMA LinkNames ==
    ASSUME TypeOK, NEW e \in Entries, NEW i, LinkOk(e, i), NEW j, j # NoInode,
           Named(index, j)
    PROVE  Named(index', j)
<1>1. PICK f \in Entries : index[f] = j
  BY DEF Named
<1>2. f # e /\ index'[f] = j
  BY <1>1 DEF LinkOk, CanLink, TypeOK
<1> QED
  BY <1>2 DEF Named

\* Nor does an unlink of one of two names of a record.
LEMMA UnlinkNames ==
    ASSUME TypeOK, NEW e \in Entries, UnlinkOk(e),
           NEW g \in Entries, g # e, index[g] = index[e],
           NEW j, j # NoInode, Named(index, j)
    PROVE  Named(index', j)
<1>1. PICK f \in Entries : index[f] = j
  BY DEF Named
<1>2. CASE f = e
  <2>1. index'[g] = j
    BY <1>1, <1>2 DEF UnlinkOk, TypeOK
  <2> QED
    BY <2>1 DEF Named
<1>3. CASE f # e
  <2>1. index'[f] = j
    BY <1>1, <1>3 DEF UnlinkOk, TypeOK
  <2> QED
    BY <2>1 DEF Named
<1> QED
  BY <1>2, <1>3

\* Then every directory that was open stays open.
LEMMA OpenKept ==
    ASSUME NEW d, IsOpenDir(index, d),
           \A j : (j # NoInode /\ Named(index, j)) => Named(index', j)
    PROVE  IsOpenDir(index', d)
<1>1. d \in Dirs => d # NoInode
  BY NamespaceAssumption DEF Records, Inodes
<1> QED
  BY <1>1 DEF IsOpenDir

\* One of two names of a user's record can be taken away, whatever the record.
LEMMA SecondName ==
    ASSUME NEW e \in Entries, NEW g \in Entries, g # e, index[g] = index[e],
           index[e] \in Inodes, IsOpenDir(index, e[1])
    PROVE  CanUnlink(index, e)
BY DEF CanUnlink


(***************************************************************************)
(* The inductive invariant.                                                 *)
(***************************************************************************)
SingleFault == MaxFaults <= 1 /\ LateErrors = FALSE

\* A record that an entry names has a name.
LEMMA EntryNames ==
    ASSUME NEW ix, NEW e \in Entries
    PROVE  Named(ix, ix[e])
BY DEF Named

\* What a call that is made while a rename runs leaves as it is.
LEMMA CallFrame ==
    ASSUME NEW call, NEW r, NEW f, Goto(call, r, f)
    PROVE  req' = req /\ pc' = call /\ res' = r /\ faults' = IF call = "idle" THEN 0 ELSE f
BY DEF Goto

\* The record being moved, and the one being replaced, have names.
LEMMA RunningKeepsData ==
    ASSUME TypeOK, SourceInv, FreeInv, TargetInv, pc # "idle"
    PROVE  Named(index, req.ino) /\ (req.xino # NoInode => Named(index, req.xino))
<1> USE DEF TypeOK
<1>1. req.from \in Entries /\ req.to \in Entries /\ req.tmp \in Entries
  OBVIOUS
<1>2. Named(index, req.ino)
  <2>1. index[req.from] = req.ino \/ index[req.to] = req.ino
    BY DEF SourceInv, TargetInv, TargetPath
  <2> QED
    BY <1>1, <2>1 DEF Named
<1>3. ASSUME req.xino # NoInode PROVE Named(index, req.xino)
  <2>1. index[req.to] = req.xino \/ index[req.tmp] = req.xino
    BY <1>3 DEF FreeInv, FreePath, TargetInv, TargetPath, Calls
  <2> QED
    BY <1>1, <2>1 DEF Named
<1> QED
  BY <1>2, <1>3

\* An operation of one call leaves no rename pending.
LEMMA OneCallInv ==
    ASSUME TypeOK', IdleInv, NEW r \in {"ok", "err"}, OneCall(r)
    PROVE  Inv'
<1>1. pc' = "idle" /\ faults' = 0 /\ req'.ino = NoInode
  BY DEF OneCall, IdleInv, NoReq
<1> QED
  BY <1>1 DEF Inv, IdleInv, DataKept, SourceInv, FreeInv, TargetInv, FreePath, TargetPath

\* The first step of a rename.
LEMMA RenameStartInv ==
    ASSUME Inv, TypeOK', NEW from \in Entries, NEW to \in Entries, RenameStart(from, to)
    PROVE  Inv'
<1> USE DEF TypeOK, Inv
<1>1. CASE RenameRefused(from, to) \/ RenameSameInode(from, to)
  BY <1>1, OneCallInv DEF RenameRefused, RenameSameInode
<1>2. CASE RenameToFree(from, to)
  BY <1>2, NamespaceAssumption
  DEF RenameToFree, RenameBegins, SourceFound, IsOpenDir, Named,
      IdleInv, SourceInv, FreeInv, TargetInv, FreePath, TargetPath
<1>3. CASE RenameOver(from, to)
  <2>1. seq + 1 \in 1 .. MaxSeq
    BY <1>3 DEF RenameOver
  <2>2. IsTemp(TempOf(to, seq + 1))
    BY <2>1, TempOfType
  <2> QED
    BY <1>3, <2>2, NamespaceAssumption
    DEF RenameOver, RenameBegins, SourceFound, IsOpenDir, Named,
        IdleInv, SourceInv, FreeInv, TargetInv, FreePath, TargetPath
<1> QED
  BY <1>1, <1>2, <1>3 DEF RenameStart


\* The calls of the path of a free name.
LEMMA FreeCallInv ==
    ASSUME Inv, TypeOK', SingleFault, LinkNew \/ UnlinkOld \/ UndoNew
    PROVE  Inv'
<1> USE DEF TypeOK, Inv, FreePath, TargetPath, Goto
<1>1. req.from \in Entries /\ req.to \in Entries
  OBVIOUS
<1>2. CASE LinkNew
  <2>1. CASE LinkOk(req.to, req.ino) /\ Goto("unlink_old", "err", faults)
    <3>1. IsOpenDir(index', req.from[1]) /\ IsOpenDir(index', req.to[1])
      BY <1>1, <1>2, <2>1, LinkNames, OpenKept DEF SourceInv, LinkNew
    <3>2. /\ index[req.from] = req.ino /\ index[req.to] = NoInode
          /\ index'[req.to] = req.ino
          /\ \A e \in Entries : e # req.to => index'[e] = index[e]
      BY <1>1, <1>2, <2>1 DEF LinkOk, CanLink, SourceInv, LinkNew, IdleInv
    <3>3. req.ino # NoInode /\ index'[req.from] = req.ino /\ req.from # req.to
      BY <1>1, <1>2, <3>2, NamespaceAssumption DEF SourceInv, LinkNew, Records
    <3> QED
      BY <1>2, <2>1, <3>1, <3>2, <3>3
      DEF LinkNew, IdleInv, SourceInv, FreeInv, TargetInv
  <2>2. CASE LinkFails(req.to, req.ino) /\ pc' = "idle" /\ faults' = 0 /\ UNCHANGED req
    <3>1. UNCHANGED index
      BY <2>2 DEF LinkFails, SingleFault
    <3>2. Named(index, req.ino) /\ (req.xino # NoInode => Named(index, req.xino))
      BY <1>2, RunningKeepsData DEF LinkNew
    <3> QED
      BY <2>2, <3>1, <3>2
      DEF IdleInv, DataKept, SourceInv, FreeInv, TargetInv, Named
  <2> QED
    BY <1>2, <2>1, <2>2 DEF LinkNew, DoLink
<1>3. CASE UnlinkOld \/ UndoNew
  <2>1. /\ index[req.from] = req.ino
        /\ index[req.to] = req.ino /\ req.from # req.to
        /\ req.ino \in Inodes /\ req.ino # NoInode /\ req.xino = NoInode
    BY <1>3, NamespaceAssumption
    DEF UnlinkOld, UndoNew, SourceInv, FreeInv, IdleInv, Records, Calls
  <2>2. Named(index', req.ino)
    <3>1. Named(index, req.ino)
      BY <1>1, <2>1 DEF Named
    <3>2. CASE UnlinkOk(req.from) /\ UnlinkOld
      BY <1>1, <2>1, <3>1, <3>2, UnlinkNames DEF UnlinkOld
    <3>3. CASE UnlinkOk(req.to) /\ UndoNew
      BY <1>1, <2>1, <3>1, <3>3, UnlinkNames DEF UndoNew
    <3>4. CASE UNCHANGED index
      BY <3>1, <3>4 DEF Named
    <3> QED
      BY <1>3, <3>2, <3>3, <3>4 DEF UnlinkOld, UndoNew, DoUnlink, UnlinkFails
  <2>3. CASE pc' = "idle"
    BY <1>3, <2>1, <2>2, <2>3
    DEF UnlinkOld, UndoNew, DoUnlink, IdleInv, DataKept, SourceInv, FreeInv, TargetInv
  <2>4. CASE UnlinkOld /\ UnlinkFails(req.from) /\ pc' = "undo_new"
    BY <1>3, <2>1, <2>4
    DEF UnlinkOld, DoUnlink, UnlinkFails, IdleInv, SourceInv, FreeInv, TargetInv
  <2> QED
    BY <1>3, <2>3, <2>4 DEF UnlinkOld, UndoNew, DoUnlink
<1> QED
  BY <1>2, <1>3


\* The calls of the path of a taken name.
LEMMA TargetCallInv ==
    ASSUME Inv, TypeOK', SingleFault,
           \/ LinkTmp \/ DropTarget \/ LinkSrc \/ DropSrc
           \/ UndoSrc \/ Restore \/ DropTmp
    PROVE  Inv'
<1> USE DEF TypeOK, Inv, FreePath, TargetPath, Goto
<1>1. /\ req.from \in Entries /\ req.to \in Entries /\ req.tmp \in Entries
      /\ req.ino \in Inodes /\ req.ino # NoInode /\ req.xino # NoInode
      /\ req.xino # req.ino /\ req.tmp # req.to /\ req.tmp # req.from
      /\ IsOpenDir(index, req.from[1]) /\ IsOpenDir(index, req.to[1])
  BY NamespaceAssumption
  DEF LinkTmp, DropTarget, LinkSrc, DropSrc, UndoSrc, Restore, DropTmp,
      SourceInv, TargetInv, Records
<1>2. Named(index, req.ino) /\ Named(index, req.xino)
  BY <1>1, RunningKeepsData
  DEF LinkTmp, DropTarget, LinkSrc, DropSrc, UndoSrc, Restore, DropTmp
<1>3. ASSUME NEW e \in {req.to, req.tmp}, NEW i, LinkOk(e, i)
      PROVE  /\ IsOpenDir(index', req.from[1]) /\ IsOpenDir(index', req.to[1])
             /\ index[e] = NoInode /\ index'[e] = i
             /\ \A f \in Entries : f # e => index'[f] = index[f]
  BY <1>1, <1>3, LinkNames, OpenKept DEF LinkOk, CanLink
<1>4. ASSUME NEW e \in {req.from, req.to, req.tmp}, UnlinkOk(e)
      PROVE  /\ index'[e] = NoInode
             /\ \A f \in Entries : f # e => index'[f] = index[f]
  BY <1>1, <1>4 DEF UnlinkOk
<1>5. ASSUME NEW e \in {req.from, req.to}, UnlinkOk(e),
             NEW g \in Entries, g # e, index[g] = index[e]
      PROVE  IsOpenDir(index', req.from[1]) /\ IsOpenDir(index', req.to[1])
  BY <1>1, <1>5, UnlinkNames, OpenKept
<1>6. CASE LinkTmp
  <2>1. CASE LinkOk(req.tmp, req.xino) /\ Goto("drop_target", "err", faults)
    BY <1>1, <1>3, <1>6, <2>1
    DEF LinkTmp, IdleInv, SourceInv, FreeInv, TargetInv
  <2>2. CASE LinkFails(req.tmp, req.xino) /\ pc' = "idle" /\ faults' = 0 /\ UNCHANGED req
    <3>1. UNCHANGED index
      BY <2>2 DEF LinkFails, SingleFault
    <3> QED
      BY <1>2, <2>2, <3>1
      DEF IdleInv, DataKept, SourceInv, FreeInv, TargetInv, Named
  <2> QED
    BY <1>6, <2>1, <2>2 DEF LinkTmp, DoLink
<1>7. CASE DropTarget
  <2>1. CASE UnlinkOk(req.to) /\ Goto("link_src", "err", faults)
    <3>1. index[req.tmp] = index[req.to] /\ index[req.from] # index[req.to]
      BY <1>1, <1>7 DEF DropTarget, SourceInv, TargetInv, IdleInv
    <3> QED
      BY <1>1, <1>4, <1>5, <1>7, <2>1, <3>1
      DEF DropTarget, IdleInv, SourceInv, FreeInv, TargetInv
  <2>2. CASE UnlinkFails(req.to) /\ pc' = "drop_tmp" /\ res' = "err" /\ UNCHANGED req
    BY <1>1, <1>7, <2>2
    DEF DropTarget, UnlinkFails, IdleInv, SourceInv, FreeInv, TargetInv
  <2> QED
    BY <1>7, <2>1, <2>2 DEF DropTarget, DoUnlink
<1>8. CASE LinkSrc
  <2>1. CASE LinkOk(req.to, req.ino) /\ Goto("drop_src", "err", faults)
    <3>1. index[req.from] = req.ino
      BY <1>8 DEF LinkSrc, SourceInv
    <3> QED
      BY <1>1, <1>3, <1>8, <2>1, <3>1
      DEF LinkSrc, IdleInv, SourceInv, FreeInv, TargetInv
  <2>2. CASE LinkFails(req.to, req.ino)
             /\ Goto("restore", "err", faults + Cost(CanLink(index, req.to)))
    <3>1. UNCHANGED index
      BY <2>2 DEF LinkFails, SingleFault
    <3>2. CanLink(index, req.to)
      BY <1>1, <1>8 DEF LinkSrc, CanLink, SourceInv, TargetInv
    <3>3. faults' = 1
      BY <2>2, <3>2, NamespaceAssumption DEF LinkFails, Fails, Cost, SingleFault
    <3> QED
      BY <1>1, <1>8, <2>2, <3>1, <3>3
      DEF LinkSrc, IdleInv, SourceInv, FreeInv, TargetInv
  <2> QED
    BY <1>8, <2>1, <2>2 DEF LinkSrc, DoLink
<1>9. CASE DropSrc
  <2>1. index[req.from] = req.ino /\ index[req.to] = req.ino /\ req.from # req.to
    BY <1>9 DEF DropSrc, SourceInv, TargetInv
  <2>2. CASE UnlinkOk(req.from) /\ Goto("drop_tmp", "ok", faults)
    BY <1>1, <1>4, <1>5, <1>9, <2>1, <2>2
    DEF DropSrc, IdleInv, SourceInv, FreeInv, TargetInv
  <2>3. CASE UnlinkFails(req.from)
             /\ Goto("undo_src", "err", faults + Cost(CanUnlink(index, req.from)))
    <3>1. CanUnlink(index, req.from)
      BY <1>1, <2>1, SecondName
    <3>2. faults' = 1
      BY <2>3, <3>1, NamespaceAssumption DEF UnlinkFails, Fails, Cost, SingleFault
    <3> QED
      BY <1>1, <1>9, <2>1, <2>3, <3>2
      DEF DropSrc, UnlinkFails, IdleInv, SourceInv, FreeInv, TargetInv
  <2> QED
    BY <1>9, <2>2, <2>3 DEF DropSrc, DoUnlink
<1>10. CASE UndoSrc
  <2>1. index[req.from] = req.ino /\ index[req.to] = req.ino /\ req.from # req.to
    BY <1>10 DEF UndoSrc, SourceInv, TargetInv, IdleInv
  <2>2. CanUnlink(index, req.to) /\ faults = 1
    BY <1>1, <1>10, <2>1, SecondName DEF UndoSrc, TargetInv
  <2>3. ~UnlinkFails(req.to)
    BY <2>2, NamespaceAssumption DEF UnlinkFails, Fails, SingleFault
  <2>4. UnlinkOk(req.to) /\ Goto("restore", "err", faults)
    BY <1>10, <2>3 DEF UndoSrc, DoUnlink
  <2> QED
    BY <1>1, <1>4, <1>5, <1>10, <2>1, <2>2, <2>4
    DEF UndoSrc, IdleInv, SourceInv, FreeInv, TargetInv
<1>11. CASE Restore
  <2>1. CanLink(index, req.to) /\ faults = 1
    BY <1>1, <1>11 DEF Restore, CanLink, SourceInv, TargetInv
  <2>2. ~LinkFails(req.to, req.xino)
    BY <2>1, NamespaceAssumption DEF LinkFails, Fails, SingleFault
  <2>3. LinkOk(req.to, req.xino) /\ Goto("drop_tmp", "err", faults)
    BY <1>11, <2>2 DEF Restore, DoLink
  <2>4. index[req.from] = req.ino
    BY <1>11 DEF Restore, SourceInv
  <2> QED
    BY <1>1, <1>3, <1>11, <2>3, <2>4
    DEF Restore, IdleInv, SourceInv, FreeInv, TargetInv
<1>12. CASE DropTmp
  <2>1. /\ pc' = "idle" /\ faults' = 0 /\ UNCHANGED <<req, res>>
        /\ UNCHANGED index \/ UnlinkOk(req.tmp)
    BY <1>12 DEF DropTmp, DoUnlink, UnlinkFails
  <2>2. Named(index', req.ino) /\ (res = "err" => Named(index', req.xino))
    <3>1. CASE UNCHANGED index
      BY <1>2, <3>1 DEF Named
    <3>2. CASE UnlinkOk(req.tmp)
      BY <1>1, <1>4, <1>12, <3>2
      DEF DropTmp, Named, SourceInv, TargetInv
    <3> QED
      BY <2>1, <3>1, <3>2
  <2> QED
    BY <1>12, <2>1, <2>2
    DEF IdleInv, DataKept, SourceInv, FreeInv, TargetInv, DropTmp
<1> QED
  BY <1>6, <1>7, <1>8, <1>9, <1>10, <1>11, <1>12

\* The invariant holds in every reachable state.
THEOREM InvAlways == ASSUME SingleFault PROVE Spec => []Inv
<1>1. Init => Inv
  BY NoReqType, NamespaceAssumption
  DEF Init, Inv, TypeOK, Records, IdleInv, DataKept, NoReq, SourceInv, FreeInv,
      TargetInv, FreePath, TargetPath
<1>2. TypeOK' /\ Inv /\ [Next]_vars => Inv'
  <2> SUFFICES ASSUME TypeOK', Inv, [Next]_vars PROVE Inv'
    OBVIOUS
  <2>1. ASSUME NEW e \in Entries, NEW i \in Inodes, Create(e, i) \/ Symlink(e, i) \/ Link(i, e)
        PROVE  Inv'
    BY <2>1, OneCallInv DEF Inv, Create, Symlink, Link
  <2>2. ASSUME NEW e \in Entries, Unlink(e) PROVE Inv'
    BY <2>2, OneCallInv DEF Inv, Unlink
  <2>3. ASSUME NEW from \in Entries, NEW to \in Entries, RenameStart(from, to)
        PROVE  Inv'
    BY <2>3, RenameStartInv
  <2>4. CASE RenameStep
    BY <2>4, FreeCallInv, TargetCallInv DEF RenameStep
  <2>5. CASE Crash
    <3>1. /\ pc' = "idle" /\ res' = "crash" /\ faults' = 0 /\ UNCHANGED index
          /\ req' = IF pc = "idle" THEN NoReq ELSE req
      BY <2>5 DEF Crash
    <3>2. pc # "idle" =>
             Named(index, req.ino) /\ (req.xino # NoInode => Named(index, req.xino))
      BY RunningKeepsData DEF Inv
    <3> QED
      BY <3>1, <3>2
      DEF Inv, IdleInv, DataKept, Named, NoReq, SourceInv, FreeInv, TargetInv,
          FreePath, TargetPath
  <2>6. CASE UNCHANGED vars
    BY <2>6
    DEF vars, Inv, IdleInv, DataKept, Named, SourceInv, FreeInv, TargetInv, IsOpenDir
  <2> QED
    BY <2>1, <2>2, <2>3, <2>4, <2>5, <2>6 DEF Next
<1> QED
  BY <1>1, <1>2, TypeCorrect, PTL DEF Spec

\* In every state of every behaviour, a rename of which at most one call fails
\* has kept the record it moves and the record it replaces: the theorem that
\* the three phases of nfsk_rename_impl are safe to interrupt anywhere.
THEOREM RenameKeepsData == ASSUME SingleFault PROVE Spec => []DataKept
<1>1. Inv => DataKept
  <2>1. ASSUME Inv, pc # "idle" PROVE DataKept
    BY <2>1, RunningKeepsData DEF Inv, DataKept
  <2> QED
    BY <2>1 DEF Inv, IdleInv
<1> QED
  BY <1>1, InvAlways, PTL

(***************************************************************************)
(* A rename that fails, and one that succeeds, as clients see them.          *)
(***************************************************************************)
\* What the new name was, and how many faults a rollback has behind it.
RestoreInv ==
    /\ FailedRenameRestores
    /\ pc = "link_new" => index[req.to] = req.was
    /\ pc \in {"unlink_old", "undo_new"} => req.was = NoInode
    /\ pc = "undo_new" => faults = 1
    /\ pc \in TargetPath => req.was = req.xino

\* The record that makes way is empty, moves within its directory, and is a
\* user's once its name has been taken off.
ReplaceInv ==
    pc \in TargetPath =>
        /\ req.tmp[1] = req.to[1]
        /\ pc # "drop_tmp" => IsEmptyDir(index, req.xino)
        /\ pc \in {"link_src", "drop_src", "undo_src", "restore"} => req.xino \in Inodes
        /\ (pc = "drop_tmp" /\ res = "err" /\ req.xino \in Inodes) => faults = 1

\* The two names a rename gives a record for a while.
Twins(d, e, f) ==
    \/ /\ d = req.ino /\ pc \in {"unlink_old", "undo_new", "drop_src", "undo_src"}
       /\ {e, f} \subseteq {req.from, req.to}
    \/ /\ d = req.xino /\ pc \in TargetPath \ {"link_tmp"}
       /\ {e, f} \subseteq {req.to, req.tmp}

OneNameInv ==
    crashes = 0 => \A d \in Dirs, e, f \in Entries :
        (index[e] = d /\ index[f] = d) => (e = f \/ Twins(d, e, f))

\* What a call of a rename does if it links.
LEMMA LinkEffect ==
    ASSUME TypeOK, SingleFault, NEW e \in Entries, NEW i,
           NEW okCall, NEW okRes, NEW failCall, NEW failRes,
           DoLink(e, i, okCall, okRes, failCall, failRes)
    PROVE  /\ UNCHANGED <<req, seq, crashes>>
           /\ \/ /\ LinkOk(e, i) /\ index[e] = NoInode
                 /\ index' = [index EXCEPT ![e] = i]
                 /\ pc' = okCall /\ res' = okRes
                 /\ faults' = IF okCall = "idle" THEN 0 ELSE faults
              \/ /\ UNCHANGED index /\ Fails(CanLink(index, e))
                 /\ pc' = failCall /\ res' = failRes
                 /\ faults' = IF failCall = "idle" THEN 0
                              ELSE faults + Cost(CanLink(index, e))
BY DEF DoLink, Goto, LinkOk, CanLink, LinkFails, SingleFault

\* What a call of a rename does if it unlinks.
LEMMA UnlinkEffect ==
    ASSUME NEW e \in Entries,
           NEW okCall, NEW okRes, NEW failCall, NEW failRes,
           DoUnlink(e, okCall, okRes, failCall, failRes)
    PROVE  /\ UNCHANGED <<req, seq, crashes>>
           /\ \/ /\ UnlinkOk(e) /\ index' = [index EXCEPT ![e] = NoInode]
                 /\ pc' = okCall /\ res' = okRes
                 /\ faults' = IF okCall = "idle" THEN 0 ELSE faults
              \/ /\ UNCHANGED index /\ Fails(CanUnlink(index, e))
                 /\ pc' = failCall /\ res' = failRes
                 /\ faults' = IF failCall = "idle" THEN 0
                              ELSE faults + Cost(CanUnlink(index, e))
BY DEF DoUnlink, Goto, UnlinkOk, UnlinkFails

\* The one failure of an operation has been used up.
LEMMA NoSecondFault ==
    ASSUME SingleFault, faults = 1, NEW can \in BOOLEAN, can PROVE ~Fails(can)
BY NamespaceAssumption DEF Fails, SingleFault

\* A call that could have succeeded used it up.
LEMMA FirstFault ==
    ASSUME TypeOK, SingleFault, NEW can \in BOOLEAN, can, Fails(can)
    PROVE  faults + Cost(can) = 1
BY NamespaceAssumption DEF Fails, Cost, SingleFault, TypeOK

\* The two names of the moved record, or of the replaced one, of which either can
\* be taken off.
LEMMA RollbackCan ==
    ASSUME Inv, ReplaceInv
    PROVE  /\ pc \in {"unlink_old", "drop_src"} => CanUnlink(index, req.from)
           /\ pc \in {"undo_new", "undo_src"} => CanUnlink(index, req.to)
           /\ (pc = "drop_target" /\ req.xino \in Inodes) => CanUnlink(index, req.to)
           /\ (pc = "drop_tmp" /\ res # "ok" /\ req.xino \in Inodes)
                => CanUnlink(index, req.tmp)
<1>1. req.from \in Entries /\ req.to \in Entries /\ req.tmp \in Entries
  BY DEF Inv, TypeOK
<1>2. ASSUME pc \in {"unlink_old", "undo_new", "drop_src", "undo_src"}
      PROVE  CanUnlink(index, req.from) /\ CanUnlink(index, req.to)
  <2>1. /\ index[req.from] = req.ino /\ index[req.to] = req.ino /\ req.from # req.to
        /\ req.ino \in Inodes
        /\ IsOpenDir(index, req.from[1]) /\ IsOpenDir(index, req.to[1])
    BY <1>2 DEF Inv, SourceInv, FreeInv, TargetInv, FreePath, TargetPath, TypeOK
  <2> QED
    BY <1>1, <2>1, SecondName
<1>3. ASSUME pc = "drop_target" \/ (pc = "drop_tmp" /\ res # "ok"), req.xino \in Inodes
      PROVE  CanUnlink(index, req.to) /\ CanUnlink(index, req.tmp)
  <2>1. /\ index[req.to] = req.xino /\ index[req.tmp] = req.xino
        /\ IsTemp(req.tmp) /\ ~IsTemp(req.to) /\ req.tmp[1] = req.to[1]
        /\ IsOpenDir(index, req.to[1])
    BY <1>3 DEF Inv, SourceInv, TargetInv, TargetPath, ReplaceInv
  <2>2. req.tmp # req.to
    BY <2>1
  <2> QED
    BY <1>1, <1>3, <2>1, <2>2, SecondName
<1> QED
  BY <1>2, <1>3

\* The operations of one call leave no rename to restore.
LEMMA OneCallQuiet ==
    ASSUME Inv, NEW r, OneCall(r)
    PROVE  /\ pc = "idle" /\ pc' = "idle" /\ UNCHANGED crashes
           /\ req'.ino = NoInode
BY DEF OneCall, NoReq

\* Which the operations of one call are.
LEMMA ShortOps ==
    ASSUME NEW e \in Entries, NEW i \in Inodes,
           Create(e, i) \/ Symlink(e, i) \/ Link(i, e) \/ Unlink(e)
    PROVE  \E r : OneCall(r)
BY DEF Create, Symlink, Link, Unlink

\* A rename that fails puts both names back, whichever call failed.
LEMMA RestoreStep ==
    ASSUME SingleFault, Inv, ReplaceInv, RestoreInv, [Next]_vars
    PROVE  RestoreInv'
<1> USE DEF RestoreInv, FreePath, TargetPath
<1> req.from \in Entries /\ req.to \in Entries /\ req.tmp \in Entries /\ TypeOK
  BY DEF Inv, TypeOK
<1>1. ASSUME NEW r, OneCall(r) PROVE RestoreInv'
  BY <1>1, OneCallQuiet DEF FailedRenameRestores
<1>2. ASSUME NEW from \in Entries, NEW to \in Entries, RenameStart(from, to)
      PROVE  RestoreInv'
  <2>1. CASE RenameRefused(from, to) \/ RenameSameInode(from, to)
    BY <1>1, <2>1 DEF RenameRefused, RenameSameInode
  <2>2. CASE RenameToFree(from, to) \/ RenameOver(from, to)
    BY <2>2 DEF RenameToFree, RenameOver, RenameBegins, FailedRenameRestores
  <2> QED
    BY <1>2, <2>1, <2>2 DEF RenameStart
<1>3. CASE LinkNew
  <2>1. pc = "link_new" /\ index[req.from] = req.ino
    BY <1>3 DEF LinkNew, Inv, TypeOK, SourceInv
  <2> QED
    BY <1>3, <2>1, LinkEffect DEF LinkNew, FailedRenameRestores
<1>4. CASE UnlinkOld
  <2>1. CanUnlink(index, req.from)
    BY <1>4, RollbackCan DEF UnlinkOld
  <2>2. CanUnlink(index, req.from) \in BOOLEAN
    BY DEF CanUnlink
  <2>3. Fails(CanUnlink(index, req.from)) => faults + Cost(CanUnlink(index, req.from)) = 1
    BY <2>1, <2>2, FirstFault
  <2>4. pc = "unlink_old"
    BY <1>4 DEF UnlinkOld
  <2> QED
    BY <1>4, <2>3, <2>4, UnlinkEffect DEF UnlinkOld, FailedRenameRestores
<1>5. CASE UndoNew
  <2>1. CanUnlink(index, req.to) /\ faults = 1 /\ pc = "undo_new"
    BY <1>5, RollbackCan DEF UndoNew
  <2>2. CanUnlink(index, req.to) \in BOOLEAN
    BY DEF CanUnlink
  <2>3. ~Fails(CanUnlink(index, req.to))
    BY <2>1, <2>2, NoSecondFault
  <2>4. index[req.from] = req.ino /\ req.from # req.to
    BY <2>1 DEF Inv, TypeOK, SourceInv, FreeInv
  <2>5. /\ index' = [index EXCEPT ![req.to] = NoInode] /\ pc' = "idle"
        /\ req' = req
    BY <1>5, <2>3, UnlinkEffect DEF UndoNew
  <2> QED
    BY <2>1, <2>4, <2>5 DEF FailedRenameRestores, TypeOK
<1>6. CASE LinkTmp
  <2>1. pc = "link_tmp" /\ index[req.from] = req.ino /\ index[req.to] = req.xino
    BY <1>6 DEF LinkTmp, Inv, TypeOK, SourceInv, TargetInv
  <2> QED
    BY <1>6, <2>1, LinkEffect DEF LinkTmp, FailedRenameRestores
<1>7. CASE LinkSrc \/ Restore
  <2>1. pc \in TargetPath /\ pc' \in TargetPath \ {"link_tmp"} /\ req' = req
    <3>1. CASE LinkSrc
      BY <3>1, LinkEffect DEF LinkSrc
    <3>2. CASE Restore
      BY <3>2, LinkEffect DEF Restore
    <3> QED
      BY <1>7, <3>1, <3>2
  <2> QED
    BY <2>1 DEF FailedRenameRestores
<1>8. CASE DropTarget \/ DropSrc \/ UndoSrc
  <2>1. pc \in TargetPath /\ pc' \in TargetPath \ {"link_tmp"} /\ req' = req
    BY <1>8, UnlinkEffect DEF DropTarget, DropSrc, UndoSrc
  <2> QED
    BY <2>1 DEF FailedRenameRestores
<1>9. CASE DropTmp
  <2>1. pc = "drop_tmp" /\ pc' = "idle" /\ res' = res /\ req' = req
        /\ \A e \in Entries : e # req.tmp => index'[e] = index[e]
    BY <1>9, UnlinkEffect DEF DropTmp, TypeOK
  <2>2. req.tmp # req.to /\ req.tmp # req.from
    BY <2>1 DEF Inv, SourceInv, TargetInv
  <2>3. res = "err" => index[req.from] = req.ino /\ index[req.to] = req.was
    BY <2>1 DEF Inv, SourceInv, TargetInv
  <2> QED
    BY <2>1, <2>2, <2>3 DEF FailedRenameRestores
<1>10. CASE Crash
  BY <1>10 DEF Crash, FailedRenameRestores
<1>11. CASE UNCHANGED vars
  BY <1>11 DEF vars, FailedRenameRestores
<1> QED
  BY <1>1, <1>2, <1>3, <1>4, <1>5, <1>6, <1>7, <1>8, <1>9, <1>10, <1>11, ShortOps
  DEF Next, RenameStep, Unlink

\* Entries that a call adds or takes outside a directory leave it empty.
LEMMA EmptyKept ==
    ASSUME TypeOK, NEW d, IsEmptyDir(index, d), NEW e \in Entries, NEW x,
           index' = [index EXCEPT ![e] = x], e[1] # d \/ x = NoInode
    PROVE  IsEmptyDir(index', d)
BY DEF IsEmptyDir, TypeOK

\* The record that makes way stays empty and in its directory.
LEMMA ReplaceStep ==
    ASSUME SingleFault, Inv, ReplaceInv, [Next]_vars
    PROVE  ReplaceInv'
<1> USE DEF ReplaceInv, TargetPath
<1> req.from \in Entries /\ req.to \in Entries /\ req.tmp \in Entries /\ TypeOK
  BY DEF Inv, TypeOK
<1>1. ASSUME NEW r, OneCall(r) PROVE ReplaceInv'
  BY <1>1, OneCallQuiet
<1>2. ASSUME NEW from \in Entries, NEW to \in Entries, RenameStart(from, to)
      PROVE  ReplaceInv'
  <2>1. CASE RenameRefused(from, to) \/ RenameSameInode(from, to)
    BY <1>1, <2>1 DEF RenameRefused, RenameSameInode
  <2>2. CASE RenameToFree(from, to)
    BY <2>2 DEF RenameToFree, RenameBegins
  <2>3. CASE RenameOver(from, to)
    BY <2>3 DEF RenameOver, RenameBegins, TempOf, IsEmptyDir
  <2> QED
    BY <1>2, <2>1, <2>2, <2>3 DEF RenameStart
<1>3. CASE LinkNew \/ UnlinkOld \/ UndoNew
  <2>1. CASE LinkNew
    BY <2>1, LinkEffect DEF LinkNew
  <2>2. CASE UnlinkOld \/ UndoNew
    BY <2>2, UnlinkEffect DEF UnlinkOld, UndoNew
  <2> QED
    BY <1>3, <2>1, <2>2
<1>4. CASE LinkTmp
  <2>1. /\ pc = "link_tmp" /\ req.tmp[1] = req.to[1] /\ IsEmptyDir(index, req.xino)
        /\ index[req.to] = req.xino /\ req.xino # NoInode
    BY <1>4, NamespaceAssumption DEF LinkTmp, Inv, TargetInv, Records
  <2>2. req.tmp[1] # req.xino
    BY <2>1 DEF IsEmptyDir
  <2>3. index' = [index EXCEPT ![req.tmp] = req.xino] => IsEmptyDir(index', req.xino)
    BY <2>1, <2>2, EmptyKept
  <2> QED
    BY <1>4, <2>1, <2>3, LinkEffect DEF LinkTmp
<1>5. CASE DropTarget
  <2>1. /\ pc = "drop_target" /\ req.tmp[1] = req.to[1] /\ IsEmptyDir(index, req.xino)
        /\ index[req.to] = req.xino
    BY <1>5 DEF DropTarget, Inv, TargetInv
  <2>2. UnlinkOk(req.to) => req.xino \in Inodes
    BY <2>1 DEF UnlinkOk, CanUnlink
  <2>3. index' = [index EXCEPT ![req.to] = NoInode] => IsEmptyDir(index', req.xino)
    BY <2>1, EmptyKept
  <2>4. CanUnlink(index, req.to) \in BOOLEAN
    BY DEF CanUnlink
  <2>5. (req.xino \in Inodes /\ Fails(CanUnlink(index, req.to)))
           => faults + Cost(CanUnlink(index, req.to)) = 1
    BY <2>1, <2>4, RollbackCan, FirstFault
  <2> QED
    BY <1>5, <2>1, <2>2, <2>3, <2>5, UnlinkEffect DEF DropTarget
<1>6. CASE LinkSrc \/ Restore
  <2>1. /\ pc \in {"link_src", "restore"} /\ req.tmp[1] = req.to[1]
        /\ IsEmptyDir(index, req.xino) /\ req.xino \in Inodes
        /\ index[req.tmp] = req.xino /\ req.xino # NoInode
    BY <1>6, NamespaceAssumption DEF LinkSrc, Restore, Inv, TargetInv, Records
  <2>2. req.to[1] # req.xino
    BY <2>1 DEF IsEmptyDir
  <2>3. \A x : index' = [index EXCEPT ![req.to] = x] => IsEmptyDir(index', req.xino)
    BY <2>1, <2>2, EmptyKept
  <2>4. CASE LinkSrc
    BY <2>1, <2>3, <2>4, LinkEffect DEF LinkSrc
  <2>5. CASE Restore
    <3>1. /\ pc' = "drop_tmp" /\ req' = req
          /\ faults' \in {faults, faults + Cost(CanLink(index, req.to))}
          /\ faults' = faults + Cost(CanLink(index, req.to)) => Fails(CanLink(index, req.to))
                                                              \/ faults' = faults
      BY <2>5, LinkEffect DEF Restore
    <3>2. CanLink(index, req.to) /\ faults = 1
      BY <2>1, <2>5 DEF Restore, CanLink, Inv, SourceInv, TargetInv
    <3>3. ~Fails(CanLink(index, req.to))
      BY <3>2, NamespaceAssumption DEF Fails, SingleFault
    <3> QED
      BY <2>1, <3>1, <3>2, <3>3
  <2> QED
    BY <1>6, <2>4, <2>5
<1>7. CASE DropSrc
  <2>1. /\ pc = "drop_src" /\ req.tmp[1] = req.to[1] /\ req.xino \in Inodes
        /\ IsEmptyDir(index, req.xino)
    BY <1>7 DEF DropSrc
  <2> QED
    BY <1>7, <2>1, UnlinkEffect DEF DropSrc
<1>8. CASE UndoSrc
  <2>1. /\ pc = "undo_src" /\ req.tmp[1] = req.to[1] /\ req.xino \in Inodes
        /\ IsEmptyDir(index, req.xino)
    BY <1>8 DEF UndoSrc
  <2>2. index' = [index EXCEPT ![req.to] = NoInode] => IsEmptyDir(index', req.xino)
    BY <2>1, EmptyKept
  <2> QED
    BY <1>8, <2>1, <2>2, UnlinkEffect DEF UndoSrc
<1>9. CASE DropTmp \/ Crash
  BY <1>9, UnlinkEffect DEF DropTmp, Crash
<1>10. CASE UNCHANGED vars
  BY <1>10 DEF vars, IsEmptyDir
<1> QED
  BY <1>1, <1>2, <1>3, <1>4, <1>5, <1>6, <1>7, <1>8, <1>9, <1>10, ShortOps
  DEF Next, RenameStep, Unlink

\* Taking a name off gives no record a second one.
LEMMA FewerNames ==
    ASSUME TypeOK, NEW e \in Entries, NEW d \in Dirs, NEW f \in Entries, NEW g \in Entries,
           UNCHANGED index \/ index' = [index EXCEPT ![e] = NoInode],
           index'[f] = d, index'[g] = d
    PROVE  /\ index[f] = d /\ index[g] = d
           /\ index' = [index EXCEPT ![e] = NoInode] => f # e /\ g # e
BY NamespaceAssumption DEF TypeOK, Records, Inodes

\* A link gives a second name only to a record that had one.
LEMMA OneMoreName ==
    ASSUME TypeOK, NEW e \in Entries, NEW i, index' = [index EXCEPT ![e] = i],
           NEW d \in Dirs, NEW f \in Entries, NEW g \in Entries,
           index'[f] = d, index'[g] = d, f # g
    PROVE  \/ index[f] = d /\ index[g] = d /\ f # e /\ g # e
           \/ d = i /\ f = e /\ g # e /\ index[g] = d
           \/ d = i /\ g = e /\ f # e /\ index[f] = d
BY DEF TypeOK

\* No call but the running rename's gives a directory two names.
LEMMA OneNameStep ==
    ASSUME SingleFault, Inv, ReplaceInv, RestoreInv, OneNameInv, [Next]_vars
    PROVE  OneNameInv'
<1> SUFFICES ASSUME crashes' = 0, NEW d \in Dirs, NEW f \in Entries, NEW g \in Entries,
                    index'[f] = d, index'[g] = d, f # g
             PROVE  Twins(d, f, g)'
  BY DEF OneNameInv
<1> USE DEF Twins, TargetPath
<1> /\ req.from \in Entries /\ req.to \in Entries /\ req.tmp \in Entries /\ TypeOK
    /\ crashes \in Nat /\ d \in Inodes /\ d # NoInode
  BY NamespaceAssumption DEF Inv, TypeOK, Records, Inodes
<1>1. crashes = 0 \/ Crash
  BY DEF Next, Create, Symlink, Link, Unlink, OneCall, RenameStart, RenameRefused,
         RenameSameInode, RenameToFree, RenameOver, RenameBegins, RenameStep, LinkNew,
         UnlinkOld, UndoNew, LinkTmp, DropTarget, LinkSrc, DropSrc, UndoSrc, Restore,
         DropTmp, DoLink, DoUnlink, Goto, vars
<1>2. ~Crash
  BY DEF Crash
<1>3. (index[f] = d /\ index[g] = d) => Twins(d, f, g)
  BY <1>1, <1>2 DEF OneNameInv
<1>4. ASSUME NEW e \in Entries, NEW i \in Inodes, Create(e, i) \/ Symlink(e, i)
      PROVE  Twins(d, f, g)'
  <2>1. pc = "idle" /\ ~Named(index, i) /\ (UNCHANGED index \/ index' = [index EXCEPT ![e] = i])
    BY <1>4 DEF Create, Symlink, OneCall, LinkOk, LinkFails, SingleFault
  <2> QED
    BY <1>3, <2>1, OneMoreName DEF Named
<1>5. ASSUME NEW e \in Entries, NEW i \in Inodes, Link(i, e)
      PROVE  Twins(d, f, g)'
  <2>1. /\ pc = "idle"
        /\ UNCHANGED index \/ (i \in Files /\ index' = [index EXCEPT ![e] = i])
    BY <1>5 DEF Link, OneCall, LinkOk, LinkFails, SingleFault
  <2>2. i \in Files => i # d
    BY NamespaceAssumption
  <2> QED
    BY <1>3, <2>1, <2>2, OneMoreName
<1>6. ASSUME NEW e \in Entries, Unlink(e)
      PROVE  Twins(d, f, g)'
  <2>1. pc = "idle" /\ (UNCHANGED index \/ index' = [index EXCEPT ![e] = NoInode])
    BY <1>6 DEF Unlink, OneCall, UnlinkOk, UnlinkFails
  <2> QED
    BY <1>3, <2>1, FewerNames
<1>7. ASSUME NEW from \in Entries, NEW to \in Entries, RenameStart(from, to)
      PROVE  Twins(d, f, g)'
  <2>1. pc = "idle" /\ UNCHANGED index
    BY <1>7 DEF RenameStart, RenameRefused, RenameSameInode, RenameToFree, RenameOver,
                RenameBegins, OneCall
  <2> QED
    BY <1>3, <2>1
<1>8. CASE LinkNew
  <2>1. pc = "link_new" /\ index[req.from] = req.ino
    BY <1>8 DEF LinkNew, Inv, TypeOK, SourceInv
  <2>2. \A e \in Entries : index[e] = req.ino /\ req.ino = d => e = req.from
    BY <1>1, <1>2, <2>1 DEF OneNameInv
  <2>3. ~(index[f] = d /\ index[g] = d)
    BY <1>3, <2>1
  <2>4. /\ index' = [index EXCEPT ![req.to] = req.ino]
        /\ pc' = "unlink_old" /\ req' = req
    BY <1>8, <2>3, LinkEffect DEF LinkNew
  <2> QED
    BY <2>2, <2>3, <2>4, OneMoreName
<1>9. CASE UnlinkOld \/ UndoNew
  <2>1. PICK e \in {req.from, req.to} :
          \/ index' = [index EXCEPT ![e] = NoInode]
          \/ UNCHANGED index /\ (pc' = "undo_new" \/ UndoNew)
    <3>1. CASE UnlinkOld
      BY <3>1, UnlinkEffect DEF UnlinkOld
    <3>2. CASE UndoNew
      BY <3>2, UnlinkEffect DEF UndoNew
    <3> QED
      BY <1>9, <3>1, <3>2
  <2>2. req' = req /\ pc \in {"unlink_old", "undo_new"}
    BY <1>9, UnlinkEffect DEF UnlinkOld, UndoNew
  <2>3. /\ index[f] = d /\ index[g] = d
        /\ index' = [index EXCEPT ![e] = NoInode] => f # e /\ g # e
    BY <2>1, FewerNames
  <2>4. {f, g} = {req.from, req.to} /\ d = req.ino
    BY <1>3, <2>2, <2>3
  <2>5. pc' = "undo_new" \/ UndoNew
    BY <2>1, <2>3, <2>4
  <2>6. ~UndoNew
    <3>1. SUFFICES ASSUME UndoNew PROVE FALSE
      OBVIOUS
    <3>2. CanUnlink(index, req.to) /\ faults = 1 /\ CanUnlink(index, req.to) \in BOOLEAN
      BY <3>1, RollbackCan DEF UndoNew, RestoreInv, CanUnlink
    <3>3. index' = [index EXCEPT ![req.to] = NoInode]
      BY <3>1, <3>2, NoSecondFault, UnlinkEffect DEF UndoNew
    <3>4. f # req.to /\ g # req.to
      BY <3>3 DEF TypeOK
    <3> QED
      BY <2>4, <3>4
  <2> QED
    BY <2>2, <2>4, <2>5, <2>6
<1>10. CASE LinkTmp
  <2>1. pc = "link_tmp" /\ index[req.to] = req.xino
    BY <1>10 DEF LinkTmp, Inv, TargetInv
  <2>2. req' = req /\ (pc' = "idle" => UNCHANGED index)
        /\ (UNCHANGED index \/ (pc' = "drop_target" /\ index' = [index EXCEPT ![req.tmp] = req.xino]))
    BY <1>10, LinkEffect DEF LinkTmp
  <2>3. \A e \in Entries : (index[e] = req.xino /\ req.xino = d)
           => e = req.to \/ Twins(d, e, req.to)
    BY <1>1, <1>2, <2>1 DEF OneNameInv
  <2>4. CASE UNCHANGED index
    BY <1>3, <2>1, <2>2, <2>4
  <2> QED
    BY <1>3, <2>1, <2>2, <2>3, <2>4, OneMoreName
<1>11. CASE LinkSrc
  <2>1. /\ pc = "link_src" /\ index[req.from] = req.ino /\ req.ino # req.xino
        /\ index[req.to] = NoInode
    BY <1>11 DEF LinkSrc, Inv, TypeOK, SourceInv, TargetInv
  <2>2. /\ req' = req
        /\ \/ UNCHANGED index /\ pc' = "restore"
           \/ pc' = "drop_src" /\ index' = [index EXCEPT ![req.to] = req.ino]
    BY <1>11, LinkEffect DEF LinkSrc
  <2>3. \A e \in Entries : (index[e] = req.ino /\ req.ino = d) => e = req.from
    BY <1>1, <1>2, <2>1 DEF OneNameInv
  <2>4. CASE UNCHANGED index
    BY <1>3, <2>1, <2>2, <2>4
  <2> QED
    BY <1>3, <2>1, <2>2, <2>3, <2>4, OneMoreName
<1>12. CASE Restore
  <2>1. /\ pc = "restore" /\ index[req.tmp] = req.xino /\ req.tmp # req.to
        /\ index[req.to] = NoInode
    BY <1>12 DEF Restore, Inv, SourceInv, TargetInv
  <2>2. /\ req' = req /\ pc' = "drop_tmp"
        /\ UNCHANGED index \/ index' = [index EXCEPT ![req.to] = req.xino]
    BY <1>12, LinkEffect DEF Restore
  <2>3. \A e \in Entries : (index[e] = req.xino /\ req.xino = d)
           => e = req.tmp \/ Twins(d, e, req.tmp)
    BY <1>1, <1>2, <2>1 DEF OneNameInv
  <2>4. CASE UNCHANGED index
    BY <1>3, <2>1, <2>2, <2>4
  <2> QED
    BY <1>3, <2>1, <2>2, <2>3, <2>4, OneMoreName
<1>13. CASE DropTarget
  <2>1. pc = "drop_target" /\ req' = req /\ pc' \in {"link_src", "drop_tmp"}
        /\ (UNCHANGED index \/ index' = [index EXCEPT ![req.to] = NoInode])
    BY <1>13, UnlinkEffect DEF DropTarget
  <2> QED
    BY <1>3, <2>1, FewerNames
<1>14. CASE DropSrc \/ UndoSrc
  <2>1. PICK e \in {req.from, req.to} :
          /\ pc \in {"drop_src", "undo_src"} /\ req' = req
          /\ pc' \in {"drop_tmp", "undo_src", "restore"}
          /\ \/ index' = [index EXCEPT ![e] = NoInode]
             \/ UNCHANGED index /\ (pc' = "undo_src" \/ UndoSrc)
    <3>1. CASE DropSrc
      BY <3>1, UnlinkEffect DEF DropSrc
    <3>2. CASE UndoSrc
      BY <3>2, UnlinkEffect DEF UndoSrc
    <3> QED
      BY <1>14, <3>1, <3>2
  <2>2. /\ index[f] = d /\ index[g] = d
        /\ index' = [index EXCEPT ![e] = NoInode] => f # e /\ g # e
    BY <2>1, FewerNames
  <2>3. CASE d = req.xino /\ {f, g} \subseteq {req.to, req.tmp}
    BY <2>1, <2>3
  <2>4. CASE d = req.ino /\ {f, g} = {req.from, req.to}
    <3>1. pc' = "undo_src" \/ UndoSrc
      BY <2>1, <2>2, <2>4
    <3>2. ~UndoSrc
      <4>1. SUFFICES ASSUME UndoSrc PROVE FALSE
        OBVIOUS
      <4>2. CanUnlink(index, req.to) /\ faults = 1 /\ CanUnlink(index, req.to) \in BOOLEAN
        BY <4>1, RollbackCan DEF UndoSrc, Inv, TargetInv, CanUnlink
      <4>3. index' = [index EXCEPT ![req.to] = NoInode]
        BY <4>1, <4>2, NoSecondFault, UnlinkEffect DEF UndoSrc
      <4>4. f # req.to /\ g # req.to
        BY <4>3 DEF TypeOK
      <4> QED
        BY <2>4, <4>4
    <3> QED
      BY <2>1, <2>4, <3>1, <3>2
  <2> QED
    BY <1>3, <2>1, <2>2, <2>3, <2>4
<1>15. CASE DropTmp
  <2>1. /\ pc = "drop_tmp" /\ req' = req /\ pc' = "idle"
        /\ \/ index' = [index EXCEPT ![req.tmp] = NoInode]
           \/ UNCHANGED index /\ Fails(CanUnlink(index, req.tmp))
    BY <1>15, UnlinkEffect DEF DropTmp
  <2>2. /\ index[f] = d /\ index[g] = d
        /\ index' = [index EXCEPT ![req.tmp] = NoInode] => f # req.tmp /\ g # req.tmp
    BY <2>1, FewerNames
  <2>3. d = req.xino /\ {f, g} = {req.to, req.tmp}
    BY <1>3, <2>1, <2>2
  <2>4. res = "err" /\ req.xino \in Inodes
    BY <2>1, <2>2, <2>3 DEF Inv, TypeOK, SourceInv, TargetInv
  <2>5. CanUnlink(index, req.tmp) /\ faults = 1 /\ CanUnlink(index, req.tmp) \in BOOLEAN
    BY <2>1, <2>4, RollbackCan DEF ReplaceInv, CanUnlink
  <2> QED
    BY <2>1, <2>2, <2>3, <2>5, NoSecondFault
<1>16. CASE UNCHANGED vars
  BY <1>3, <1>16 DEF vars
<1> QED
  BY <1>2, <1>4, <1>5, <1>6, <1>7, <1>8, <1>9, <1>10, <1>11, <1>12, <1>13, <1>14, <1>15, <1>16
  DEF Next, RenameStep

\* What is known of the names in every reachable state.
NamesInv == Inv /\ ReplaceInv /\ RestoreInv /\ OneNameInv

THEOREM NamesAlways == ASSUME SingleFault PROVE Spec => []NamesInv
<1>1. Init => ReplaceInv /\ RestoreInv /\ OneNameInv
  <2> SUFFICES ASSUME Init PROVE ReplaceInv /\ RestoreInv /\ OneNameInv
    OBVIOUS
  <2>1. ReplaceInv /\ RestoreInv
    BY DEF Init, ReplaceInv, RestoreInv, FailedRenameRestores, TargetPath
  <2>2. \A e \in Entries : index[e] \in System \cup {NoInode}
    BY DEF Init
  <2>3. \A d \in Dirs : d \notin System \cup {NoInode}
    BY NamespaceAssumption DEF Records, Inodes
  <2> QED
    BY <2>1, <2>2, <2>3 DEF OneNameInv
<1>2. Inv /\ ReplaceInv /\ RestoreInv /\ OneNameInv /\ [Next]_vars
        => ReplaceInv' /\ RestoreInv' /\ OneNameInv'
  BY RestoreStep, ReplaceStep, OneNameStep
<1>3. Spec => [](Inv /\ ReplaceInv /\ RestoreInv /\ OneNameInv)
  BY <1>1, <1>2, InvAlways, PTL DEF Spec
<1> QED
  BY <1>3 DEF NamesInv

\* A rename of which one call failed, and which returned that error, has put
\* back both of its names, through whatever rollback the failure led to.
THEOREM FailedRenamesRestore == ASSUME SingleFault PROVE Spec => []FailedRenameRestores
<1>1. NamesInv => FailedRenameRestores
  BY DEF NamesInv, RestoreInv
<1> QED
  BY <1>1, NamesAlways, PTL

\* Whenever no rename runs, no directory of the volume has two names: the
\* second name a rename gives it is always taken off again, by the end of the
\* rename or by its rollback.
THEOREM OneNameEach == ASSUME SingleFault PROVE Spec => []DirsHaveOneName
<1>1. NamesInv => DirsHaveOneName
  BY DEF NamesInv, OneNameInv, Twins, TargetPath, DirsHaveOneName
<1> QED
  BY <1>1, NamesAlways, PTL

(***************************************************************************)
(* Refinement: for a client that waits for its answer, an operation happens  *)
(* in one step or not at all.                                               *)
(***************************************************************************)
Settled == pc \in {"idle", "drop_tmp"}

\* What a client sees of a name: between operations the index, and during a
\* rename what its two names were when it began.
LEMMA SeenAt ==
    /\ Settled => visible = [e \in ClientEntries |-> index[e]]
    /\ ~Settled => visible = [e \in ClientEntries |->
                                 IF e = req.from THEN req.ino
                                 ELSE IF e = req.to THEN req.was ELSE index[e]]
BY DEF Settled, visible

\* A call in the middle of a rename changes the rename's own names, and the
\* temporary one, which no client sees.
LEMMA InnerCall ==
    ASSUME TypeOK, ~Settled, ~Settled', req' = req,
           NEW x \in Entries, NEW y,
           UNCHANGED index \/ index' = [index EXCEPT ![x] = y],
           x \in {req.from, req.to} \/ IsTemp(x)
    PROVE  UNCHANGED visible
<1>1. ASSUME NEW e \in ClientEntries, e # req.from, e # req.to PROVE index'[e] = index[e]
  BY <1>1 DEF ClientEntries, TypeOK
<1>2. \A e \in ClientEntries :
        (IF e = req.from THEN req.ino ELSE IF e = req.to THEN req.was ELSE index'[e])
          = (IF e = req.from THEN req.ino ELSE IF e = req.to THEN req.was ELSE index[e])
  BY <1>1
<1> QED
  BY <1>2 DEF Settled, visible

\* A rename that ends with both names as they were has changed nothing.
LEMMA EndUnchanged ==
    ASSUME TypeOK, ~Settled, Settled', req' = req,
           NEW x \in Entries, NEW y,
           UNCHANGED index \/ index' = [index EXCEPT ![x] = y],
           x \in {req.from, req.to} \/ IsTemp(x),
           index'[req.from] = req.ino, index'[req.to] = req.was
    PROVE  UNCHANGED visible
<1>1. ASSUME NEW e \in ClientEntries, e # req.from, e # req.to PROVE index'[e] = index[e]
  BY <1>1 DEF ClientEntries, TypeOK
<1>2. \A e \in ClientEntries :
        index'[e] = IF e = req.from THEN req.ino ELSE IF e = req.to THEN req.was ELSE index[e]
  BY <1>1
<1> QED
  BY <1>2 DEF Settled, visible

\* A rename begins unseen.
LEMMA BeginUnseen ==
    ASSUME Inv, NEW from \in Entries, NEW to \in Entries,
           RenameToFree(from, to) \/ RenameOver(from, to)
    PROVE  UNCHANGED visible
<1>1. /\ Settled /\ ~Settled' /\ UNCHANGED index
      /\ req'.from = from /\ req'.to = to
      /\ req'.ino = index[from] /\ req'.was = index[to]
  BY DEF RenameToFree, RenameOver, RenameBegins, Settled
<1>2. \A e \in ClientEntries :
        (IF e = req'.from THEN req'.ino ELSE IF e = req'.to THEN req'.was ELSE index'[e])
          = index[e]
  BY <1>1
<1> QED
  BY <1>1, <1>2 DEF Settled, visible

\* The last step of a rename that changes the names clients see: the moved
\* record has its new name, and its old one is taken off.
LEMMA MoveDone ==
    ASSUME Inv, RestoreInv, ~Settled, Settled',
           index[req.from] = req.ino, index[req.to] = req.ino, req.from # req.to,
           req.was # req.ino,
           index' = [index EXCEPT ![req.from] = NoInode],
           req.was = NoInode \/ (req.was \in Inodes /\ IsEmptyDir(index, req.was))
    PROVE  Atomic!Change
<1>1. /\ req.from \in ClientEntries /\ req.to \in ClientEntries /\ req.ino \in Inodes
      /\ TypeOK
  BY DEF Inv, TypeOK, SourceInv, Settled, ClientEntries
<1>2. visible[req.from] = req.ino /\ visible[req.to] = req.was
  BY <1>1, SeenAt
<1>3. visible' = [visible EXCEPT ![req.from] = NoInode, ![req.to] = req.ino]
  <2>1. visible' = [e \in ClientEntries |-> index'[e]]
    BY DEF Settled, visible
  <2>2. \A e \in ClientEntries :
          index'[e] = IF e = req.from THEN NoInode ELSE IF e = req.to THEN req.ino ELSE index[e]
    BY <1>1 DEF TypeOK, ClientEntries
  <2> QED
    BY <1>1, <2>1, <2>2, SeenAt
<1>4. req.was = NoInode \/ Atomic!Expendable(req.was)
  <2>1. ASSUME req.was # NoInode, NEW f \in ClientEntries, f[1] = req.was
        PROVE  visible[f] = NoInode
    <3>1. index[f] = NoInode /\ f \in Entries
      BY <2>1 DEF IsEmptyDir, ClientEntries
    <3>2. f # req.from /\ f # req.to
      BY <3>1, <1>1, NamespaceAssumption DEF Records
    <3> QED
      BY <3>1, <3>2, SeenAt
  <2> QED
    BY <2>1 DEF Atomic!Expendable, Atomic!Holds
<1>5. Atomic!Move(req.from, req.to)
  BY <1>1, <1>2, <1>3, <1>4 DEF Atomic!Move
<1> QED
  BY <1>1, <1>5 DEF Atomic!Change

\* An operation of one call is a step of its own, or none.
LEMMA ShortStep ==
    ASSUME SingleFault, NamesInv, crashes = 0, NEW e \in Entries, NEW i \in Inodes,
           Create(e, i) \/ Symlink(e, i) \/ Link(i, e) \/ Unlink(e)
    PROVE  Atomic!Change \/ UNCHANGED visible
<1>1. /\ pc = "idle" /\ pc' = "idle" /\ Settled /\ Settled' /\ TypeOK
  BY ShortOps, OneCallQuiet DEF NamesInv, Settled, Inv
<1>2. visible = [x \in ClientEntries |-> index[x]] /\ visible' = [x \in ClientEntries |-> index'[x]]
  BY <1>1 DEF Settled, visible
<1>3. CASE UNCHANGED index
  BY <1>2, <1>3
<1>4. CASE ~IsTemp(e) /\ LinkOk(e, i)
  <2>1. e \in ClientEntries /\ index[e] = NoInode /\ index' = [index EXCEPT ![e] = i]
    BY <1>4 DEF ClientEntries, LinkOk, CanLink
  <2>2. visible' = [visible EXCEPT ![e] = i]
    BY <1>1, <1>2, <2>1 DEF TypeOK, ClientEntries
  <2>3. Atomic!Bind(e, i)
    BY <1>2, <2>1, <2>2 DEF Atomic!Bind
  <2> QED
    BY <2>1, <2>3 DEF Atomic!Change
<1>5. CASE UnlinkOk(e)
  <2>1. CanUnlink(index, e) /\ index[e] \in Inodes /\ index' = [index EXCEPT ![e] = NoInode]
    BY <1>5 DEF UnlinkOk, CanUnlink
  <2>2. CASE IsTemp(e)
    BY <1>1, <1>2, <2>1, <2>2 DEF TypeOK, ClientEntries
  <2>3. CASE ~IsTemp(e)
    <3>1. e \in ClientEntries
      BY <2>3 DEF ClientEntries
    <3>2. visible' = [visible EXCEPT ![e] = NoInode]
      BY <1>1, <1>2, <2>1, <3>1 DEF TypeOK, ClientEntries
    <3>3. ASSUME NEW f \in ClientEntries, f[1] = index[e] PROVE index[f] = NoInode
      <4>1. f \in Entries /\ f[1] \in AllDirs
        BY <3>3 DEF ClientEntries, Entries
      <4>2. index[e] \in Dirs
        BY <2>1, <3>3, <4>1, NamespaceAssumption DEF AllDirs, Inodes
      <4>3. ~\E g \in Entries : g # e /\ index[g] = index[e]
        BY <1>1, <4>2 DEF NamesInv, OneNameInv, Twins, TargetPath
      <4>4. IsEmptyDir(index, index[e])
        BY <2>1, <4>3 DEF CanUnlink
      <4> QED
        BY <3>3, <4>1, <4>4 DEF IsEmptyDir
    <3>4. Atomic!Expendable(visible[e])
      BY <1>2, <2>1, <3>1, <3>3 DEF Atomic!Expendable, Atomic!Holds
    <3>5. Atomic!Unbind(e)
      BY <3>2, <3>4 DEF Atomic!Unbind
    <3> QED
      BY <3>1, <3>5 DEF Atomic!Change
  <2> QED
    BY <2>2, <2>3
<1> QED
  BY <1>3, <1>4, <1>5
  DEF Create, Symlink, Link, Unlink, LinkFails, UnlinkFails, SingleFault

\* A call of a rename is a move, or the client sees nothing of it.
LEMMA CallStep ==
    ASSUME SingleFault, NamesInv, NamesInv', RenameStep
    PROVE  Atomic!Change \/ UNCHANGED visible
<1> /\ req.from \in Entries /\ req.to \in Entries /\ req.tmp \in Entries
    /\ TypeOK /\ Inv /\ RestoreInv
  BY DEF NamesInv, Inv, TypeOK
<1>1. ~Settled =>
        /\ index[req.from] = req.ino /\ req.ino \in Inodes /\ req.ino # NoInode
        /\ res = "err"
  BY NamespaceAssumption DEF Settled, Inv, TypeOK, SourceInv, Records
<1>2. (~Settled /\ Settled' /\ req' = req /\ res' = "err")
        => index'[req.from] = req.ino /\ index'[req.to] = req.was
  <2> SUFFICES ASSUME ~Settled, Settled', req' = req, res' = "err"
               PROVE  index'[req.from] = req.ino /\ index'[req.to] = req.was
    OBVIOUS
  <2>1. CASE pc' = "idle"
    BY <1>1, <2>1 DEF NamesInv, RestoreInv, FailedRenameRestores
  <2>2. CASE pc' = "drop_tmp"
    BY <2>2 DEF NamesInv, RestoreInv, Inv, SourceInv, TargetInv, TargetPath
  <2> QED
    BY <2>1, <2>2 DEF Settled
<1>3. CASE LinkNew
  <2>1. /\ ~Settled /\ req' = req /\ (Settled' => res' = "err")
        /\ UNCHANGED index \/ index' = [index EXCEPT ![req.to] = req.ino]
    BY <1>3, LinkEffect DEF LinkNew, Settled
  <2> QED
    BY <1>2, <2>1, InnerCall, EndUnchanged
<1>4. CASE UnlinkOld \/ DropSrc
  <2>1. /\ pc \in {"unlink_old", "drop_src"} /\ ~Settled /\ req' = req
        /\ \/ Settled' /\ index' = [index EXCEPT ![req.from] = NoInode]
           \/ ~Settled' /\ UNCHANGED index
    <3>1. CASE UnlinkOld
      BY <3>1, UnlinkEffect DEF UnlinkOld, Settled
    <3>2. CASE DropSrc
      BY <3>2, UnlinkEffect DEF DropSrc, Settled
    <3> QED
      BY <1>4, <3>1, <3>2
  <2>2. /\ index[req.from] = req.ino /\ index[req.to] = req.ino /\ req.from # req.to
    BY <1>1, <2>1 DEF Inv, FreeInv, TargetInv, FreePath, TargetPath
  <2>3. CASE pc = "unlink_old"
    <3>1. req.was = NoInode /\ req.was # req.ino
      BY <1>1, <2>1, <2>3 DEF RestoreInv
    <3> QED
      BY <2>1, <2>2, <3>1, MoveDone, InnerCall
  <2>4. CASE pc = "drop_src"
    <3>1. /\ req.was = req.xino /\ req.was # req.ino /\ req.was \in Inodes
          /\ IsEmptyDir(index, req.was)
      BY <2>4 DEF RestoreInv, NamesInv, ReplaceInv, Inv, TargetInv, TargetPath
    <3> QED
      BY <2>1, <2>2, <3>1, MoveDone, InnerCall
  <2> QED
    BY <2>1, <2>3, <2>4
<1>5. CASE UndoNew
  <2>1. /\ ~Settled /\ Settled' /\ req' = req /\ res' = "err"
        /\ UNCHANGED index \/ index' = [index EXCEPT ![req.to] = NoInode]
    BY <1>5, UnlinkEffect DEF UndoNew, Settled
  <2> QED
    BY <1>2, <2>1, EndUnchanged
<1>6. CASE LinkTmp
  <2>1. /\ ~Settled /\ req' = req /\ (Settled' => res' = "err") /\ pc = "link_tmp"
        /\ UNCHANGED index \/ index' = [index EXCEPT ![req.tmp] = req.xino]
    BY <1>6, LinkEffect DEF LinkTmp, Settled
  <2>2. IsTemp(req.tmp)
    BY <2>1 DEF Inv, TargetInv, TargetPath
  <2> QED
    BY <1>2, <2>1, <2>2, InnerCall, EndUnchanged
<1>7. CASE DropTarget \/ UndoSrc
  <2>1. /\ ~Settled /\ req' = req /\ (Settled' => res' = "err")
        /\ UNCHANGED index \/ index' = [index EXCEPT ![req.to] = NoInode]
    <3>1. CASE DropTarget
      BY <3>1, UnlinkEffect DEF DropTarget, Settled
    <3>2. CASE UndoSrc
      BY <3>2, UnlinkEffect DEF UndoSrc, Settled
    <3> QED
      BY <1>7, <3>1, <3>2
  <2> QED
    BY <1>2, <2>1, InnerCall, EndUnchanged
<1>8. CASE LinkSrc \/ Restore
  <2>1. /\ ~Settled /\ req' = req /\ (Settled' => res' = "err")
        /\ UNCHANGED index \/ \E y : index' = [index EXCEPT ![req.to] = y]
    <3>1. CASE LinkSrc
      BY <3>1, LinkEffect DEF LinkSrc, Settled
    <3>2. CASE Restore
      BY <3>2, LinkEffect DEF Restore, Settled
    <3> QED
      BY <1>8, <3>1, <3>2
  <2> QED
    BY <1>2, <2>1, InnerCall, EndUnchanged
<1>9. CASE DropTmp
  <2>1. /\ pc = "drop_tmp" /\ pc' = "idle"
        /\ UNCHANGED index \/ index' = [index EXCEPT ![req.tmp] = NoInode]
    BY <1>9, UnlinkEffect DEF DropTmp
  <2>2. IsTemp(req.tmp)
    BY <2>1 DEF Inv, TargetInv, TargetPath
  <2>3. \A e \in ClientEntries : index'[e] = index[e]
    BY <2>1, <2>2 DEF ClientEntries, TypeOK
  <2> QED
    BY <2>1, <2>3 DEF visible
<1> QED
  BY <1>3, <1>4, <1>5, <1>6, <1>7, <1>8, <1>9 DEF RenameStep

\* Every step of the namespace is one of the atomic namespace, or none.
LEMMA AtomicStep ==
    ASSUME SingleFault, NamesInv, NamesInv', [Next]_vars
    PROVE  [Atomic!Next]_<<visible, crashes = 0>>
<1>1. crashes \in Nat
  BY NamespaceAssumption DEF NamesInv, Inv, TypeOK
<1>2. CASE Crash
  BY <1>1, <1>2 DEF Crash, Atomic!Next
<1>3. CASE UNCHANGED vars
  BY <1>3 DEF vars, visible
<1>4. ASSUME ~Crash, Next PROVE UNCHANGED crashes
  BY <1>4
  DEF Next, Create, Symlink, Link, Unlink, OneCall, RenameStart, RenameRefused,
      RenameSameInode, RenameToFree, RenameOver, RenameBegins, RenameStep, LinkNew,
      UnlinkOld, UndoNew, LinkTmp, DropTarget, LinkSrc, DropSrc, UndoSrc, Restore,
      DropTmp, DoLink, DoUnlink, Goto
<1>5. ASSUME ~Crash, Next, crashes = 0 PROVE Atomic!Change \/ UNCHANGED visible
  <2>1. ASSUME NEW e \in Entries, NEW i \in Inodes, Create(e, i) \/ Symlink(e, i) \/ Link(i, e)
        PROVE  Atomic!Change \/ UNCHANGED visible
    BY <1>5, <2>1, ShortStep
  <2>2. ASSUME NEW e \in Entries, Unlink(e) PROVE Atomic!Change \/ UNCHANGED visible
    <3>1. CASE Inodes = {}
      <4>1. UNCHANGED index /\ pc = "idle" /\ pc' = "idle"
        BY <2>2, <3>1 DEF Unlink, OneCall, UnlinkOk, UnlinkFails, CanUnlink
      <4> QED
        BY <4>1 DEF visible
    <3> QED
      BY <1>5, <2>2, <3>1, ShortStep
  <2>3. ASSUME NEW from \in Entries, NEW to \in Entries, RenameStart(from, to)
        PROVE  UNCHANGED visible
    <3>1. CASE RenameRefused(from, to) \/ RenameSameInode(from, to)
      BY <3>1 DEF RenameRefused, RenameSameInode, OneCall, visible
    <3> QED
      BY <2>3, <3>1, BeginUnseen DEF RenameStart, NamesInv
  <2>4. CASE RenameStep
    BY <2>4, CallStep
  <2> QED
    BY <1>5, <2>1, <2>2, <2>3, <2>4 DEF Next
<1>6. ASSUME ~Crash, Next, crashes = 0 PROVE [Atomic!Next]_<<visible, crashes = 0>>
  BY <1>4, <1>5, <1>6 DEF Atomic!Next
<1>7. ASSUME ~Crash, Next, crashes # 0 PROVE Atomic!Next
  BY <1>4, <1>7 DEF Atomic!Next
<1> QED
  BY <1>2, <1>3, <1>6, <1>7

\* For every volume, and until the process dies, the names a client sees change
\* as if every create, link, unlink and rename, with its up to five calls and
\* its rollbacks, were one step, and none takes a directory that holds entries
\* or a system file.
THEOREM RenamesAtomic == ASSUME SingleFault PROVE Spec => AtomicSpec
<1>1. Init => Atomic!Init
  BY DEF Init, Atomic!Init, visible, ClientEntries
<1> QED
  BY <1>1, AtomicStep, NamesAlways, PTL DEF Spec, AtomicSpec, Atomic!Spec

============================================================================
