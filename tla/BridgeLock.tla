----------------------------- MODULE BridgeLock -----------------------------
(***************************************************************************)
(* The two locks of an NTFS volume and the threads FSKit dispatches to it.   *)
(*                                                                         *)
(* Every public function of the bridge runs between nfsk_lock and            *)
(* nfsk_unlock, a recursive mutex (bridge/ntfs_fskit.c): libntfs-3g is not    *)
(* safe for threads.  nfsk_truncate and the rescue branch of nfsk_open_ex     *)
(* call a public function from inside.  The item cache has an NSLock of its   *)
(* own (NTFSVolume.swift), which lookups take after the bridge call.          *)
(***************************************************************************)
EXTENDS Naturals

CONSTANTS
    Threads,
    NoThread,
    MaxDepth        \* bound: how often one thread may hold the lock when it calls

ASSUME LockAssumption ==
    /\ NoThread \notin Threads
    /\ MaxDepth \in Nat

VARIABLES
    owner,      \* the thread that holds g_nfsk_mu
    depth,      \* how many times it does
    itemOwner,  \* the thread that holds itemCacheLock
    pc,         \* what each thread does next
    op,         \* the operation it runs
    left        \* for the properties: how many locks it returned without
                \* giving back

vars == <<owner, depth, itemOwner, pc, op, left>>

(***************************************************************************)
(* The operations, by what they do to the locks:                            *)
(*   simple   most wrappers: lock, body, unlock                              *)
(*   nested   nfsk_truncate; nfsk_open_ex that removes hiberfil.sys          *)
(*   open     nfsk_open_ex                                                   *)
(*   lookup   a wrapper, then item(forMFT:) (lookup, create, symlink)        *)
(***************************************************************************)
Ops   == {"simple", "nested", "open", "lookup"}
Steps == {"idle", "lock", "body", "relock", "inner", "leave", "item", "initem"}

Call(t, o) ==
    /\ pc[t] = "idle" /\ depth <= MaxDepth
    /\ pc' = [pc EXCEPT ![t] = "lock"] /\ op' = [op EXCEPT ![t] = o]
    /\ UNCHANGED <<owner, depth, itemOwner, left>>

\* nfsk_lock without the mutex.
LockIgnored(t) ==
    /\ owner' = t /\ depth' = depth + 1

\* pthread_mutex_lock of a mutex that is not recursive.
LockPlain(t) ==
    /\ owner = NoThread
    /\ owner' = t /\ depth' = depth + 1

\* nfsk_lock.
Lock(t) ==
    /\ owner \in {NoThread, t}
    /\ owner' = t /\ depth' = depth + 1

\* nfsk_unlock of a mutex that gives its owner up at once.
UnlockAtOnce(t) ==
    /\ owner = t
    /\ depth' = depth - 1 /\ owner' = NoThread

\* nfsk_unlock.
Unlock(t) ==
    /\ owner = t
    /\ depth' = depth - 1
    /\ owner' = IF depth = 1 THEN NoThread ELSE t

Enter(t) ==
    /\ pc[t] = "lock" /\ Lock(t)
    /\ pc' = [pc EXCEPT ![t] = "body"]
    /\ UNCHANGED <<itemOwner, op, left>>

\* The work inside libntfs-3g.
Body(t) ==
    /\ pc[t] = "body"
    /\ pc' = [pc EXCEPT ![t] = IF op[t] = "nested" THEN "relock" ELSE "leave"]
    /\ UNCHANGED <<owner, depth, itemOwner, op, left>>

\* nfsk_open_ex returns NULL after a failed allocation, the lock in its hands.
OpenFails(t) ==
    /\ pc[t] = "body" /\ op[t] = "open"
    /\ pc' = [pc EXCEPT ![t] = "idle"]
    /\ left' = [left EXCEPT ![t] = @ + 1]
    /\ UNCHANGED <<owner, depth, itemOwner, op>>

\* The public function called from inside: nfsk_setattr, nfsk_unlink.
EnterInner(t) ==
    /\ pc[t] = "relock" /\ Lock(t)
    /\ pc' = [pc EXCEPT ![t] = "inner"]
    /\ UNCHANGED <<itemOwner, op, left>>

\* LeaveInner on a return path that forgot its unlock.
LeaveInnerLocked(t) ==
    /\ pc[t] = "inner"
    /\ pc' = [pc EXCEPT ![t] = "leave"]
    /\ UNCHANGED <<owner, depth, itemOwner, op, left>>

LeaveInner(t) ==
    /\ pc[t] = "inner" /\ Unlock(t)
    /\ pc' = [pc EXCEPT ![t] = "leave"]
    /\ UNCHANGED <<itemOwner, op, left>>

Leave(t) ==
    /\ pc[t] = "leave" /\ Unlock(t)
    /\ pc' = [pc EXCEPT ![t] = IF op[t] = "lookup" THEN "item" ELSE "idle"]
    /\ UNCHANGED <<itemOwner, op, left>>

\* item(forMFT:parent:).
TakeItem(t) ==
    /\ pc[t] = "item" /\ itemOwner = NoThread
    /\ itemOwner' = t
    /\ pc' = [pc EXCEPT ![t] = "initem"]
    /\ UNCHANGED <<owner, depth, op, left>>

DropItem(t) ==
    /\ pc[t] = "initem" /\ itemOwner' = NoThread
    /\ pc' = [pc EXCEPT ![t] = "idle"]
    /\ UNCHANGED <<owner, depth, op, left>>

Init ==
    /\ owner = NoThread /\ depth = 0 /\ itemOwner = NoThread
    /\ pc = [t \in Threads |-> "idle"]
    /\ op = [t \in Threads |-> "simple"]
    /\ left = [t \in Threads |-> 0]

Inside(t) == Body(t) \/ OpenFails(t) \/ EnterInner(t) \/ LeaveInner(t) \/ Leave(t)

ItemStep(t) == TakeItem(t) \/ DropItem(t)

Next ==
    \E t \in Threads :
        \/ \E o \in Ops : Call(t, o)
        \/ Enter(t) \/ Inside(t) \/ ItemStep(t)

\* A thread that runs goes on.  Neither mutex is fair, so nothing is assumed of
\* which of the waiting threads gets it, only that a free one is taken.
SomeEnters == \E t \in Threads : Enter(t)

Fairness ==
    /\ \A t \in Threads : WF_vars(Inside(t)) /\ WF_vars(DropItem(t))
    /\ WF_vars(SomeEnters)

Spec == Init /\ [][Next]_vars /\ Fairness

(***************************************************************************)
(* Properties.                                                              *)
(***************************************************************************)
\* The mutex has an owner exactly while it is locked.
TypeOK ==
    /\ owner \in Threads \cup {NoThread}
    /\ depth \in Nat /\ (owner = NoThread <=> depth = 0)
    /\ itemOwner \in Threads \cup {NoThread}
    /\ pc \in [Threads -> Steps]
    /\ op \in [Threads -> Ops]
    /\ left \in [Threads -> Nat]

InBridge == {"body", "relock", "inner", "leave"}

\* All public operations are serialised: two threads are never inside
\* libntfs-3g together, also when one of them has left an inner call, or an
\* nfsk_open_ex with the lock in its hands.
MutualExclusion ==
    \A t, u \in Threads : (pc[t] \in InBridge /\ pc[u] \in InBridge) => t = u

\* A thread that has returned from the bridge holds nothing, except what a
\* failed nfsk_open_ex left.
NothingHeldOutside ==
    \A t \in Threads : (pc[t] \notin InBridge /\ left[t] = 0) => owner # t

\* A thread that takes the bridge lock gives it back, nested calls included,
\* unless it has left a failed nfsk_open_ex.
LockIsReleased ==
    \A t \in Threads : (owner = t) ~> (owner # t \/ left[t] > 0)

\* While some thread waits for the bridge, a thread gets in again and again:
\* the operations of the volume never come to a stop.
BridgeGoesOn ==
    \A t \in Threads : (pc[t] = "lock") ~> (\E u \in Threads : pc[u] = "body")

\* BridgeGoesOn as long as no nfsk_open_ex has failed for want of memory.
GoesOnUntilLeft ==
    \A t \in Threads :
        (pc[t] = "lock") ~> (\E u \in Threads : pc[u] = "body" \/ left[u] > 0)

============================================================================
