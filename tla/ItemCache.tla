------------------------------- MODULE ItemCache -------------------------------
(***************************************************************************)
(* The items NTFSVolume hands to FSKit, on top of the locks of BridgeLock.     *)
(*                                                                         *)
(* FSKit knows a file by the object it was given for it: two objects for one    *)
(* file and a rename is given up (NTFSVolume.swift).  A lookup or a creation   *)
(* gets a record number from the bridge, gives the bridge lock back, and only   *)
(* then asks the cache for the record's item, under the lock of the cache.      *)
(* Meanwhile other threads look up, create, move and remove files.  Items are   *)
(* never taken out: reclaimItem does nothing, and the number of a removed      *)
(* file is given to another.                                                 *)
(***************************************************************************)
EXTENDS BridgeLock

CONSTANTS
    Records,    \* MFT record numbers of files
    Dirs,       \* directories
    Nil         \* no directory, no record, no item

ASSUME ItemCacheAssumption ==
    /\ Records # {} /\ Dirs # {}
    /\ Nil \notin Records \cup Dirs \cup [id : Nat, dir : Dirs]

VARIABLES
    homes,      \* the directories a record's file has a name in, none if it is free
    found,      \* the record and the directory a thread has from the bridge
    hit,        \* what it has found in the cache
    cache,      \* itemCache: the item of each record
    made,       \* items made so far; each item has its number as identity
    given,      \* for the properties: the items handed out for each record
    moved       \* for the properties: records whose file lost a name

itemVars == <<homes, found, hit, cache, made, given, moved>>
allVars == <<vars, itemVars>>

NoFind == [rec |-> Nil, dir |-> Nil]

(***************************************************************************)
(* What the operations of the bridge do to files.                           *)
(***************************************************************************)
\* nfsk_lookup of a file that is there, or nfsk_create.
Find(t) ==
    /\ \E r \in Records, d \in Dirs :
          /\ d \in homes[r] \/ homes[r] = {}
          /\ homes' = [homes EXCEPT ![r] = @ \cup {d}]
          /\ found' = [found EXCEPT ![t] = [rec |-> r, dir |-> d]]
    /\ UNCHANGED <<hit, cache, made, given, moved>>

\* nfsk_link.
Link ==
    /\ \E r \in Records, d \in Dirs :
          homes[r] # {} /\ homes' = [homes EXCEPT ![r] = @ \cup {d}]
    /\ UNCHANGED <<found, hit, cache, made, given, moved>>

\* nfsk_unlink, or nfsk_rename to another directory.
Move ==
    /\ \E r \in Records : \E d \in homes[r], e \in SUBSET Dirs :
          /\ d \notin e /\ \A x, y \in e : x = y
          /\ homes' = [homes EXCEPT ![r] = (@ \ {d}) \cup e]
          /\ moved' = moved \cup {r}
    /\ UNCHANGED <<found, hit, cache, made, given>>

FileBody(t) ==
    /\ Body(t)
    /\ \/ op[t] = "lookup" /\ Find(t)
       \/ op[t] = "simple" /\ (Link \/ Move)
       \/ op[t] # "lookup" /\ UNCHANGED itemVars

(***************************************************************************)
(* item(forMFT:parent:).                                                    *)
(***************************************************************************)
\* CheckCache that does not wait for the lock.
CheckCacheUnlocked(t) ==
    /\ pc[t] = "item" /\ itemOwner' = t
    /\ pc' = [pc EXCEPT ![t] = "initem"]
    /\ hit' = [hit EXCEPT ![t] = cache[found[t].rec]]
    /\ UNCHANGED <<owner, depth, op, left, homes, found, cache, made, given, moved>>

CheckCache(t) ==
    /\ TakeItem(t)
    /\ hit' = [hit EXCEPT ![t] = cache[found[t].rec]]
    /\ UNCHANGED <<homes, found, cache, made, given, moved>>

\* The item in the cache, or a new one that is put there.
Hand(t, item) ==
    /\ given' = [given EXCEPT ![found[t].rec] = @ \cup {item.id}]
    /\ found' = [found EXCEPT ![t] = NoFind] /\ hit' = [hit EXCEPT ![t] = Nil]
    /\ UNCHANGED <<homes, moved>>

\* GiveItem whose new items name the root as their directory, the default.
GiveItemOfRoot(t) ==
    /\ DropItem(t)
    /\ \/ hit[t] # Nil /\ Hand(t, hit[t]) /\ UNCHANGED <<cache, made>>
       \/ /\ hit[t] = Nil /\ made' = made + 1
          /\ \E item \in {[id |-> made', dir |-> CHOOSE d \in Dirs : TRUE]} :
                cache' = [cache EXCEPT ![found[t].rec] = item] /\ Hand(t, item)

GiveItem(t) ==
    /\ DropItem(t)
    /\ \/ hit[t] # Nil /\ Hand(t, hit[t]) /\ UNCHANGED <<cache, made>>
       \/ /\ hit[t] = Nil /\ made' = made + 1
          /\ \E item \in {[id |-> made', dir |-> found[t].dir]} :
                cache' = [cache EXCEPT ![found[t].rec] = item] /\ Hand(t, item)

ItemInit ==
    /\ Init
    /\ homes = [r \in Records |-> {}]
    /\ found = [t \in Threads |-> NoFind] /\ hit = [t \in Threads |-> Nil]
    /\ cache = [r \in Records |-> Nil] /\ made = 0
    /\ given = [r \in Records |-> {}] /\ moved = {}

LockStep(t) ==
    /\ \E o \in Ops : Call(t, o)
       \/ Enter(t) \/ OpenFails(t) \/ EnterInner(t) \/ LeaveInner(t) \/ Leave(t)
    /\ UNCHANGED itemVars

ItemNext ==
    \E t \in Threads : LockStep(t) \/ FileBody(t) \/ CheckCache(t) \/ GiveItem(t)

\* The threads are those of BridgeLock, and go on as they do there.
ItemSpec == ItemInit /\ [][ItemNext]_allVars /\ Fairness

(***************************************************************************)
(* Properties.                                                              *)
(***************************************************************************)
\* A record has one item as long as the volume lives, whichever threads look it
\* up or create it at the same time: item(forMFT:) looks and inserts in one go.
OneItem == \A r \in Records : \A i, j \in given[r] : i = j

\* The directory an item names is one its file has a name in, until a name of it was
\* moved or removed; after that nothing mends it, for the number's next file either.
ItemsDirectory ==
    \A r \in Records \ moved : cache[r] # Nil => cache[r].dir \in homes[r]

==============================================================================
