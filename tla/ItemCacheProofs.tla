--------------------------- MODULE ItemCacheProofs ---------------------------
(***************************************************************************)
(* For any number of threads, records and directories: the bridge lock         *)
(* serialises the public operations, and only a failed nfsk_open_ex does not    *)
(* give it back; a record has one item, and an item names a directory its file  *)
(* is in; and the threads with their items run as those of BridgeLock do, so    *)
(* that what is proved of the locks holds with the items on top.              *)
(***************************************************************************)
EXTENDS ItemCache, TLAPS

(***************************************************************************)
(* The locks, without the items.                                            *)
(***************************************************************************)
\* A thread inside is the owner.  The owner has locked once, or twice while it
\* runs an inner call, and as often as it has left a failed nfsk_open_ex; no
\* other thread has left one.
OwnerInv ==
    /\ \A t \in Threads : pc[t] \in InBridge => owner = t
    /\ \A t \in Threads : owner # t => left[t] = 0
    /\ \A t \in Threads : owner = t =>
           depth = left[t] + (IF pc[t] = "inner" THEN 2
                              ELSE IF pc[t] \in InBridge THEN 1 ELSE 0)

LockInv == TypeOK /\ OwnerInv

LEMMA LockInit == Init => LockInv
BY LockAssumption DEF Init, LockInv, TypeOK, OwnerInv, InBridge, Steps, Ops

LEMMA LockStepInv == ASSUME LockInv, [Next]_vars PROVE LockInv'
<1> USE LockAssumption DEF LockInv, TypeOK, OwnerInv, InBridge, Steps, Ops
<1>1. ASSUME NEW t \in Threads, NEW o \in Ops, Call(t, o) PROVE LockInv'
  BY <1>1 DEF Call
<1>2. ASSUME NEW t \in Threads, Enter(t) PROVE LockInv'
  <2>1. owner' = t /\ depth' = left[t] + 1
    BY <1>2 DEF Enter, Lock
  <2> QED
    BY <1>2, <2>1 DEF Enter, Lock
<1>3. ASSUME NEW t \in Threads, Body(t) PROVE LockInv'
  BY <1>3 DEF Body
<1>4. ASSUME NEW t \in Threads, OpenFails(t) PROVE LockInv'
  BY <1>4 DEF OpenFails
<1>5. ASSUME NEW t \in Threads, EnterInner(t) PROVE LockInv'
  <2>1. owner = t /\ depth = left[t] + 1
    BY <1>5 DEF EnterInner
  <2> QED
    BY <1>5, <2>1 DEF EnterInner, Lock
<1>6. ASSUME NEW t \in Threads, LeaveInner(t) PROVE LockInv'
  <2>1. owner = t /\ depth = left[t] + 2
    BY <1>6 DEF LeaveInner
  <2> QED
    BY <1>6, <2>1 DEF LeaveInner, Unlock
<1>7. ASSUME NEW t \in Threads, Leave(t) PROVE LockInv'
  <2>1. owner = t /\ depth = left[t] + 1
    BY <1>7 DEF Leave
  <2>2. depth' = left[t] /\ owner' = IF left[t] = 0 THEN NoThread ELSE t
    BY <1>7, <2>1 DEF Leave, Unlock
  <2> QED
    BY <1>7, <2>1, <2>2 DEF Leave
<1>8. ASSUME NEW t \in Threads, ItemStep(t) PROVE LockInv'
  BY <1>8 DEF ItemStep, TakeItem, DropItem
<1>9. CASE UNCHANGED vars
  BY <1>9 DEF vars
<1> QED
  BY <1>1, <1>2, <1>3, <1>4, <1>5, <1>6, <1>7, <1>8, <1>9 DEF Next, Inside

\* The mutex has an owner exactly while some thread's locks are outstanding.
THEOREM LockTypes == Spec => []TypeOK
<1>1. LockInv => TypeOK
  BY DEF LockInv
<1> QED
  BY <1>1, LockInit, LockStepInv, PTL DEF Spec

\* No two threads are inside libntfs-3g together.
THEOREM Serialised == Spec => []MutualExclusion
<1>1. LockInv => MutualExclusion
  BY LockAssumption DEF LockInv, TypeOK, OwnerInv, MutualExclusion
<1> QED
  BY <1>1, LockInit, LockStepInv, PTL DEF Spec

\* A thread outside the bridge does not hold its lock, unless it has left a
\* failed nfsk_open_ex.
THEOREM Returned == Spec => []NothingHeldOutside
<1>1. LockInv => NothingHeldOutside
  BY LockAssumption DEF LockInv, TypeOK, OwnerInv, InBridge, NothingHeldOutside
<1> QED
  BY <1>1, LockInit, LockStepInv, PTL DEF Spec

(***************************************************************************)
(* The items.                                                               *)
(***************************************************************************)
Items == [id : Nat, dir : Dirs]

HasFind(t) == pc[t] \in {"item", "initem"} \/ (pc[t] = "leave" /\ op[t] = "lookup")

ItemTyped ==
    /\ pc \in [Threads -> Steps] /\ op \in [Threads -> Ops]
    /\ found \in [Threads -> [rec : Records \cup {Nil}, dir : Dirs \cup {Nil}]]
    /\ hit \in [Threads -> Items \cup {Nil}]
    /\ cache \in [Records -> Items \cup {Nil}]
    /\ made \in Nat /\ given \in [Records -> SUBSET Nat]

\* A thread that asks the cache has a record to ask for.
FindInv == \A t \in Threads : HasFind(t) =>
    found[t].rec \in Records /\ found[t].dir \in Dirs

NestedInv == \A t \in Threads : pc[t] \in {"relock", "inner"} => op[t] = "nested"

\* What a thread has read in the cache is still there when it inserts.
HitInv == \A t \in Threads : pc[t] = "initem" =>
    itemOwner = t /\ hit[t] = cache[found[t].rec]

\* Only the item in the cache has been given out.
GivenInv == \A r \in Records :
    \A i \in given[r] : cache[r] # Nil /\ i = cache[r].id

ItemInv == ItemTyped /\ NestedInv /\ FindInv /\ HitInv /\ GivenInv

\* Nothing is cached, nothing is given out.
LEMMA ItemInitInv == ItemInit => ItemInv
BY DEF ItemInit, Init, ItemInv, ItemTyped, NestedInv, FindInv, HitInv, GivenInv, HasFind, NoFind, Items,
       Steps, Ops

(***************************************************************************)
(* Steps.                                                                   *)
(***************************************************************************)
LEMMA LockStepKeeps ==
    ASSUME ItemInv, NEW t \in Threads, LockStep(t)
    PROVE  ItemInv'
<1> USE DEF ItemInv, ItemTyped, NestedInv, FindInv, HitInv, GivenInv, HasFind, Steps, Ops
<1>1. UNCHANGED <<found, hit, cache, made, given, itemOwner>>
  BY DEF LockStep, itemVars, Call, Enter, OpenFails, EnterInner, LeaveInner, Leave
<1>2. ASSUME NEW o \in Ops, Call(t, o) PROVE ItemInv'
  BY <1>1, <1>2 DEF Call
<1>3. CASE Enter(t)
  BY <1>1, <1>3 DEF Enter
<1>4. CASE OpenFails(t)
  BY <1>1, <1>4 DEF OpenFails
<1>5. CASE EnterInner(t)
  BY <1>1, <1>5 DEF EnterInner
<1>6. CASE LeaveInner(t)
  BY <1>1, <1>6 DEF LeaveInner
<1>7. CASE Leave(t)
  BY <1>1, <1>7 DEF Leave
<1>8. QED
  BY <1>2, <1>3, <1>4, <1>5, <1>6, <1>7 DEF LockStep

\* A lookup leaves the body with what it found.
LEMMA FileBodyKeeps ==
    ASSUME ItemInv, NEW t \in Threads, FileBody(t)
    PROVE  ItemInv'
<1> USE DEF ItemInv, ItemTyped, NestedInv, FindInv, HitInv, GivenInv, HasFind, Steps, Ops
<1>1. Body(t) /\ UNCHANGED <<hit, cache, made, given, itemOwner, op>>
  BY DEF FileBody, Find, Link, Move, itemVars, Body
<1>2. CASE op[t] = "lookup"
  <2>1. PICK r \in Records, d \in Dirs : found' = [found EXCEPT ![t] = [rec |-> r, dir |-> d]]
    BY <1>2 DEF FileBody, Find
  <2>2. QED
    BY <1>1, <1>2, <2>1 DEF Body
<1>3. CASE op[t] # "lookup"
  <2>1. UNCHANGED found
    BY <1>3 DEF FileBody, Link, Move, itemVars
  <2>2. QED
    BY <1>1, <1>3, <2>1 DEF Body
<1>4. QED
  BY <1>2, <1>3

LEMMA CheckCacheKeeps ==
    ASSUME ItemInv, NEW t \in Threads, CheckCache(t)
    PROVE  ItemInv'
<1> USE LockAssumption DEF ItemInv
<1>1. /\ pc[t] = "item" /\ itemOwner = NoThread /\ itemOwner' = t
      /\ pc' = [pc EXCEPT ![t] = "initem"] /\ hit' = [hit EXCEPT ![t] = cache[found[t].rec]]
      /\ UNCHANGED <<op, found, cache, made, given>>
  BY DEF CheckCache, TakeItem
<1>2. found[t].rec \in Records
  BY <1>1 DEF FindInv, HasFind
<1>3. ItemTyped'
  BY <1>1, <1>2 DEF ItemTyped, Steps
<1>4. NestedInv' /\ FindInv' /\ GivenInv'
  BY <1>1 DEF NestedInv, FindInv, HasFind, GivenInv, ItemTyped
<1>5. HitInv'
  BY <1>1 DEF HitInv, ItemTyped
<1>6. QED
  BY <1>3, <1>4, <1>5

\* The item handed out is the cache's, or becomes the cache's: no other thread can have
\* put one there since.
LEMMA GiveItemKeeps ==
    ASSUME ItemInv, NEW t \in Threads, GiveItem(t)
    PROVE  ItemInv'
<1> USE DEF ItemInv
<1>1. /\ pc[t] = "initem" /\ pc' = [pc EXCEPT ![t] = "idle"]
      /\ UNCHANGED op
      /\ \A u \in Threads : pc[u] = "initem" => u = t
      /\ hit[t] = cache[found[t].rec]
      /\ found[t].rec \in Records /\ found[t].dir \in Dirs
  BY DEF GiveItem, DropItem, HitInv, FindInv, HasFind
<1>2. PICK item \in Items :
         /\ Hand(t, item)
         /\ cache' = [cache EXCEPT ![found[t].rec] = item]
         /\ made' \in Nat
         /\ hit[t] # Nil => item = hit[t]
  <2>1. CASE hit[t] # Nil
    <3>1. hit[t] \in Items /\ Hand(t, hit[t]) /\ UNCHANGED <<cache, made>>
      BY <2>1 DEF GiveItem, ItemTyped
    <3>2. cache' = [cache EXCEPT ![found[t].rec] = hit[t]]
      BY <1>1, <3>1 DEF ItemTyped
    <3>3. QED
      BY <3>1, <3>2 DEF ItemTyped
  <2>2. CASE hit[t] = Nil
    <3> DEFINE new == [id |-> made', dir |-> found[t].dir]
    <3>1. made' = made + 1 /\ Hand(t, new)
          /\ cache' = [cache EXCEPT ![found[t].rec] = new]
      BY <2>2 DEF GiveItem
    <3>2. new \in Items /\ made' \in Nat
      BY <1>1, <3>1 DEF ItemTyped, Items
    <3>3. QED
      BY <2>2, <3>1, <3>2
  <2>3. QED
    BY <2>1, <2>2
<1>3. /\ given' = [given EXCEPT ![found[t].rec] = @ \cup {item.id}]
      /\ found' = [found EXCEPT ![t] = NoFind] /\ hit' = [hit EXCEPT ![t] = Nil]
  BY <1>2 DEF Hand
<1>4. item # Nil /\ item.id \in Nat
  BY <1>2, ItemCacheAssumption DEF Items
<1>5. ItemTyped'
  BY <1>1, <1>2, <1>3, <1>4 DEF ItemTyped, Steps, NoFind
<1>6. NestedInv' /\ FindInv'
  BY <1>1, <1>3 DEF NestedInv, FindInv, HasFind, ItemTyped
<1>7. HitInv'
  BY <1>1 DEF HitInv, ItemTyped
<1>8. GivenInv'
  <2> SUFFICES ASSUME NEW r \in Records, NEW i \in given'[r]
               PROVE  cache'[r] # Nil /\ i = cache'[r].id
    BY DEF GivenInv
  <2>1. CASE r # found[t].rec
    BY <1>1, <1>2, <1>3, <2>1 DEF GivenInv, ItemTyped
  <2>2. CASE r = found[t].rec
    <3>1. cache'[r] = item
      BY <1>1, <1>2, <2>2 DEF ItemTyped
    <3>2. i \in given[r] \/ i = item.id
      BY <1>1, <1>3, <2>2 DEF ItemTyped
    <3>3. i \in given[r] => i = item.id
      BY <1>1, <1>2, <2>2 DEF GivenInv
    <3>4. QED
      BY <1>4, <3>1, <3>2, <3>3
  <2>3. QED
    BY <2>1, <2>2
<1>9. QED
  BY <1>5, <1>6, <1>7, <1>8

LEMMA ItemStepInv == ItemInv /\ [ItemNext]_allVars => ItemInv'
<1>1. CASE UNCHANGED allVars
  BY <1>1 DEF allVars, vars, itemVars, ItemInv, ItemTyped, NestedInv, FindInv, HitInv,
     GivenInv, HasFind
<1>2. QED
  BY <1>1, LockStepKeeps, FileBodyKeeps, CheckCacheKeeps, GiveItemKeeps DEF ItemNext

(***************************************************************************)
(* The directories items name.                                              *)
(***************************************************************************)
HomesTyped == homes \in [Records -> SUBSET Dirs] /\ moved \subseteq Records

\* Between the bridge and the cache a lookup carries a directory that is a home of the
\* record, as long as the file has not lost a name.
FoundAtHome == \A t \in Threads :
    (found[t].rec \in Records \ moved) => found[t].dir \in homes[found[t].rec]

HomeInv == HomesTyped /\ FoundAtHome /\ ItemsDirectory

LEMMA HomeInit == ItemInit => HomeInv
BY ItemCacheAssumption DEF ItemInit, HomeInv, HomesTyped, FoundAtHome, ItemsDirectory, NoFind

\* Homes only go where the record is marked as moved.
LEMMA HomesKeep ==
    ASSUME ItemInv, HomeInv, HomesTyped', moved \subseteq moved', UNCHANGED cache,
           \A r \in Records \ moved' : homes[r] \subseteq homes'[r]
    PROVE  ItemsDirectory' /\ (UNCHANGED found => FoundAtHome')
BY DEF ItemInv, ItemTyped, HomeInv, HomesTyped, FoundAtHome, ItemsDirectory, Items

LEMMA FileBodyAtHome ==
    ASSUME ItemInv, HomeInv, NEW t \in Threads, FileBody(t)
    PROVE  HomeInv'
<1> USE DEF HomeInv
<1>1. CASE Find(t)
  <2>1. PICK r \in Records, d \in Dirs :
           /\ homes' = [homes EXCEPT ![r] = @ \cup {d}]
           /\ found' = [found EXCEPT ![t] = [rec |-> r, dir |-> d]]
           /\ UNCHANGED <<cache, moved>>
    BY <1>1 DEF Find
  <2>2. HomesTyped' /\ \A q \in Records : homes[q] \subseteq homes'[q]
    BY <2>1 DEF HomesTyped
  <2>3. FoundAtHome'
    BY <2>1, <2>2 DEF FoundAtHome, HomesTyped, ItemInv, ItemTyped
  <2>4. QED
    BY <2>1, <2>2, <2>3, HomesKeep
<1>2. CASE Link
  <2>1. PICK r \in Records, d \in Dirs :
           homes' = [homes EXCEPT ![r] = @ \cup {d}] /\ UNCHANGED <<found, cache, moved>>
    BY <1>2 DEF Link
  <2>2. HomesTyped' /\ \A q \in Records : homes[q] \subseteq homes'[q]
    BY <2>1 DEF HomesTyped
  <2>3. QED
    BY <2>1, <2>2, HomesKeep
<1>3. CASE Move
  <2>1. PICK r \in Records, d \in Dirs, e \in SUBSET Dirs :
           /\ homes' = [homes EXCEPT ![r] = (@ \ {d}) \cup e] /\ moved' = moved \cup {r}
           /\ UNCHANGED <<found, cache>>
    BY <1>3 DEF Move, HomesTyped
  <2>2. HomesTyped' /\ \A q \in Records \ moved' : homes[q] \subseteq homes'[q]
    BY <2>1 DEF HomesTyped
  <2>3. QED
    BY <2>1, <2>2, HomesKeep
<1>4. CASE UNCHANGED itemVars
  BY <1>4 DEF itemVars, HomesTyped, FoundAtHome, ItemsDirectory
<1>5. QED
  BY <1>1, <1>2, <1>3, <1>4 DEF FileBody

\* A new item takes the directory its thread has from the bridge, which is a home by
\* FoundAtHome.
LEMMA GiveItemAtHome ==
    ASSUME ItemInv, HomeInv, NEW t \in Threads, GiveItem(t)
    PROVE  HomeInv'
<1> USE DEF HomeInv
<1>1. /\ UNCHANGED <<homes, moved>> /\ found' = [found EXCEPT ![t] = NoFind]
      /\ found[t].rec \in Records
  BY DEF GiveItem, Hand, DropItem, ItemInv, FindInv, HasFind
<1>2. HomesTyped' /\ FoundAtHome'
  BY <1>1, ItemCacheAssumption DEF HomesTyped, FoundAtHome, NoFind, ItemInv, ItemTyped
<1>3. CASE hit[t] # Nil
  <2>1. UNCHANGED cache
    BY <1>3 DEF GiveItem
  <2>2. QED
    BY <1>1, <1>2, <2>1 DEF ItemsDirectory
<1>4. CASE hit[t] = Nil
  <2>1. cache' = [cache EXCEPT ![found[t].rec] = [id |-> made', dir |-> found[t].dir]]
    BY <1>4 DEF GiveItem
  <2>2. QED
    BY <1>1, <1>2, <2>1 DEF ItemsDirectory, FoundAtHome, ItemInv, ItemTyped
<1>5. QED
  BY <1>3, <1>4

LEMMA HomeStepInv == ItemInv /\ HomeInv /\ [ItemNext]_allVars => HomeInv'
<1> SUFFICES ASSUME ItemInv, HomeInv, [ItemNext]_allVars PROVE HomeInv'
  OBVIOUS
<1>1. ASSUME UNCHANGED <<homes, found, cache, moved>> PROVE HomeInv'
  BY <1>1 DEF HomeInv, HomesTyped, FoundAtHome, ItemsDirectory
<1>2. ASSUME NEW t \in Threads, LockStep(t) \/ CheckCache(t) PROVE HomeInv'
  BY <1>1, <1>2 DEF LockStep, CheckCache, itemVars
<1>3. CASE UNCHANGED allVars
  BY <1>1, <1>3 DEF allVars, itemVars
<1>4. QED
  BY <1>2, <1>3, FileBodyAtHome, GiveItemAtHome DEF ItemNext

(***************************************************************************)
(* The theorems.                                                            *)
(***************************************************************************)
\* Every object that FSKit is given for a record is the same one.
THEOREM OneItemCorrect == ItemSpec => []OneItem
<1>1. ItemInv => OneItem
  BY DEF ItemInv, GivenInv, OneItem
<1>2. QED
  BY <1>1, ItemInitInv, ItemStepInv, PTL DEF ItemSpec

\* The directory an item names is one its file has a name in, until the file loses a name.
THEOREM DirectoryCorrect == ItemSpec => []ItemsDirectory
<1>1. ItemInit => ItemInv /\ HomeInv
  BY ItemInitInv, HomeInit
<1>2. ItemInv /\ HomeInv /\ [ItemNext]_allVars => (ItemInv /\ HomeInv)'
  BY ItemStepInv, HomeStepInv
<1>3. ItemInv /\ HomeInv => ItemsDirectory
  BY DEF HomeInv
<1>4. QED
  BY <1>1, <1>2, <1>3, PTL DEF ItemSpec

\* With the items on top the threads still take the locks as BridgeLock says: what is
\* proved there of MutualExclusion holds here.
THEOREM ItemsRunOnLocks == ItemSpec => Spec
<1>1. ItemInit => Init
  BY DEF ItemInit
<1>2. [ItemNext]_allVars => [Next]_vars
  <2>1. ASSUME NEW t \in Threads, LockStep(t) PROVE Next
    BY <2>1 DEF LockStep, Next, Inside
  <2>2. ASSUME NEW t \in Threads, FileBody(t) PROVE Next
    BY <2>2 DEF FileBody, Next, Inside
  <2>3. ASSUME NEW t \in Threads, CheckCache(t) \/ GiveItem(t) PROVE Next
    BY <2>3 DEF CheckCache, GiveItem, Next, ItemStep
  <2>4. CASE UNCHANGED allVars
    BY <2>4 DEF allVars
  <2>5. QED
    BY <2>1, <2>2, <2>3, <2>4 DEF ItemNext
<1>3. QED
  BY <1>1, <1>2, PTL DEF ItemSpec, Spec

THEOREM SerialisedWithItems == ItemSpec => []MutualExclusion
BY ItemsRunOnLocks, Serialised, PTL

==============================================================================
