-------------------------- MODULE BlockCacheProofs --------------------------
(***************************************************************************)
(* For every device, set of requests and pattern of failures: if the kernel  *)
(* keeps plain I/O coherent with its buffer cache, blockIO and sync give the *)
(* client of the device a store with a volatile buffer.                      *)
(***************************************************************************)
EXTENDS BlockCache, TLAPS

\* Dirty blocks hold the newest value in the cache, the others on the medium,
\* and nothing is dirty that was not written since the last sync.
CoherenceInv ==
    /\ dirty \subseteq unsynced
    /\ \A b \in Blocks :
          /\ b \in dirty => cache[b] = acked[b]
          /\ b \notin dirty => disk[b] = acked[b] /\ cache[b] \in {Absent, acked[b]}

Inv == TypeOK /\ CoherenceInv /\ ReadYourWrites

\* Both ways of reading find the newest value.
LEMMA ViewsAgree ==
    ASSUME TypeOK, CoherenceInv, NEW b \in Blocks
    PROVE  CachedView[b] = acked[b]
BY BlockCacheAssumption DEF TypeOK, CoherenceInv, CachedView

\* A flush, whole or in part, moves blocks to the medium and changes none.
LEMMA FlushKeeps ==
    ASSUME TypeOK, CoherenceInv, NEW d \in SUBSET dirty, Flushed(d)
    PROVE  /\ disk' \in [Blocks -> Values] /\ cache' = cache /\ dirty' \subseteq dirty
           /\ \A b \in Blocks :
                 /\ b \in dirty' => cache[b] = acked[b]
                 /\ b \notin dirty' => disk'[b] = acked[b] /\ cache[b] \in {Absent, acked[b]}
<1>1. \A b \in dirty : cache[b] = acked[b] /\ b \in Blocks
  BY DEF TypeOK, CoherenceInv
<1> QED
  BY <1>1 DEF Flushed, TypeOK, CoherenceInv

\* The flush of a sync or of a fallback read is such a flush.
LEMMA AnyFlush ==
    ASSUME FlushOk \/ FlushFails
    PROVE  \E d \in SUBSET dirty : Flushed(d)
BY DEF FlushOk, FlushFails

\* Every step keeps the newest values reachable.
LEMMA InvStep == ASSUME Coherent = TRUE, Inv, [Next]_vars PROVE Inv'
<1> USE BlockCacheAssumption
<1>1. ASSUME NEW r \in Ranges, SmallRead(r) PROVE Inv'
  <2>1. \A b \in r : CachedView[b] = acked[b] /\ b \in Blocks
    BY <1>1, ViewsAgree DEF Inv
  <2> QED
    BY <1>1, <2>1
    DEF SmallRead, Fill, Answer, Readable, Inv, TypeOK, CoherenceInv, ReadYourWrites, Codes
<1>2. ASSUME NEW r \in Ranges, SmallReadFallsBack(r) PROVE Inv'
  <2>1. \A b \in r : CachedView[b] = acked[b] /\ b \in Blocks
    BY <1>2, ViewsAgree DEF Inv
  <2>2. /\ disk' \in [Blocks -> Values] /\ cache' = cache /\ dirty' \subseteq dirty
        /\ \A b \in Blocks :
              /\ b \in dirty' => cache[b] = acked[b]
              /\ b \notin dirty' => disk'[b] = acked[b] /\ cache[b] \in {Absent, acked[b]}
    <3>1. CASE UNCHANGED <<disk, cache, dirty>>
      BY <3>1 DEF Inv, TypeOK, CoherenceInv
    <3>2. CASE FlushOk \/ FlushFails
      BY <3>2, AnyFlush, FlushKeeps DEF Inv
    <3> QED
      BY <1>2, <3>1, <3>2 DEF SmallReadFallsBack, FallbackFlush
  <2>3. PICK rc \in Codes :
          Answer("read", r, IF rc = "ok" THEN Readable(CachedView, r) ELSE NoData, rc)
    BY <1>2 DEF SmallReadFallsBack, PlainViewAfter
  <2>4. cacheDirty' = FALSE /\ acked' = acked /\ unsynced' = unsynced
    BY <1>2 DEF SmallReadFallsBack, FallbackFlush
  <2>5. ReadYourWrites'
    BY <2>1, <2>3, <2>4 DEF Answer, Readable, ReadYourWrites
  <2>6. CoherenceInv'
    BY <2>2, <2>4 DEF Inv, CoherenceInv
  <2>7. TypeOK'
    BY <2>2, <2>3, <2>4 DEF Inv, TypeOK, Answer, Codes
  <2> QED
    BY <2>5, <2>6, <2>7 DEF Inv
<1>3. ASSUME NEW r \in Ranges, LargeRead(r) PROVE Inv'
  <2>1. \A b \in r : PlainView[b] = acked[b] /\ b \in Blocks
    BY <1>3, ViewsAgree DEF Inv, PlainView
  <2>2. PICK rc \in Codes :
          Answer("read", r, IF rc = "ok" THEN Readable(PlainView, r) ELSE NoData, rc)
    BY <1>3 DEF LargeRead
  <2>3. UNCHANGED <<disk, cache, dirty, cacheDirty, acked, unsynced>>
    BY <1>3 DEF LargeRead
  <2>4. ReadYourWrites'
    BY <2>1, <2>2, <2>3 DEF Answer, Readable, ReadYourWrites
  <2> QED
    BY <2>2, <2>3, <2>4 DEF Answer, Inv, TypeOK, CoherenceInv, Codes
<1>4. ASSUME NEW r \in Ranges, NEW v \in Values, SmallWrite(r, v) PROVE Inv'
  BY <1>4
  DEF SmallWrite, DelayedWrite, Written, Answer, Inv, TypeOK, CoherenceInv,
      ReadYourWrites, Codes
<1>5. ASSUME NEW r \in Ranges, NEW v \in Values, WritePastCache(r, v) PROVE Inv'
  <2>1. PICK rc \in Codes, done \in SUBSET r : PlainWrite(done, v) /\ Written(r, done, v, rc)
    BY <1>5 DEF WritePastCache
  <2>2. UNCHANGED cacheDirty
    BY <1>5 DEF WritePastCache
  <2> QED
    BY <2>1, <2>2
    DEF PlainWrite, Written, Answer, Inv, TypeOK, CoherenceInv, ReadYourWrites, Codes
<1>6. CASE Sync
  <2>1. /\ disk' \in [Blocks -> Values] /\ cache' = cache /\ dirty' \subseteq dirty
        /\ \A b \in Blocks :
              /\ b \in dirty' => cache[b] = acked[b]
              /\ b \notin dirty' => disk'[b] = acked[b] /\ cache[b] \in {Absent, acked[b]}
    BY <1>6, AnyFlush, FlushKeeps DEF Sync, Inv
  <2>2. dirty' \subseteq unsynced' /\ unsynced' \subseteq Blocks
    BY <1>6, <2>1 DEF Sync, FlushOk, Flushed, Inv, TypeOK, CoherenceInv
  <2>3. /\ last'.kind = "sync" /\ last'.range = {} /\ last'.rc \in Codes
        /\ acked' = acked /\ cacheDirty' \in {FALSE, cacheDirty}
    <3>1. CASE Answer("sync", {}, NoData, "ok") /\ cacheDirty' = FALSE
      BY <1>6, <3>1 DEF Sync, Answer, Codes
    <3>2. CASE Answer("sync", {}, NoData, "pos") /\ UNCHANGED cacheDirty
      BY <1>6, <3>2 DEF Sync, Answer, Codes
    <3> QED
      BY <1>6, <3>1, <3>2 DEF Sync
  <2>4. TypeOK' /\ CoherenceInv'
    BY <2>1, <2>2, <2>3 DEF Inv, TypeOK, CoherenceInv
  <2>5. ReadYourWrites'
    BY <2>3 DEF ReadYourWrites
  <2> QED
    BY <2>4, <2>5 DEF Inv
<1>7. ASSUME NEW b \in Blocks, WriteBack(b) PROVE Inv'
  <2>1. /\ disk' \in [Blocks -> Values] /\ cache' = cache /\ dirty' \subseteq dirty
        /\ \A c \in Blocks :
              /\ c \in dirty' => cache[c] = acked[c]
              /\ c \notin dirty' => disk'[c] = acked[c] /\ cache[c] \in {Absent, acked[c]}
    <3>1. {b} \in SUBSET dirty
      BY <1>7 DEF WriteBack
    <3> QED
      BY <1>7, <3>1, FlushKeeps DEF WriteBack, Inv
  <2>2. UNCHANGED <<cacheDirty, acked, unsynced, last>>
    BY <1>7 DEF WriteBack
  <2> QED
    BY <2>1, <2>2 DEF Inv, TypeOK, CoherenceInv, ReadYourWrites
<1>8. ASSUME NEW b \in Blocks, Evict(b) PROVE Inv'
  BY <1>8 DEF Evict, Inv, TypeOK, CoherenceInv, ReadYourWrites
<1>9. CASE PowerLoss
  BY <1>9 DEF PowerLoss, Answer, Inv, TypeOK, CoherenceInv, ReadYourWrites, Codes
<1>10. CASE UNCHANGED vars
  BY <1>10 DEF vars, Inv, TypeOK, CoherenceInv, ReadYourWrites
<1> QED
  BY <1>1, <1>2, <1>3, <1>4, <1>5, <1>6, <1>7, <1>8, <1>9, <1>10 DEF Next, Request

LEMMA InitInv == Init => Inv
<1> SUFFICES ASSUME Init PROVE Inv
  OBVIOUS
<1>1. last.kind = "none" /\ last.range = {} /\ last.rc = "ok"
  BY DEF Init
<1>2. TypeOK
  BY <1>1 DEF Init, TypeOK, Codes
<1>3. CoherenceInv
  BY DEF Init, CoherenceInv
<1> QED
  BY <1>1, <1>2, <1>3 DEF Inv, ReadYourWrites

\* The cache and the medium hold values, and a block that is dirty is cached.
THEOREM CacheTypes == ASSUME Coherent = TRUE PROVE Spec => []TypeOK
<1>1. Inv => TypeOK
  BY DEF Inv
<1> QED
  BY <1>1, InitInv, InvStep, PTL DEF Spec

\* Reads return the last write, whichever way each of them went.
THEOREM CoherentReads == ASSUME Coherent = TRUE PROVE Spec => []ReadYourWrites
<1>1. Inv => ReadYourWrites
  BY DEF Inv
<1> QED
  BY <1>1, InitInv, InvStep, PTL DEF Spec

\* What a successful sync covered stays on the medium, however the sync, the
\* kernel's write-back, fallback reads and their failed flushes follow each other.
THEOREM SyncIsDurable == ASSUME Coherent = TRUE PROVE Spec => []SyncedSurvives
<1>1. Inv => SyncedSurvives
  BY DEF Inv, CoherenceInv, SyncedSurvives
<1> QED
  BY <1>1, InitInv, InvStep, PTL DEF Spec

\* What a flush writes, a block may reach the disk with.
LEMMA FlushReaches ==
    ASSUME Inv, UNCHANGED acked,
           UNCHANGED disk \/ \E d \in SUBSET dirty : Flushed(d)
    PROVE  Store!MayReachDisk
<1>1. \A b \in dirty : cache[b] = acked[b]
  BY DEF Inv, TypeOK, CoherenceInv
<1>2. CASE UNCHANGED disk
  BY <1>2 DEF Store!MayReachDisk
<1>3. ASSUME NEW d \in SUBSET dirty, Flushed(d) PROVE Store!MayReachDisk
  BY <1>1, <1>3 DEF Flushed, Store!MayReachDisk
<1> QED
  BY <1>2, <1>3

\* Every step of the device is one of the store, or leaves it alone.
LEMMA StoreStep ==
    ASSUME Coherent = TRUE, Inv, [Next]_vars
    PROVE  [Store!Next]_(Store!vars)
<1> USE BlockCacheAssumption
<1>1. ASSUME NEW r \in Ranges, SmallRead(r) PROVE Store!Next
  <2>1. \A b \in r : CachedView[b] = acked[b]
    BY <1>1, ViewsAgree DEF Inv
  <2>2. Store!Read
    BY <1>1, <2>1 DEF SmallRead, Answer, Readable, Store!Read
  <2> QED
    BY <1>1, <2>2, FlushReaches DEF SmallRead, Store!Next
<1>2. ASSUME NEW r \in Ranges, SmallReadFallsBack(r) PROVE Store!Next
  <2>1. \A b \in r : CachedView[b] = acked[b]
    BY <1>2, ViewsAgree DEF Inv
  <2>2. PICK rc \in Codes :
          Answer("read", r, IF rc = "ok" THEN Readable(CachedView, r) ELSE NoData, rc)
    BY <1>2 DEF SmallReadFallsBack, PlainViewAfter
  <2>3. UNCHANGED acked
    BY <1>2 DEF SmallReadFallsBack
  <2>4. UNCHANGED disk \/ \E d \in SUBSET dirty : Flushed(d)
    BY <1>2, AnyFlush DEF SmallReadFallsBack, FallbackFlush
  <2>5. Store!Read
    BY <2>1, <2>2, <2>3 DEF Answer, Readable, Store!Read
  <2> QED
    BY <2>3, <2>4, <2>5, FlushReaches DEF Store!Next
<1>3. ASSUME NEW r \in Ranges, LargeRead(r) PROVE Store!Next
  <2>1. \A b \in r : PlainView[b] = acked[b]
    BY <1>3, ViewsAgree DEF Inv, PlainView
  <2>2. PICK rc \in Codes :
          Answer("read", r, IF rc = "ok" THEN Readable(PlainView, r) ELSE NoData, rc)
    BY <1>3 DEF LargeRead
  <2>3. UNCHANGED <<disk, acked>>
    BY <1>3 DEF LargeRead
  <2>4. Store!Read
    BY <2>1, <2>2, <2>3 DEF Answer, Readable, Store!Read
  <2> QED
    BY <2>3, <2>4, FlushReaches DEF Store!Next
<1>4. ASSUME NEW r \in Ranges, NEW v \in Values, SmallWrite(r, v) PROVE Store!Next
  <2>1. Store!Write
    BY <1>4 DEF SmallWrite, Written, Answer, Inv, TypeOK, Store!Write
  <2>2. Store!MayReachDisk
    BY <1>4 DEF SmallWrite, DelayedWrite, Store!MayReachDisk
  <2> QED
    BY <2>1, <2>2 DEF Store!Next
<1>5. ASSUME NEW r \in Ranges, NEW v \in Values, WritePastCache(r, v) PROVE Store!Next
  <2>1. PICK rc \in Codes, done \in SUBSET r :
          /\ rc = "ok" => done = r
          /\ PlainWrite(done, v)
          /\ Written(r, done, v, rc)
    BY <1>5 DEF WritePastCache
  <2>2. \A b \in Blocks : acked'[b] = IF b \in done THEN v ELSE acked[b]
    BY <2>1 DEF Written
  <2>3. Store!Write
    BY <2>1, <2>2 DEF Written, Answer, Store!Write
  <2>4. Store!MayReachDisk
    BY <2>1, <2>2 DEF PlainWrite, Store!MayReachDisk
  <2> QED
    BY <2>3, <2>4 DEF Store!Next
<1>6. ASSUME Sync PROVE Store!Next
  <2>1. UNCHANGED acked /\ \E d \in SUBSET dirty : Flushed(d)
    BY <1>6, AnyFlush DEF Sync
  <2>2. ASSUME FlushOk PROVE disk' = acked
    <3>1. \A b \in Blocks : disk'[b] = acked[b]
      BY <2>2 DEF FlushOk, Flushed, Inv, CoherenceInv
    <3>2. disk' = [b \in Blocks |-> disk'[b]]
      BY <2>2 DEF FlushOk, Flushed
    <3>3. acked = [b \in Blocks |-> acked[b]]
      BY DEF Inv, TypeOK
    <3> QED
      BY <3>1, <3>2, <3>3
  <2>3. last'.kind = "sync" /\ (last'.rc = "ok" => disk' = acked)
    BY <1>6, <2>2 DEF Sync, Answer
  <2>4. Store!Sync
    BY <2>1, <2>3 DEF Store!Sync
  <2> QED
    BY <2>1, <2>4, FlushReaches DEF Store!Next
<1>7. ASSUME NEW b \in Blocks, WriteBack(b) PROVE Store!Next
  <2>1. UNCHANGED <<acked, last>> /\ \E d \in SUBSET dirty : Flushed(d)
    BY <1>7 DEF WriteBack
  <2> QED
    BY <2>1, FlushReaches DEF Store!Settle, Store!Next
<1>8. ASSUME NEW b \in Blocks, Evict(b) PROVE UNCHANGED Store!vars
  BY <1>8 DEF Evict, Store!vars
<1>9. ASSUME PowerLoss PROVE Store!Next
  BY <1>9 DEF PowerLoss, Answer, Store!PowerLoss, Store!Next
<1>10. CASE UNCHANGED vars
  BY <1>10 DEF vars, Store!vars
<1> QED
  BY <1>1, <1>2, <1>3, <1>4, <1>5, <1>6, <1>7, <1>8, <1>9, <1>10 DEF Next, Request

\* blockIO and sync implement the store with a volatile buffer, for every device
\* and every pattern of requests and failures.
THEOREM StoreImplemented == ASSUME Coherent = TRUE PROVE Spec => StoreSpec
<1>1. Init => Store!Init
  BY DEF Init, Store!Init
<1> QED
  BY <1>1, InitInv, InvStep, StoreStep, PTL DEF Spec, StoreSpec, Store!Spec

============================================================================
