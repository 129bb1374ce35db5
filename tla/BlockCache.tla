----------------------------- MODULE BlockCache -----------------------------
(***************************************************************************)
(* NTFSBlockDevice.blockIO and sync (NTFSBlockDevice.swift): the block I/O   *)
(* of a volume, sent by size either through the kernel's buffer cache        *)
(* (metadataRead, delayedMetadataWrite) or past it (plain read and write).   *)
(*                                                                         *)
(* The buffer cache is FSKit's: it may write a dirty block back or drop a    *)
(* clean one at any time, and loses its blocks with the power.  What the     *)
(* repository says of plain I/O is that it goes straight to the device       *)
(* (FSKCompat.m); whether the kernel keeps the buffer cache coherent with it *)
(* is the constant Coherent.                                                 *)
(***************************************************************************)
EXTENDS Integers, FiniteSets

CONSTANTS
    Blocks,         \* the device
    Small, Large,   \* the ranges of requests below, and from, metadataCutover
    Values,         \* what a block may hold
    Absent,         \* a block the cache does not hold
    Coherent,       \* TRUE: plain I/O sees and updates the buffer cache
    CacheFaults,    \* TRUE: metadataRead and delayedMetadataWrite may throw
    FlushFaults,    \* TRUE: metadataFlush may throw
    PlainFaults     \* TRUE: plain reads and writes may throw or be short

Ranges == Small \cup Large

ASSUME BlockCacheAssumption ==
    /\ Ranges \subseteq SUBSET Blocks
    /\ Absent \notin Values /\ Values # {}
    /\ {Coherent, CacheFaults, FlushFaults, PlainFaults} \subseteq BOOLEAN

VARIABLES
    disk,       \* the blocks on the medium
    cache,      \* the kernel's buffer cache
    dirty,      \* the cached blocks that are newer than the medium
    cacheDirty, \* NTFSBlockDevice.cacheDirty
    acked,      \* for the properties: the value each block was last given
    unsynced,   \* for the properties: the blocks written since the last sync
    last        \* the last request and its answer

vars == <<disk, cache, dirty, cacheDirty, acked, unsynced, last>>

Codes == {"ok", "neg", "pos"}   \* 0, -errno, +errno

(***************************************************************************)
(* FSKit.                                                                   *)
(***************************************************************************)
\* What a read through the cache, and one past it, returns.
CachedView == [b \in Blocks |-> IF cache[b] # Absent THEN cache[b] ELSE disk[b]]
PlainView  == IF Coherent THEN CachedView ELSE disk

\* metadataRead keeps what it read.
Fill(r) == cache' = [b \in Blocks |-> IF b \in r THEN CachedView[b] ELSE cache[b]]

DelayedWrite(r, v) ==
    /\ cache' = [b \in Blocks |-> IF b \in r THEN v ELSE cache[b]]
    /\ dirty' = dirty \cup r
    /\ UNCHANGED disk

\* PlainWrite that leaves the blocks it drops from the cache marked dirty.
PlainWriteLeavesDirty(r, v) ==
    /\ disk' = [b \in Blocks |-> IF b \in r THEN v ELSE disk[b]]
    /\ cache' = [b \in Blocks |-> IF b \in r THEN Absent ELSE cache[b]]
    /\ UNCHANGED dirty

\* A plain write of part of the range, all of it if it succeeds.
PlainWrite(r, v) ==
    /\ disk' = [b \in Blocks |-> IF b \in r THEN v ELSE disk[b]]
    /\ IF Coherent
       THEN /\ cache' = [b \in Blocks |-> IF b \in r THEN Absent ELSE cache[b]]
            /\ dirty' = dirty \ r
       ELSE UNCHANGED <<cache, dirty>>

\* metadataFlush writes dirty blocks to the medium, all of them if it succeeds.
Flushed(d) ==
    /\ disk' = [b \in Blocks |-> IF b \in d THEN cache[b] ELSE disk[b]]
    /\ dirty' = dirty \ d
    /\ UNCHANGED cache

FlushOk    == Flushed(dirty)
FlushFails == FlushFaults /\ \E d \in SUBSET dirty : Flushed(d)

(***************************************************************************)
(* The requests.  blockIO tries the cache for a small one and falls through  *)
(* to plain I/O when the cache throws.                                       *)
(***************************************************************************)
NoData == [b \in {} |-> Absent]

Answer(kind, r, data, rc) ==
    last' = [kind |-> kind, range |-> r, data |-> data, rc |-> rc]

\* A plain transfer ends whole, throws a POSIXError, or is short or throws
\* another error; only the POSIXError is negated.
PlainResult(rc) == rc = "ok" \/ (PlainFaults /\ rc \in {"neg", "pos"})

Readable(view, r) == [b \in r |-> view[b]]

SmallRead(r) ==
    /\ r \in Small
    /\ Fill(r)
    /\ Answer("read", r, Readable(CachedView, r), "ok")
    /\ UNCHANGED <<disk, dirty, cacheDirty, acked, unsynced>>

\* metadataRead threw: flush if the cache is thought dirty, in any case forget
\* that it was, and read past it.
FallbackFlush ==
    /\ cacheDirty' = FALSE
    /\ IF cacheDirty THEN FlushOk \/ FlushFails ELSE UNCHANGED <<disk, cache, dirty>>

\* What the plain read that follows FallbackFlush finds.
PlainViewAfter == IF Coherent THEN CachedView ELSE disk'

SmallReadFallsBack(r) ==
    /\ r \in Small /\ CacheFaults
    /\ FallbackFlush
    /\ \E rc \in Codes :
          /\ PlainResult(rc)
          /\ Answer("read", r, IF rc = "ok" THEN Readable(PlainViewAfter, r) ELSE NoData, rc)
    /\ UNCHANGED <<acked, unsynced>>

\* LargeRead that does not compare the length it got with the one it asked for.
LargeReadShort(r) ==
    /\ r \in Large
    /\ \E got \in SUBSET r, old \in Values :
          /\ got = r \/ PlainFaults
          /\ Answer("read", r, [b \in r |-> IF b \in got THEN PlainView[b] ELSE old], "ok")
    /\ UNCHANGED <<disk, cache, dirty, cacheDirty, acked, unsynced>>

LargeRead(r) ==
    /\ r \in Large
    /\ \E rc \in Codes :
          /\ PlainResult(rc)
          /\ Answer("read", r, IF rc = "ok" THEN Readable(PlainView, r) ELSE NoData, rc)
    /\ UNCHANGED <<disk, cache, dirty, cacheDirty, acked, unsynced>>

\* The blocks of done have taken the value v.
Written(r, done, v, rc) ==
    /\ acked' = [b \in Blocks |-> IF b \in done THEN v ELSE acked[b]]
    /\ unsynced' = unsynced \cup done
    /\ Answer("write", r, [b \in r |-> v], rc)

SmallWrite(r, v) ==
    /\ r \in Small
    /\ DelayedWrite(r, v) /\ cacheDirty' = TRUE
    /\ Written(r, r, v, "ok")

\* WritePastCache that does not compare the lengths either.
WritePastCacheShort(r, v) ==
    /\ r \in Large
    /\ \E done \in SUBSET r :
          /\ done = r \/ PlainFaults
          /\ PlainWrite(done, v)
          /\ Written(r, done, v, "ok")
    /\ UNCHANGED cacheDirty

\* A large write, or a small one that delayedMetadataWrite threw back.
WritePastCache(r, v) ==
    /\ r \in Large \/ (r \in Small /\ CacheFaults)
    /\ \E rc \in Codes : \E done \in SUBSET r :
          /\ PlainResult(rc)
          /\ rc = "ok" => done = r
          /\ PlainWrite(done, v)
          /\ Written(r, done, v, rc)
    /\ UNCHANGED cacheDirty

\* Sync that takes a failed flush for done.
SyncUnchecked ==
    /\ FlushOk \/ FlushFails
    /\ cacheDirty' = FALSE /\ unsynced' = {}
    /\ Answer("sync", {}, NoData, "ok")
    /\ UNCHANGED acked

Sync ==
    /\ \/ /\ FlushOk /\ cacheDirty' = FALSE /\ unsynced' = {}
          /\ Answer("sync", {}, NoData, "ok")
       \/ /\ FlushFails /\ UNCHANGED <<cacheDirty, unsynced>>
          /\ Answer("sync", {}, NoData, "pos")
    /\ UNCHANGED acked

(***************************************************************************)
(* The kernel and the power.                                                *)
(***************************************************************************)
WriteBack(b) ==
    /\ b \in dirty /\ Flushed({b})
    /\ UNCHANGED <<cacheDirty, acked, unsynced, last>>

Evict(b) ==
    /\ cache[b] # Absent /\ b \notin dirty
    /\ cache' = [cache EXCEPT ![b] = Absent]
    /\ UNCHANGED <<disk, dirty, cacheDirty, acked, unsynced, last>>

\* What was not synced may be lost; a new process starts.
PowerLoss ==
    /\ cache' = [b \in Blocks |-> Absent] /\ dirty' = {} /\ cacheDirty' = FALSE
    /\ acked' = disk /\ unsynced' = {}
    /\ Answer("none", {}, NoData, "ok")
    /\ UNCHANGED disk

Init ==
    /\ disk \in [Blocks -> Values]
    /\ cache = [b \in Blocks |-> Absent] /\ dirty = {} /\ cacheDirty = FALSE
    /\ acked = disk /\ unsynced = {}
    /\ last = [kind |-> "none", range |-> {}, data |-> NoData, rc |-> "ok"]

Request ==
    \/ \E r \in Ranges : SmallRead(r) \/ SmallReadFallsBack(r) \/ LargeRead(r)
    \/ \E r \in Ranges, v \in Values : SmallWrite(r, v) \/ WritePastCache(r, v)
    \/ Sync

Next ==
    \/ Request
    \/ \E b \in Blocks : WriteBack(b) \/ Evict(b)
    \/ PowerLoss

Spec == Init /\ [][Next]_vars

(***************************************************************************)
(* Properties.                                                              *)
(***************************************************************************)
\* The cache and the medium hold values, and only cached blocks are dirty.
TypeOK ==
    /\ disk \in [Blocks -> Values]
    /\ cache \in [Blocks -> Values \cup {Absent}]
    /\ dirty \subseteq {b \in Blocks : cache[b] # Absent}
    /\ cacheDirty \in BOOLEAN
    /\ acked \in [Blocks -> Values]
    /\ unsynced \subseteq Blocks
    /\ last.kind \in {"none", "read", "write", "sync"}
    /\ last.range \subseteq Blocks
    /\ last.rc \in Codes

\* A read that succeeds returns what was last written, whichever way the write
\* and the read went ("correctness does not depend on the classification").
ReadYourWrites ==
    (last.kind = "read" /\ last.rc = "ok") =>
        \A b \in last.range : last.data[b] = acked[b]

\* What a successful sync covered, and nothing wrote since, is on the medium and
\* survives a loss of power: no later write-back may bring an older value.
SyncedSurvives == \A b \in Blocks \ unsynced : disk[b] = acked[b]

\* The device as its client sees it is a store with a volatile buffer.
Store == INSTANCE DurableStore WITH mem <- acked
StoreSpec == Store!Spec

============================================================================
