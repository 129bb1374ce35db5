------------------------------ MODULE MCVolumeIO ------------------------------
(***************************************************************************)
(* The way from a disk to the bytes of its volume, in three parts that keep    *)
(* no state in common and are looked at one at a time: the load of disks       *)
(* (VolumeLoad), byte requests cut into blocks (AlignedIO), and blocks through  *)
(* and past the buffer cache (BlockCache).                                    *)
(*                                                                         *)
(* Load: one NTFS and two ext disks, of which two are in use at once and one    *)
(* may be write-protected.  Bytes: three blocks of four bytes, with the quantum *)
(* of 512 bytes scaled down to 2 and its maximum of 4096 to 4.  Cache: two      *)
(* blocks; every single block is a small request and the pair a large one, so   *)
(* that each block is reached both ways.                                      *)
(***************************************************************************)
EXTENDS BlockCache, AlignedIO, VolumeLoad, FiniteSets, TLC

CONSTANTS b1, b2, v1, v2, absent, n1, e1, e2,
    Parts       \* the parts considered: "load", "bytes" or "cache"

TwoBlocks  == {b1, b2}
EachBlock  == {{b1}, {b2}}
BothBlocks == {{b1, b2}}
TwoValues  == {v1, v2}
NegErrors  == {-5}
AllDisks   == {n1, e1, e2}
ExtDisks   == {e1, e2}
NtfsDisks  == {n1}
NoDisks    == {}

Alike == Permutations({v1, v2}) \cup Permutations({e1, e2})

VARIABLE part

AllVars == <<part, vars, alignedVars, loadVars>>

\* A part that is not considered stays in one of its initial states.
AllInit ==
    /\ part \in Parts
    /\ Init /\ AlignedInit /\ LoadInit
    /\ part # "cache" => \E v \in Values : \A b \in Blocks : disk[b] = v
    /\ part = "load" => \E d \in Disks : \A e \in Disks \ {d} : writable[e]
    /\ part # "bytes" => ~readonly
    /\ part # "load" => /\ \A d \in Disks : writable[d] /\ ~hiber[d]
                        /\ ~forceRO /\ \A d \in Disks : override[d] = None


\* Two disks are in use at a time, and the third once one of them has gone.
TwoAtOnce == Cardinality({d \in Disks : step[d] # "idle"}) <= 2

CacheStep(A) == part = "cache" /\ A /\ UNCHANGED <<part, alignedVars, loadVars>>
BytesStep(A) == part = "bytes" /\ A /\ UNCHANGED <<part, vars, loadVars>>
LoadStep(A)  == part = "load" /\ A /\ TwoAtOnce' /\ UNCHANGED <<part, vars, alignedVars>>

AllNext == CacheStep(Next) \/ BytesStep(AlignedNext) \/ LoadStep(LoadNext)

AllSpec == AllInit /\ [][AllNext]_AllVars
==============================================================================
