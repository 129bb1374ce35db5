---------------------------- MODULE DurableStore ----------------------------
(***************************************************************************)
(* What a block device with a volatile buffer promises its one client: reads *)
(* return what was written last, a successful sync makes everything written  *)
(* before it durable, and a loss of power takes back only what was not.      *)
(***************************************************************************)
CONSTANTS Blocks, Values

VARIABLES
    mem,        \* what reads return
    disk,       \* what a loss of power leaves
    last        \* the last request and its answer

vars == <<mem, disk, last>>

Ok(kind) == last'.kind = kind /\ last'.rc = "ok"

Read ==
    /\ last'.kind = "read"
    /\ last'.rc = "ok" => \A b \in last'.range : last'.data[b] = mem[b]
    /\ UNCHANGED mem

\* A write that fails may have been done in part.
Write ==
    /\ last'.kind = "write"
    /\ last'.rc = "ok" => \A b \in last'.range : mem'[b] = last'.data[b]
    /\ \A b \in last'.range : mem'[b] \in {mem[b], last'.data[b]}
    /\ \A b \in Blocks \ last'.range : mem'[b] = mem[b]

Sync ==
    /\ last'.kind = "sync"
    /\ last'.rc = "ok" => disk' = mem
    /\ UNCHANGED mem

Settle == UNCHANGED <<mem, last>>

\* At any step blocks may reach the disk with the value they have.
MayReachDisk == \A b \in Blocks : disk'[b] \in {disk[b], mem[b], mem'[b]}

PowerLoss == mem' = disk /\ disk' = disk /\ last'.kind = "none"

Init == mem = disk /\ mem \in [Blocks -> Values] /\ last.kind = "none"

Next == PowerLoss \/ (MayReachDisk /\ (Read \/ Write \/ Sync \/ Settle))

Spec == Init /\ [][Next]_vars

============================================================================
