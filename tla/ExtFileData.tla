----------------------------- MODULE ExtFileData -----------------------------
(***************************************************************************)
(* The bytes of one file of an ext2/3/4 volume: extfsk_write, extfsk_read and  *)
(* extfsk_truncate (bridge/ext_fskit.c) below write, read and setAttributes   *)
(* (EXTVolume.swift), beside the file that POSIX would have.                  *)
(***************************************************************************)
EXTENDS Integers

CONSTANTS
    BlockSize,
    OffLimit,   \* 2^31: the first offset that ext2_off_t, which is signed, cannot hold
    Values,     \* what a write fills its range with
    InPlace,    \* TRUE: writes may end before the end of the file
    Far,        \* TRUE: requests may begin where ext2_off_t does not reach
    Ragged,     \* TRUE: the file may be cut within a block
    MaxSize,    \* bound: bytes of the file
    MaxBytes,   \* bound: bytes of a request
    MaxFaults   \* bound: failing library calls

ASSUME ExtFileAssumption ==
    /\ BlockSize \in Nat \ {0} /\ OffLimit \in Nat \ {0}
    /\ Values \subseteq Nat \ {0}
    /\ {InPlace, Far, Ragged} \subseteq BOOLEAN
    /\ {MaxSize, MaxBytes, MaxFaults} \subseteq Nat

Positions == 0 .. MaxSize - 1
Zero == 0

VARIABLES
    data,       \* the bytes of the file's blocks, Zero where there is none
    size,       \* EXT2_I_SIZE
    want,       \* for the properties: the bytes and the size by POSIX
    wantSize,
    req,        \* the write under way
    faults

extFileVars == <<data, size, want, wantSize, req, faults>>

NoReq == [off |-> 0, len |-> 0, pc |-> "idle"]

Fault == faults < MaxFaults /\ faults' = faults + 1
Greater(m, n) == IF m > n THEN m ELSE n
Lesser(m, n) == IF m < n THEN m ELSE n
Filled(f, from, len, v) ==
    [p \in Positions |-> IF from <= p /\ p < from + len THEN v ELSE f[p]]

(***************************************************************************)
(* libext2fs.                                                               *)
(***************************************************************************)
\* (ext2_off_t)offset; a negative one is past the end of every file.
Seek(off) == off % (2 * OffLimit)
CanSeek(off) == Seek(off) < OffLimit

\* ext2fs_file_write fills blocks, and makes the file longer when it has to.
FileWrite(pos, len, v) ==
    /\ data' = Filled(data, pos, len, v)
    /\ size' = IF len > 0 THEN Greater(size, pos + len) ELSE size

\* ext2fs_file_read stops at the end of the file.
FileRead(pos, len) ==
    [k \in 0 .. Lesser(len, size - pos) - 1 |-> data[pos + k]]

(***************************************************************************)
(* The bridge.                                                              *)
(***************************************************************************)
\* The writes considered, of a file of n bytes.
Asked(off, len, n) ==
    /\ off + len <= MaxSize
    /\ Far \/ off < OffLimit
    /\ InPlace \/ off + len >= n

\* Opening, seeking and writing.  A write that fails may have been done in part.
WriteData(off, len, v) ==
    /\ req.pc = "idle" /\ Asked(off, len, size)
    /\ \/ /\ CanSeek(off) /\ FileWrite(Seek(off), len, v)
          /\ want' = Filled(want, off, len, v)
          /\ wantSize' = IF len > 0 THEN Greater(wantSize, off + len) ELSE wantSize
          /\ req' = [off |-> off, len |-> len, pc |-> "size"]
          /\ UNCHANGED faults
       \/ /\ ~CanSeek(off) /\ UNCHANGED <<data, size, want, wantSize, req, faults>>
       \/ /\ CanSeek(off) /\ Fault
          /\ \E k \in 0 .. len : FileWrite(Seek(off), k, v)
          /\ req' = [off |-> off, len |-> len, pc |-> "idle"]
          /\ UNCHANGED <<want, wantSize>>

\* WriteSize that takes the beginning of the write for its end.
WriteSizeStart ==
    /\ req.pc = "size"
    /\ size' = req.off
    /\ req' = [req EXCEPT !.pc = "idle"]
    /\ UNCHANGED <<data, want, wantSize, faults>>

\* ext_update_inode_size: the end of the write becomes the end of the file.
WriteSize ==
    /\ req.pc = "size"
    /\ \/ size' = req.off + req.len /\ UNCHANGED faults
       \/ Fault /\ UNCHANGED size
    /\ req' = [req EXCEPT !.pc = "idle"]
    /\ UNCHANGED <<data, want, wantSize>>

\* extfsk_read: the bytes it returns, none for an offset it cannot reach.
Read(off, len) ==
    IF CanSeek(off) THEN FileRead(Seek(off), len) ELSE [k \in {} |-> Zero]

BlocksOf(n) == (n + BlockSize - 1) \div BlockSize

\* The blocks that lie behind the new end are given back, the one it is in stays
\* as it is.
Punched(n) ==
    [p \in Positions |-> IF p >= BlocksOf(n) * BlockSize THEN Zero ELSE data[p]]

\* Truncate that gives no block back.
TruncateKeeps(n) ==
    /\ req.pc = "idle" /\ n <= MaxSize
    /\ size' = n /\ wantSize' = n
    /\ want' = [p \in Positions |-> IF p < n THEN want[p] ELSE Zero]
    /\ req' = NoReq
    /\ UNCHANGED <<data, faults>>

\* extfsk_truncate.
Truncate(n) ==
    /\ req.pc = "idle" /\ n <= MaxSize
    /\ Ragged \/ n >= size \/ n % BlockSize = 0
    /\ data' = IF n < size THEN Punched(n) ELSE data
    /\ \/ /\ size' = n /\ wantSize' = n
          /\ want' = [p \in Positions |-> IF p < n THEN want[p] ELSE Zero]
          /\ UNCHANGED faults
       \/ Fault /\ UNCHANGED <<size, want, wantSize>>
    /\ req' = NoReq

ExtFileInit ==
    /\ data = [p \in Positions |-> Zero] /\ want = data
    /\ size = 0 /\ wantSize = 0
    /\ req = NoReq /\ faults = 0

ExtFileNext ==
    \/ \E off \in 0 .. MaxSize, len \in 1 .. MaxBytes, v \in Values : WriteData(off, len, v)
    \/ WriteSize
    \/ \E n \in 0 .. MaxSize : Truncate(n)

ExtFileSpec == ExtFileInit /\ [][ExtFileNext]_extFileVars

(***************************************************************************)
(* Properties.                                                              *)
(***************************************************************************)
PosixRead(off, len) ==
    [k \in 0 .. Lesser(len, wantSize - off) - 1 |-> want[off + k]]

\* After any writes and truncations a read of any range returns the bytes POSIX
\* says: what was written last, zeros where nothing was, and nothing behind the
\* end (extfsk_write, extfsk_truncate and extfsk_read together).
ContentsExact == (req.pc = "idle" /\ faults = 0) =>
    /\ size = wantSize
    /\ \A off \in 0 .. MaxSize, len \in 1 .. MaxBytes :
          Far \/ off < OffLimit => Read(off, len) = PosixRead(off, len)

\* No step of a write, one that fails included, makes the file shorter or changes
\* a byte outside its range.
SurroundingsKept == [][req'.len > 0 =>
    /\ size' >= size
    /\ \A p \in Positions :
          (p < size /\ ~(req'.off <= p /\ p < req'.off + req'.len)) => data'[p] = data[p]]_extFileVars

==============================================================================
