----------------------------- MODULE AlignedIO -----------------------------
(***************************************************************************)
(* fskit_pread and fskit_pwrite (bridge/ntfs_device_fskit.c): requests of    *)
(* any bytes, carried out with transfers of whole blocks.  A block of which  *)
(* the request covers a part is read into a buffer, and for a write changed   *)
(* there and written back.                                                   *)
(*                                                                         *)
(* One request runs at a time, under the bridge lock.  It may fail between   *)
(* any two transfers, and a transfer that fails may have been done in part.   *)
(***************************************************************************)
EXTENDS Integers

CONSTANTS
    BlockSize,      \* io->block_size, the unit the device insists on
    BlockCount,     \* io->block_count
    MinQuantum,     \* 512
    MaxQuantum,     \* NFSK_ALIGN_MAX
    Errors,         \* what a callback may return, other than 0
    MaxCount,       \* bound: bytes of a request
    MaxRequests     \* bound: requests of a behaviour

EINVAL == -22
EROFS  == -30

Size == BlockSize * BlockCount      \* of the device, in bytes

ASSUME AlignedAssumption ==
    /\ {BlockSize, BlockCount, MinQuantum, MaxQuantum} \subseteq Nat \ {0}
    /\ MinQuantum <= MaxQuantum
    /\ Errors \subseteq Int \ {0}
    /\ {MaxCount, MaxRequests} \subseteq Nat

VARIABLES
    readonly,   \* io->readonly
    device,     \* the device: address -> byte
    before,     \* for the properties: the device when the request began
    req,        \* the request: kind, first byte, end after truncation
    cur,        \* the first byte not yet done
    phase,      \* what is done next
    tmp,        \* the buffer of one block
    out,        \* the caller's buffer, by distance from the first byte
    ret,        \* the value the caller of the bridge sees: bytes, or -errno
    sent,       \* the last transfer
    n           \* requests so far

alignedVars == <<readonly, device, before, req, cur, phase, tmp, out, ret, sent, n>>

(***************************************************************************)
(* nfsk_align_quantum and nfsk_clamp_end.                                   *)
(***************************************************************************)
PowerOfTwo(x) == \E k \in 0 .. x : x = 2 ^ k

Al == IF MinQuantum <= BlockSize /\ BlockSize <= MaxQuantum /\ PowerOfTwo(BlockSize)
      THEN BlockSize
      ELSE MinQuantum

Limit == BlockCount * Al

\* ClampEnd one block too far.
ClampEndLate(off, end) ==
    IF off >= Limit THEN off ELSE IF end > Limit + Al THEN Limit + Al ELSE end

ClampEnd(off, end) ==
    IF off >= Limit THEN off ELSE IF end > Limit THEN Limit ELSE end

Down(x) == x - (x % Al)

(***************************************************************************)
(* The device (the callbacks of nfsk_blockio).                              *)
(***************************************************************************)
Addresses == 0 .. Size - 1

\* The bytes of a device never written, and those of a request's payload.
OldByte(a)  == a
NewByte(k)  == Size + k

Accepts(base, len) ==
    /\ base % BlockSize = 0 /\ len % BlockSize = 0
    /\ base + len <= Size

\* The transfer is refused, or fails.
Rc(base, len) == IF Accepts(base, len) THEN Errors ELSE {EINVAL}

Block(d, base, len) == [k \in 0 .. len - 1 |-> d[base + k]]

Stored(base, len, bytes) ==
    [a \in Addresses |-> IF a \in base .. base + len - 1 THEN bytes[a - base] ELSE device[a]]

Sends(kind, base, len) == sent' = [kind |-> kind, base |-> base, len |-> len]

\* The write of a block-aligned range fails after some of its blocks.
StoredInPart(base, len, bytes) ==
    \E k \in {j \in 0 .. len - 1 : j % BlockSize = 0} :
        device' = IF Accepts(base, len) THEN Stored(base, k, bytes) ELSE device

(***************************************************************************)
(* The requests.                                                            *)
(***************************************************************************)
\* What follows once everything before c is done.
PhaseAt(c, end) ==
    IF c = end THEN "done"
    ELSE IF c % Al # 0 \/ end - c < Al THEN "part"
    ELSE "whole"

Begin(kind, off, count) ==
    /\ phase = "idle" /\ n < MaxRequests /\ n' = n + 1
    /\ before' = device
    /\ LET end == ClampEnd(off, off + count) IN
       /\ req' = [kind |-> kind, off |-> off, end |-> end]
       /\ \/ /\ kind = "write" /\ readonly /\ count > 0
             /\ phase' = "idle" /\ ret' = EROFS
          \/ /\ ~(kind = "write" /\ readonly) \/ count = 0
             /\ end <= off /\ phase' = "idle" /\ ret' = 0
          \/ /\ ~(kind = "write" /\ readonly)
             /\ end > off /\ phase' = PhaseAt(off, end) /\ ret' = 0
    /\ cur' = off
    /\ out' = [k \in {} |-> 0]
    /\ UNCHANGED <<readonly, device, tmp, sent>>

Advance(k) ==
    /\ cur' = cur + k
    /\ phase' = PhaseAt(cur + k, req.end)
    /\ UNCHANGED ret

\* errno = -rc, and the caller is given -errno.
Fail(rc) == phase' = "failed" /\ ret' = rc /\ UNCHANGED cur

Took == UNCHANGED <<readonly, before, req, n>>

\* The bytes of the block that holds cur, from cur to the end of the request
\* or of the block.
PartBase == Down(cur)
PartLen  == IF Al - (cur - PartBase) > req.end - cur
            THEN req.end - cur ELSE Al - (cur - PartBase)

\* The aligned bytes from cur on.
WholeLen == Down(req.end - cur)

Copied(bytes, skip, len) ==
    out' = [k \in DOMAIN out \cup (cur - req.off) .. (cur - req.off + len - 1) |->
               IF k \in DOMAIN out THEN out[k] ELSE bytes[skip + k - (cur - req.off)]]

\* ReadPart that copies from the start of the block.
ReadPartUnskipped ==
    /\ phase = "part" /\ req.kind = "read"
    /\ Sends("read", PartBase, Al)
    /\ Accepts(PartBase, Al)
    /\ Copied(Block(device, PartBase, Al), 0, PartLen)
    /\ Advance(PartLen)
    /\ Took /\ UNCHANGED <<device, tmp>>

\* The head or the tail of a read.
ReadPart ==
    /\ phase = "part" /\ req.kind = "read"
    /\ Sends("read", PartBase, Al)
    /\ \/ /\ Accepts(PartBase, Al)
          /\ tmp' = Block(device, PartBase, Al)
          /\ Copied(tmp', cur - PartBase, PartLen)
          /\ Advance(PartLen)
       \/ \E rc \in Rc(PartBase, Al) : Fail(rc) /\ UNCHANGED <<tmp, out>>
    /\ Took /\ UNCHANGED device

ReadWhole ==
    /\ phase = "whole" /\ req.kind = "read"
    /\ Sends("read", cur, WholeLen)
    /\ \/ /\ Accepts(cur, WholeLen)
          /\ Copied(Block(device, cur, WholeLen), 0, WholeLen)
          /\ Advance(WholeLen)
       \/ \E rc \in Rc(cur, WholeLen) : Fail(rc) /\ UNCHANGED out
    /\ Took /\ UNCHANGED <<device, tmp>>

\* WritePartFetch that trusts the buffer it has.
WritePartNoFetch ==
    /\ phase = "part" /\ req.kind = "write"
    /\ phase' = "put" /\ UNCHANGED <<tmp, ret, cur, sent>>
    /\ Took /\ UNCHANGED <<device, out>>

\* The head or the tail of a write: the block is read, the bytes of the request
\* are laid over it, and it is written back.
WritePartFetch ==
    /\ phase = "part" /\ req.kind = "write"
    /\ Sends("read", PartBase, Al)
    /\ \/ /\ Accepts(PartBase, Al)
          /\ tmp' = Block(device, PartBase, Al)
          /\ phase' = "put" /\ UNCHANGED <<ret, cur>>
       \/ \E rc \in Rc(PartBase, Al) : Fail(rc) /\ UNCHANGED tmp
    /\ Took /\ UNCHANGED <<device, out>>

\* Overlaid that takes the bytes from the start of the request.
OverlaidFromStart ==
    [k \in 0 .. Al - 1 |->
        IF PartBase + k \in cur .. cur + PartLen - 1
        THEN NewByte(PartBase + k - cur) ELSE tmp[k]]

Overlaid ==
    [k \in 0 .. Al - 1 |->
        IF PartBase + k \in cur .. cur + PartLen - 1
        THEN NewByte(PartBase + k - req.off) ELSE tmp[k]]

WritePartPut ==
    /\ phase = "put"
    /\ Sends("write", PartBase, Al)
    /\ tmp' = Overlaid
    /\ \/ /\ Accepts(PartBase, Al)
          /\ device' = Stored(PartBase, Al, tmp')
          /\ Advance(PartLen)
       \/ \E rc \in Rc(PartBase, Al) : Fail(rc) /\ StoredInPart(PartBase, Al, tmp')
    /\ Took /\ UNCHANGED out

WriteWhole ==
    /\ phase = "whole" /\ req.kind = "write"
    /\ Sends("write", cur, WholeLen)
    /\ LET bytes == [k \in 0 .. WholeLen - 1 |-> NewByte(cur + k - req.off)] IN
       \/ /\ Accepts(cur, WholeLen)
          /\ device' = Stored(cur, WholeLen, bytes)
          /\ Advance(WholeLen)
       \/ \E rc \in Rc(cur, WholeLen) : Fail(rc) /\ StoredInPart(cur, WholeLen, bytes)
    /\ Took /\ UNCHANGED <<out, tmp>>

\* The request returns what it moved, or its error.
Return ==
    /\ phase \in {"done", "failed"} /\ phase' = "idle"
    /\ ret' = IF phase = "done" THEN req.end - req.off ELSE ret
    /\ UNCHANGED <<readonly, device, before, req, cur, tmp, out, sent, n>>

\* The bound on the requests is reached.
NoMoreRequests == phase = "idle" /\ n = MaxRequests /\ UNCHANGED alignedVars

AlignedInit ==
    /\ readonly \in BOOLEAN
    /\ device = [a \in Addresses |-> OldByte(a)] /\ before = device
    /\ req = [kind |-> "none", off |-> 0, end |-> 0]
    /\ cur = 0 /\ phase = "idle" /\ ret = 0 /\ n = 0
    /\ tmp = [k \in 0 .. Al - 1 |-> OldByte(0)]
    /\ out = [k \in {} |-> 0]
    /\ sent = [kind |-> "read", base |-> 0, len |-> 0]

\* libntfs asks for ranges that begin on the device, and may end beyond it.
AlignedNext ==
    \/ \E kind \in {"read", "write"}, off \in 0 .. Size, count \in 0 .. MaxCount :
          Begin(kind, off, count)
    \/ ReadPart \/ ReadWhole
    \/ WritePartFetch \/ WritePartPut \/ WriteWhole
    \/ Return
    \/ NoMoreRequests

AlignedSpec == AlignedInit /\ [][AlignedNext]_alignedVars

(***************************************************************************)
(* Properties.                                                              *)
(***************************************************************************)
\* Whatever fails and wherever it stops, the bytes around a write keep their
\* value, those of a block that is read, changed and written back included; on
\* a device mounted read-only all bytes do.
NeighboursKept ==
    \A a \in Addresses :
        (readonly \/ req.kind # "write" \/ a < req.off \/ a >= req.end) =>
            device[a] = before[a]

\* A byte of a write is as it was or has its own new value; everything before
\* cur has the new one, so a write that returns its length is complete.
WrittenInOrder ==
    (req.kind = "write" /\ ~readonly) =>
        \A a \in Addresses : (req.off <= a /\ a < req.end) =>
            /\ device[a] \in {before[a], NewByte(a - req.off)}
            /\ a < cur => device[a] = NewByte(a - req.off)

\* What a read has copied is what the device holds, at the right place.
ReadIsExact ==
    req.kind = "read" =>
        /\ \A k \in DOMAIN out : out[k] = device[req.off + k]
        /\ phase = "done" => DOMAIN out = 0 .. req.end - req.off - 1

\* The device is asked for whole blocks of its own, within its bounds.
TransfersAligned ==
    /\ sent.base % BlockSize = 0 /\ sent.len % BlockSize = 0
    /\ sent.base + sent.len <= Size

============================================================================
