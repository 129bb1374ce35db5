--------------------------- MODULE AlignedIOProofs ---------------------------
(***************************************************************************)
(* For any block size, any size of the device, any requests and failures:     *)
(* requests of bytes carried out with transfers of whole blocks read and       *)
(* write exactly the bytes they name.                                        *)
(***************************************************************************)
EXTENDS AlignedIO, TLAPS

(***************************************************************************)
(* Rounding.                                                                *)
(***************************************************************************)
LEMMA AlPositive == Al \in Nat \ {0}
BY AlignedAssumption DEF Al

LEMMA SizePositive == Size \in Nat
BY AlignedAssumption DEF Size

\* Rounding down stays within a quantum.
LEMMA DownNear ==
    ASSUME NEW x \in Nat
    PROVE  Down(x) \in Int /\ Down(x) <= x /\ x - Down(x) < Al
<1>1. x % Al \in 0 .. Al - 1
  BY AlPositive
<1>2. QED
  BY <1>1, AlPositive DEF Down

LEMMA Division ==
    ASSUME NEW x \in Nat, NEW b \in Nat \ {0}
    PROVE  \E q \in Nat : x - (x % b) = q * b
<1>1. x % b = x - b * (x \div b)
  OBVIOUS
<1>2. x \div b \in Nat
  OBVIOUS
<1>3. PICK q \in Nat : q = x \div b
  BY <1>2
<1>4. x % b = x - b * q
  BY <1>1, <1>3
<1>5. PICK r \in Int : r = x % b
  OBVIOUS
<1>6. q * b \in Int /\ b * q = q * b
  OBVIOUS
<1>7. x - r = q * b
  BY <1>4, <1>5, <1>6
<1>8. QED
  BY <1>5, <1>7

LEMMA DownAligned ==
    ASSUME NEW x \in Nat
    PROVE  \E q \in Nat : Down(x) = q * Al
<1>1. PICK q \in Nat : x - (x % Al) = q * Al
  BY AlPositive, Division
<1>2. QED
  BY <1>1 DEF Down

LEMMA MultipleAligned ==
    ASSUME NEW q \in Nat, NEW b \in Nat \ {0}
    PROVE  (q * b) % b = 0
OBVIOUS

LEMMA MultiplesApart ==
    ASSUME NEW b \in Nat \ {0}, NEW q \in Nat, NEW k \in Nat, q * b < k * b
    PROVE  q * b + b <= k * b
<1>1. q < k
  OBVIOUS
<1>2. q + 1 <= k
  BY <1>1
<1>3. (q + 1) * b <= k * b
  BY <1>2
<1>4. QED
  BY <1>3

(***************************************************************************)
(* What holds between two calls of the device.                              *)
(***************************************************************************)
Bytes(lo, hi) == {k \in Nat : lo <= k /\ k < hi}

Requests == [kind : {"none", "read", "write"}, off : Nat, end : Nat]

Typed ==
    /\ req \in Requests /\ cur \in Nat
    /\ phase \in {"idle", "part", "whole", "put", "done", "failed"}
    /\ before \in [Addresses -> Int] /\ device \in [Addresses -> Int]

\* What is done is a prefix of the request, and a part that is being put is one
\* of a write to a device that takes it.
Progress ==
    /\ phase # "idle" => req.off <= cur /\ cur <= req.end /\ req.kind \in {"read", "write"}
    /\ phase \in {"part", "whole", "put"} => cur < req.end
    /\ phase = "done" => cur = req.end
    /\ readonly /\ req.kind = "write" => device = before /\ phase = "idle"
    /\ phase = "put" => req.kind = "write" /\ Accepts(PartBase, Al)

\* The buffer of a part that is being put holds what the device does.
Buffered == phase = "put" => tmp = Block(device, PartBase, Al)

\* What a read has filled in is what comes before cur.
Filled ==
    req.kind = "read" =>
        /\ device = before
        /\ phase # "idle" => DOMAIN out = Bytes(0, cur - req.off)
        /\ \A k \in DOMAIN out : k \in Nat /\ out[k] = device[req.off + k]

AlignedInv ==
    Typed /\ Progress /\ Buffered /\ Filled /\ NeighboursKept /\ WrittenInOrder

(***************************************************************************)
(* The pieces of a request.                                                 *)
(***************************************************************************)
LEMMA PartFits ==
    ASSUME Typed, Progress, phase \in {"part", "put"}
    PROVE  /\ PartBase \in Int /\ PartLen \in Nat \ {0}
           /\ PartBase <= cur /\ cur + PartLen <= PartBase + Al
           /\ cur + PartLen <= req.end
<1>1. cur \in Nat /\ req.end \in Nat /\ cur < req.end
  BY DEF Typed, Progress, Requests
<1>2. PartBase \in Int /\ PartBase <= cur /\ cur - PartBase < Al
  BY <1>1, DownNear DEF PartBase
<1>3. QED
  BY <1>1, <1>2, AlPositive DEF PartLen

LEMMA WholeFits ==
    ASSUME Typed, Progress, phase = "whole"
    PROVE  WholeLen \in Nat /\ cur + WholeLen <= req.end
<1>1. cur \in Nat /\ req.end \in Nat /\ req.end - cur \in Nat
  BY DEF Typed, Progress, Requests
<1>2. PICK q \in Nat : WholeLen = q * Al
  BY <1>1, DownAligned DEF WholeLen
<1>3. WholeLen \in Nat
  BY <1>2, AlPositive
<1>4. WholeLen <= req.end - cur
  BY <1>1, DownNear DEF WholeLen
<1>5. QED
  BY <1>1, <1>3, <1>4

\* A step over len bytes of a request is progress.
LEMMA AdvanceProgress ==
    ASSUME Typed, Progress, phase # "idle", NEW len \in Nat, cur + len <= req.end,
           Advance(len), Took, ~(readonly /\ req.kind = "write")
    PROVE  /\ Progress' /\ Buffered' /\ cur' \in Nat
           /\ phase' \in {"done", "part", "whole"}
<1>1. cur' = cur + len /\ cur' \in Nat /\ cur' <= req.end /\ req' = req /\ readonly' = readonly
  BY DEF Advance, Took, Typed
<1>2. phase' = PhaseAt(cur', req.end)
  BY <1>1 DEF Advance
<1>3. /\ phase' \in {"done", "part", "whole"}
      /\ phase' = "done" <=> cur' = req.end
  BY <1>2 DEF PhaseAt
<1>4. QED
  BY <1>1, <1>3 DEF Progress, Buffered, Typed, Requests

\* Copying what the device holds from cur on extends what is filled in.
LEMMA CopyFills ==
    ASSUME Typed, Progress, Filled, req.kind = "read", phase # "idle",
           NEW len \in Nat, NEW skip \in Int, NEW bytes,
           Copied(bytes, skip, len), UNCHANGED <<device, before, req>>, cur' = cur + len,
           \A k \in Bytes(0, len) : bytes[skip + k] = device[cur + k]
    PROVE  Filled'
<1> DEFINE o == req.off
<1>1. o \in Nat /\ cur \in Nat /\ o <= cur
  BY DEF Typed, Progress, Requests
<1>2. DOMAIN out = Bytes(0, cur - o) /\ \A k \in DOMAIN out : out[k] = device[o + k]
  BY DEF Filled
<1>3. DOMAIN out' = Bytes(0, cur' - o)
  BY <1>1, <1>2 DEF Copied, Bytes
<1>4. ASSUME NEW k \in DOMAIN out' PROVE k \in Nat /\ out'[k] = device[o + k]
  <2>1. k \in Nat /\ k < cur + len - o
    BY <1>1, <1>3 DEF Bytes
  <2>2. out'[k] = IF k \in DOMAIN out THEN out[k] ELSE bytes[skip + k - (cur - o)]
    BY <1>3, <1>4 DEF Copied
  <2>3. CASE k \in DOMAIN out
    BY <1>2, <2>1, <2>2, <2>3
  <2>4. CASE k \notin DOMAIN out
    <3>1. k - (cur - o) \in Bytes(0, len)
      BY <1>1, <1>2, <2>1, <2>4 DEF Bytes
    <3>2. /\ skip + k - (cur - o) = skip + (k - (cur - o))
          /\ cur + (k - (cur - o)) = o + k
      BY <1>1, <2>1
    <3>3. QED
      BY <2>1, <2>2, <2>4, <3>1, <3>2
  <2>5. QED
    BY <2>3, <2>4
<1>5. QED
  BY <1>2, <1>3, <1>4 DEF Filled

\* What a transfer of a write may do to the device: the bytes from lo on, up to
\* hi, get their new values or stay.
Writes(lo, hi, d) ==
    /\ d = [a \in Addresses |-> d[a]]
    /\ \A a \in Addresses :
          \/ d[a] = device[a]
          \/ lo <= a /\ a < hi /\ d[a] = NewByte(a - req.off)

AllWritten(lo, hi, d) ==
    \A a \in Addresses : lo <= a /\ a < hi => d[a] = NewByte(a - req.off)

LEMMA WritesKeep ==
    ASSUME AlignedInv, phase # "idle", req.kind = "write", UNCHANGED <<readonly, before, req>>,
           NEW hi \in Nat, hi <= req.end, cur' \in cur .. hi,
           Writes(cur, hi, device'), AllWritten(cur, cur', device')
    PROVE  device' \in [Addresses -> Int] /\ NeighboursKept' /\ WrittenInOrder'
<1>1. /\ ~readonly /\ req.off \in Nat /\ req.end \in Nat /\ cur \in Nat /\ req.off <= cur
      /\ \A a \in Addresses : a \in Nat
      /\ Size \in Nat
  BY SizePositive DEF AlignedInv, Typed, Progress, Requests, Addresses
<1>2. device' \in [Addresses -> Int]
  <2>1. device' = [a \in Addresses |-> device'[a]]
    BY SMT DEF Writes
  <2>2. \A a \in Addresses : device'[a] \in Int
    BY <1>1 DEF Writes, NewByte, AlignedInv, Typed
  <2>3. QED
    BY <2>1, <2>2
<1>3. ASSUME NEW a \in Addresses, a < req.off \/ a >= req.end PROVE device'[a] = before[a]
  BY <1>1, <1>3 DEF Writes, AlignedInv, NeighboursKept
<1>4. ASSUME NEW a \in Addresses, req.off <= a, a < req.end
      PROVE  device'[a] \in {before[a], NewByte(a - req.off)}
  BY <1>1, <1>4 DEF Writes, AlignedInv, WrittenInOrder
<1>5. ASSUME NEW a \in Addresses, req.off <= a, a < req.end, a < cur'
      PROVE  device'[a] = NewByte(a - req.off)
  <2>1. CASE a < cur
    BY <1>1, <1>5, <2>1 DEF Writes, AlignedInv, WrittenInOrder
  <2>2. CASE ~(a < cur)
    BY <1>1, <1>5, <2>2 DEF AllWritten
  <2>3. QED
    BY <2>1, <2>2
<1>6. QED
  BY <1>1, <1>2, <1>3, <1>4, <1>5 DEF NeighboursKept, WrittenInOrder, NewByte

\* Putting a part back, whole or up to some block.
LEMMA PartWrites ==
    ASSUME AlignedInv, phase = "put", NEW k \in 0 .. Al
    PROVE  /\ Writes(cur, cur + PartLen, Stored(PartBase, k, Overlaid))
           /\ k = Al => AllWritten(cur, cur + PartLen, Stored(PartBase, k, Overlaid))
<1> DEFINE d == Stored(PartBase, k, Overlaid)
<1>1. /\ PartBase \in Int /\ PartLen \in Nat \ {0} /\ PartBase <= cur
      /\ cur + PartLen <= PartBase + Al /\ cur + PartLen <= req.end
      /\ cur \in Nat /\ req.off \in Nat /\ Al \in Nat
      /\ \A a \in Addresses : a \in Nat
      /\ tmp = Block(device, PartBase, Al)
  BY PartFits, AlPositive DEF AlignedInv, Typed, Requests, Buffered, Addresses
<1>2. ASSUME NEW a \in Addresses, a \in PartBase .. PartBase + Al - 1
      PROVE  Overlaid[a - PartBase] =
                 IF a \in cur .. cur + PartLen - 1 THEN NewByte(a - req.off) ELSE device[a]
  <2>1. PICK j \in 0 .. Al - 1 : a - PartBase = j /\ PartBase + j = a
    BY <1>1, <1>2
  <2>2. tmp[j] = device[a]
    BY <1>1, <2>1 DEF Block
  <2>3. ASSUME a \in cur .. cur + PartLen - 1 PROVE Overlaid[j] = NewByte(a - req.off)
    BY <1>1, <2>1, <2>3, SizePositive DEF Overlaid, NewByte
  <2>4. ASSUME a \notin cur .. cur + PartLen - 1 PROVE Overlaid[j] = device[a]
    BY <1>1, <2>1, <2>2, <2>4 DEF Overlaid
  <2>5. QED
    BY <2>1, <2>3, <2>4
<1>3. ASSUME NEW a \in Addresses
      PROVE  d[a] = IF a \in cur .. cur + PartLen - 1 /\ a < PartBase + k
                    THEN NewByte(a - req.off) ELSE device[a]
  <2>1. d[a] = IF a \in PartBase .. PartBase + k - 1 THEN Overlaid[a - PartBase] ELSE device[a]
    BY DEF Stored
  <2>2. CASE a \in PartBase .. PartBase + k - 1
    <3>1. a \in PartBase .. PartBase + Al - 1 /\ a < PartBase + k
      BY <1>1, <2>2
    <3>2. QED
      BY <1>2, <2>1, <2>2, <3>1
  <2>3. CASE a \notin PartBase .. PartBase + k - 1
    <3>1. ~(a \in cur .. cur + PartLen - 1 /\ a < PartBase + k)
      BY <1>1, <2>3
    <3>2. QED
      BY <2>1, <2>3, <3>1
  <2>4. QED
    BY <2>2, <2>3
<1>4. d = [a \in Addresses |-> d[a]]
  BY DEF Stored
<1>5. Writes(cur, cur + PartLen, d)
  BY <1>1, <1>3, <1>4 DEF Writes
<1>6. k = Al => AllWritten(cur, cur + PartLen, d)
  BY <1>1, <1>3 DEF AllWritten
<1>7. QED
  BY <1>5, <1>6

\* The same of the blocks in the middle of a write.
LEMMA WholeWrites ==
    ASSUME AlignedInv, phase = "whole", NEW k \in 0 .. WholeLen, NEW bytes,
           bytes = [j \in 0 .. WholeLen - 1 |-> NewByte(cur + j - req.off)]
    PROVE  /\ Writes(cur, cur + WholeLen, Stored(cur, k, bytes))
           /\ k = WholeLen => AllWritten(cur, cur + WholeLen, Stored(cur, k, bytes))
<1> DEFINE d == Stored(cur, k, bytes)
<1>1. /\ WholeLen \in Nat /\ cur \in Nat /\ req.off \in Nat
      /\ \A a \in Addresses : a \in Nat
  BY WholeFits DEF AlignedInv, Typed, Requests, Addresses
<1>2. ASSUME NEW a \in Addresses
      PROVE  d[a] = IF a \in cur .. cur + k - 1 THEN NewByte(a - req.off) ELSE device[a]
  <2>1. d[a] = IF a \in cur .. cur + k - 1 THEN bytes[a - cur] ELSE device[a]
    BY DEF Stored
  <2>2. ASSUME a \in cur .. cur + k - 1 PROVE bytes[a - cur] = NewByte(a - req.off)
    <3>1. a - cur \in 0 .. WholeLen - 1 /\ cur + (a - cur) - req.off = a - req.off
      BY <1>1, <2>2
    <3>2. QED
      BY <3>1
  <2>3. QED
    BY <2>1, <2>2
<1>3. d = [a \in Addresses |-> d[a]]
  BY DEF Stored
<1>4. Writes(cur, cur + WholeLen, d)
  BY <1>1, <1>2, <1>3 DEF Writes
<1>5. k = WholeLen => AllWritten(cur, cur + WholeLen, d)
  BY <1>1, <1>2 DEF AllWritten
<1>6. QED
  BY <1>4, <1>5

(***************************************************************************)
(* The steps.                                                               *)
(***************************************************************************)
LEMMA AlignedInvInit == AlignedInit => AlignedInv
<1> SUFFICES ASSUME AlignedInit PROVE AlignedInv
  OBVIOUS
<1>1. device \in [Addresses -> Int] /\ before = device
  BY SizePositive DEF AlignedInit, Addresses, OldByte
<1>2. QED
  BY <1>1 DEF AlignedInit, AlignedInv, Typed, Requests, Progress, Buffered, Filled, NeighboursKept,
     WrittenInOrder

LEMMA BeginInv ==
    ASSUME AlignedInv, NEW kind \in {"read", "write"}, NEW off \in 0 .. Size,
           NEW count \in 0 .. MaxCount, Begin(kind, off, count)
    PROVE  AlignedInv'
<1> DEFINE end == ClampEnd(off, off + count)
<1>1. off \in Nat /\ count \in Nat /\ Limit \in Nat
  BY AlignedAssumption, SizePositive, AlPositive DEF Limit
<1>2. end \in Nat
  BY <1>1 DEF ClampEnd
<1>3. /\ req' = [kind |-> kind, off |-> off, end |-> end] /\ cur' = off
      /\ before' = device /\ device' = device /\ readonly' = readonly
      /\ out' = [k \in {} |-> 0]
      /\ \/ phase' = "idle"
         \/ end > off /\ phase' = PhaseAt(off, end) /\ ~(kind = "write" /\ readonly)
  BY DEF Begin
<1>4. /\ phase' \in {"idle", "part", "whole"}
      /\ phase' # "idle" => off < end /\ ~(kind = "write" /\ readonly)
  BY <1>1, <1>2, <1>3 DEF PhaseAt
<1>5. Typed'
  BY <1>1, <1>2, <1>3, <1>4 DEF AlignedInv, Typed, Requests
<1>6. Progress' /\ Buffered'
  BY <1>1, <1>2, <1>3, <1>4 DEF Progress, Buffered
<1>7. Filled'
  BY <1>1, <1>3 DEF Filled, Bytes
<1>8. NeighboursKept' /\ WrittenInOrder'
  BY <1>1, <1>3 DEF NeighboursKept, WrittenInOrder, Addresses
<1>9. QED
  BY <1>5, <1>6, <1>7, <1>8 DEF AlignedInv

\* A call that fails and has not written.
LEMMA FailInv ==
    ASSUME AlignedInv, phase # "idle", phase' = "failed", Took, UNCHANGED <<device, cur, out>>
    PROVE  AlignedInv'
BY DEF AlignedInv, Typed, Progress, Buffered, Filled, NeighboursKept, WrittenInOrder, Took

LEMMA ReadPartInv == ASSUME AlignedInv, ReadPart PROVE AlignedInv'
<1>1. /\ phase = "part" /\ req.kind = "read" /\ Took /\ UNCHANGED device
  BY DEF ReadPart
<1>2. CASE \E rc \in Rc(PartBase, Al) : Fail(rc) /\ UNCHANGED <<tmp, out>>
  BY <1>1, <1>2, FailInv DEF Fail
<1>3. CASE /\ Advance(PartLen)
           /\ Copied(Block(device, PartBase, Al), cur - PartBase, PartLen)
  <2>1. /\ PartBase \in Int /\ PartLen \in Nat /\ cur \in Nat /\ Al \in Nat
        /\ PartBase <= cur /\ cur + PartLen <= PartBase + Al /\ cur + PartLen <= req.end
    BY <1>1, PartFits, AlPositive DEF AlignedInv, Typed
  <2>2. Progress' /\ Buffered' /\ cur' \in Nat /\ phase' \in {"done", "part", "whole"}
    BY <1>1, <1>3, <2>1, AdvanceProgress DEF AlignedInv
  <2>3. ASSUME NEW k \in Bytes(0, PartLen)
        PROVE  Block(device, PartBase, Al)[cur - PartBase + k] = device[cur + k]
    <3>1. cur - PartBase + k \in 0 .. Al - 1 /\ PartBase + (cur - PartBase + k) = cur + k
      BY <2>1, <2>3 DEF Bytes
    <3>2. QED
      BY <3>1 DEF Block
  <2>4. UNCHANGED <<device, before, req, readonly>> /\ cur' = cur + PartLen
    BY <1>1, <1>3 DEF Took, Advance
  <2>5. Filled'
    BY <1>1, <1>3, <2>1, <2>3, <2>4, CopyFills DEF AlignedInv
  <2>6. QED
    BY <1>1, <2>2, <2>4, <2>5 DEF AlignedInv, Typed, NeighboursKept, WrittenInOrder
<1>4. QED
  BY <1>2, <1>3 DEF ReadPart

LEMMA ReadWholeInv == ASSUME AlignedInv, ReadWhole PROVE AlignedInv'
<1>1. /\ phase = "whole" /\ req.kind = "read" /\ Took /\ UNCHANGED device
  BY DEF ReadWhole
<1>2. CASE \E rc \in Rc(cur, WholeLen) : Fail(rc) /\ UNCHANGED out
  BY <1>1, <1>2, FailInv DEF Fail
<1>3. CASE Advance(WholeLen) /\ Copied(Block(device, cur, WholeLen), 0, WholeLen)
  <2>1. WholeLen \in Nat /\ cur \in Nat /\ cur + WholeLen <= req.end
    BY <1>1, WholeFits DEF AlignedInv, Typed
  <2>2. Progress' /\ Buffered' /\ cur' \in Nat /\ phase' \in {"done", "part", "whole"}
    BY <1>1, <1>3, <2>1, AdvanceProgress DEF AlignedInv
  <2>3. ASSUME NEW k \in Bytes(0, WholeLen)
        PROVE  Block(device, cur, WholeLen)[0 + k] = device[cur + k]
    BY <2>1, <2>3 DEF Bytes, Block
  <2>4. UNCHANGED <<device, before, req, readonly>> /\ cur' = cur + WholeLen
    BY <1>1, <1>3 DEF Took, Advance
  <2>5. Filled'
    BY <1>1, <1>3, <2>1, <2>3, <2>4, CopyFills DEF AlignedInv
  <2>6. QED
    BY <1>1, <2>2, <2>4, <2>5 DEF AlignedInv, Typed, NeighboursKept, WrittenInOrder
<1>4. QED
  BY <1>2, <1>3 DEF ReadWhole

LEMMA WritePartFetchInv == ASSUME AlignedInv, WritePartFetch PROVE AlignedInv'
<1>1. /\ phase = "part" /\ req.kind = "write" /\ Took /\ UNCHANGED <<device, out>>
  BY DEF WritePartFetch
<1>2. CASE \E rc \in Rc(PartBase, Al) : Fail(rc) /\ UNCHANGED tmp
  BY <1>1, <1>2, FailInv DEF Fail
<1>3. CASE /\ Accepts(PartBase, Al) /\ tmp' = Block(device, PartBase, Al)
           /\ phase' = "put" /\ UNCHANGED <<ret, cur>>
  <2>1. PartBase' = PartBase
    BY <1>3 DEF PartBase
  <2>2. QED
    BY <1>1, <1>3, <2>1 DEF AlignedInv, Typed, Progress, Buffered, Filled, NeighboursKept,
       WrittenInOrder, Took
<1>4. QED
  BY <1>2, <1>3 DEF WritePartFetch

\* A write that ends, or fails, having changed only bytes of its own.
LEMMA WriteInv ==
    ASSUME AlignedInv, phase # "idle", req.kind = "write", Took, NEW len \in Nat,
           cur + len <= req.end, Writes(cur, cur + len, device'),
           \/ Advance(len) /\ AllWritten(cur, cur + len, device')
           \/ phase' = "failed" /\ UNCHANGED cur
    PROVE  AlignedInv'
<1>1. cur \in Nat /\ UNCHANGED <<readonly, before, req>>
  BY DEF AlignedInv, Typed, Took
<1>2. CASE Advance(len) /\ AllWritten(cur, cur + len, device')
  <2>1. cur' = cur + len
    BY <1>2 DEF Advance
  <2>2. Progress' /\ Buffered' /\ cur' \in Nat /\ phase' \in {"done", "part", "whole"}
    BY <1>2, AdvanceProgress DEF AlignedInv, Progress
  <2>3. device' \in [Addresses -> Int] /\ NeighboursKept' /\ WrittenInOrder'
    BY <1>1, <1>2, <2>1, WritesKeep DEF AlignedInv
  <2>4. QED
    BY <1>1, <2>2, <2>3 DEF AlignedInv, Typed, Filled
<1>3. CASE phase' = "failed" /\ UNCHANGED cur
  <2>1. AllWritten(cur, cur', device')
    BY <1>1, <1>3 DEF AllWritten, Addresses
  <2>2. device' \in [Addresses -> Int] /\ NeighboursKept' /\ WrittenInOrder'
    BY <1>1, <1>3, <2>1, WritesKeep DEF AlignedInv
  <2>3. QED
    BY <1>1, <1>3, <2>2 DEF AlignedInv, Typed, Progress, Buffered, Filled
<1>4. QED
  BY <1>2, <1>3

LEMMA WritePartPutInv == ASSUME AlignedInv, WritePartPut PROVE AlignedInv'
<1>1. /\ phase = "put" /\ req.kind = "write" /\ Took /\ tmp' = Overlaid /\ Al \in Nat
      /\ Accepts(PartBase, Al)
  BY AlPositive DEF WritePartPut, AlignedInv, Progress
<1>2. PartLen \in Nat /\ cur + PartLen <= req.end
  BY <1>1, PartFits DEF AlignedInv
<1>3. CASE device' = Stored(PartBase, Al, Overlaid) /\ Advance(PartLen)
  <2>1. Writes(cur, cur + PartLen, device') /\ AllWritten(cur, cur + PartLen, device')
    BY <1>1, <1>3, PartWrites
  <2>2. QED
    BY <1>1, <1>2, <1>3, <2>1, WriteInv
<1>4. CASE \E rc \in Rc(PartBase, Al) : Fail(rc) /\ StoredInPart(PartBase, Al, Overlaid)
  <2>1. PICK k \in 0 .. Al : device' = Stored(PartBase, k, Overlaid)
    BY <1>1, <1>4 DEF StoredInPart
  <2>2. Writes(cur, cur + PartLen, device')
    BY <1>1, <2>1, PartWrites
  <2>3. phase' = "failed" /\ UNCHANGED cur
    BY <1>4 DEF Fail
  <2>4. QED
    BY <1>1, <1>2, <2>2, <2>3, WriteInv
<1>5. QED
  BY <1>1, <1>3, <1>4 DEF WritePartPut

LEMMA WriteWholeInv == ASSUME AlignedInv, WriteWhole PROVE AlignedInv'
<1> DEFINE bytes == [j \in 0 .. WholeLen - 1 |-> NewByte(cur + j - req.off)]
<1>1. phase = "whole" /\ req.kind = "write" /\ Took
  BY DEF WriteWhole
<1>2. WholeLen \in Nat /\ cur + WholeLen <= req.end
  BY <1>1, WholeFits DEF AlignedInv
<1>3. CASE device' = Stored(cur, WholeLen, bytes) /\ Advance(WholeLen)
  <2>1. Writes(cur, cur + WholeLen, device') /\ AllWritten(cur, cur + WholeLen, device')
    BY <1>1, <1>2, <1>3, WholeWrites
  <2>2. QED
    BY <1>1, <1>2, <1>3, <2>1, WriteInv
<1>4. CASE \E rc \in Rc(cur, WholeLen) : Fail(rc) /\ StoredInPart(cur, WholeLen, bytes)
  <2>1. phase' = "failed" /\ UNCHANGED cur
    BY <1>4 DEF Fail
  <2>2. CASE UNCHANGED device
    BY <1>1, <1>2, <2>1, <2>2, WriteInv DEF Writes, AlignedInv, Typed
  <2>3. ASSUME NEW k \in 0 .. WholeLen, device' = Stored(cur, k, bytes) PROVE AlignedInv'
    <3>1. Writes(cur, cur + WholeLen, device')
      BY <1>1, <2>3, WholeWrites
    <3>2. QED
      BY <1>1, <1>2, <2>1, <3>1, WriteInv
  <2>4. QED
    BY <1>2, <1>4, <2>2, <2>3 DEF StoredInPart
<1>5. QED
  BY <1>3, <1>4 DEF WriteWhole

LEMMA ReturnInv == ASSUME AlignedInv, Return PROVE AlignedInv'
BY DEF Return, AlignedInv, Typed, Progress, Buffered, Filled, NeighboursKept, WrittenInOrder

LEMMA AlignedStep == AlignedInv /\ [AlignedNext]_alignedVars => AlignedInv'
<1> SUFFICES ASSUME AlignedInv, [AlignedNext]_alignedVars PROVE AlignedInv'
  OBVIOUS
<1>1. CASE UNCHANGED alignedVars
  BY <1>1 DEF alignedVars, AlignedInv, Typed, Progress, Buffered, PartBase, Filled, NeighboursKept,
     WrittenInOrder
<1>2. CASE AlignedNext
  BY <1>1, <1>2, BeginInv, ReadPartInv, ReadWholeInv, WritePartFetchInv, WritePartPutInv,
     WriteWholeInv, ReturnInv DEF AlignedNext, NoMoreRequests
<1>3. QED
  BY <1>1, <1>2

LEMMA AlignedAlways == AlignedSpec => []AlignedInv
BY AlignedInvInit, AlignedStep, PTL DEF AlignedSpec

\* Whatever fails, wherever it stops, a write changes no byte but its own: the
\* rest of a block that fskit_pwrite reads, changes and writes back is kept.
THEOREM NeighboursKeptCorrect == AlignedSpec => []NeighboursKept
<1>1. AlignedInv => NeighboursKept
  BY DEF AlignedInv
<1>2. QED
  BY <1>1, AlignedAlways, PTL

\* What fskit_pwrite has done is a prefix of the request, byte for byte; behind
\* it a byte has its old or its own new value.
THEOREM WrittenInOrderCorrect == AlignedSpec => []WrittenInOrder
<1>1. AlignedInv => WrittenInOrder
  BY DEF AlignedInv
<1>2. QED
  BY <1>1, AlignedAlways, PTL

\* What fskit_pread has copied is what the device holds, in its place; when it is
\* done the whole request is.
THEOREM ReadIsExactCorrect == AlignedSpec => []ReadIsExact
<1>1. AlignedInv => ReadIsExact
  <2> SUFFICES ASSUME AlignedInv, req.kind = "read" PROVE ReadIsExact
    BY DEF ReadIsExact
  <2>1. \A k \in DOMAIN out : out[k] = device[req.off + k]
    BY DEF AlignedInv, Filled
  <2>2. ASSUME phase = "done" PROVE DOMAIN out = 0 .. req.end - req.off - 1
    <3>1. DOMAIN out = Bytes(0, req.end - req.off) /\ req.end - req.off \in Nat
      BY <2>2 DEF AlignedInv, Filled, Progress, Typed, Requests
    <3>2. QED
      BY <3>1 DEF Bytes
  <2>3. QED
    BY <2>1, <2>2 DEF ReadIsExact
<1>2. QED
  BY <1>1, AlignedAlways, PTL

(***************************************************************************)
(* The transfers, on a device whose blocks are a quantum the bridge can use.   *)
(***************************************************************************)
Supported == MinQuantum <= BlockSize /\ BlockSize <= MaxQuantum /\ PowerOfTwo(BlockSize)

InRange ==
    /\ phase # "idle" => req.end <= Size
    /\ phase = "whole" => cur % BlockSize = 0

SentInv == AlignedInv /\ InRange /\ TransfersAligned

LEMMA SupportedAl == Supported => Al = BlockSize /\ Limit = Size /\ BlockSize \in Nat \ {0}
BY AlignedAssumption DEF Supported, Al, Limit, Size

LEMMA PartAligned ==
    ASSUME Supported, SentInv, phase \in {"part", "put"}, NEW kind, Sends(kind, PartBase, Al)
    PROVE  TransfersAligned'
<1>1. Al = BlockSize /\ BlockSize \in Nat \ {0} /\ BlockCount \in Nat /\ cur \in Nat
  BY SupportedAl, AlignedAssumption DEF SentInv, AlignedInv, Typed
<1>2. PICK q \in Nat : PartBase = q * BlockSize
  BY <1>1, DownAligned DEF PartBase
<1>3. PartBase % BlockSize = 0
  BY <1>1, <1>2, MultipleAligned
<1>4. BlockSize % BlockSize = 0
  <2>1. (1 * BlockSize) % BlockSize = 0
    BY <1>1, MultipleAligned
  <2>2. QED
    BY <1>1, <2>1
<1>5. PartBase + BlockSize <= Size
  <2>1. PartBase <= cur /\ cur < Size
    <3>1. cur < req.end /\ req.end <= Size /\ req.end \in Nat
      BY DEF SentInv, AlignedInv, Typed, Requests, Progress, InRange
    <3>2. PartBase <= cur
      BY PartFits DEF SentInv, AlignedInv
    <3>3. QED
      BY <1>1, <3>1, <3>2, SizePositive
  <2>2. Size = BlockCount * BlockSize /\ q * BlockSize \in Nat
    BY <1>1 DEF Size
  <2>3. q * BlockSize < BlockCount * BlockSize
    BY <1>1, <1>2, <2>1, <2>2, SizePositive
  <2>4. QED
    BY <1>1, <1>2, <2>2, <2>3, MultiplesApart
<1>6. sent' = [kind |-> kind, base |-> PartBase, len |-> BlockSize]
  BY <1>1 DEF Sends
<1>7. QED
  BY <1>3, <1>4, <1>5, <1>6 DEF TransfersAligned

LEMMA WholeAligned ==
    ASSUME Supported, SentInv, phase = "whole", NEW kind, Sends(kind, cur, WholeLen)
    PROVE  TransfersAligned'
<1>1. Al = BlockSize /\ BlockSize \in Nat \ {0} /\ cur \in Nat /\ req.end \in Nat
      /\ req.end - cur \in Nat
  BY SupportedAl DEF SentInv, AlignedInv, Typed, Requests, Progress
<1>2. PICK q \in Nat : WholeLen = q * BlockSize
  BY <1>1, DownAligned DEF WholeLen
<1>3. WholeLen % BlockSize = 0
  BY <1>1, <1>2, MultipleAligned
<1>4. cur % BlockSize = 0
  BY DEF SentInv, InRange
<1>5. cur + WholeLen <= Size
  <2>1. WholeLen \in Nat /\ cur + WholeLen <= req.end /\ req.end <= Size
    BY WholeFits DEF SentInv, AlignedInv, InRange
  <2>2. QED
    BY <1>1, <2>1, SizePositive
<1>6. sent' = [kind |-> kind, base |-> cur, len |-> WholeLen]
  BY DEF Sends
<1>7. QED
  BY <1>3, <1>4, <1>5, <1>6 DEF TransfersAligned

\* A step of a request keeps its range, and sends whole blocks next.
LEMMA RangeKept ==
    ASSUME Supported, SentInv, phase # "idle", req' = req, Typed',
           \/ phase' \in {"put", "failed", "idle"}
           \/ phase' = PhaseAt(cur', req.end)
    PROVE  InRange'
<1>1. Al = BlockSize /\ BlockSize \in Nat \ {0}
  BY SupportedAl
<1>2. phase' = "whole" => cur' % BlockSize = 0
  BY <1>1 DEF PhaseAt
<1>3. QED
  BY <1>2 DEF SentInv, InRange

LEMMA SentStep ==
    ASSUME Supported, SentInv, [AlignedNext]_alignedVars
    PROVE  SentInv'
<1>1. AlignedInv'
  BY AlignedStep DEF SentInv
<1>2. Typed'
  BY <1>1 DEF AlignedInv
<1>3. CASE UNCHANGED alignedVars
  BY <1>1, <1>3 DEF alignedVars, SentInv, InRange, TransfersAligned
<1>4. ASSUME NEW kind \in {"read", "write"}, NEW off \in 0 .. Size, NEW count \in 0 .. MaxCount,
             Begin(kind, off, count)
      PROVE  SentInv'
  <2> DEFINE end == ClampEnd(off, off + count)
  <2>1. Al = BlockSize /\ Limit = Size /\ BlockSize \in Nat \ {0} /\ off \in Nat /\ count \in Nat
    BY SupportedAl, SizePositive, AlignedAssumption
  <2>2. end > off => end <= Size
    BY <2>1, SizePositive DEF ClampEnd
  <2>3. req' = [kind |-> kind, off |-> off, end |-> end] /\ cur' = off /\ sent' = sent
    BY <1>4 DEF Begin
  <2>4. \/ phase' = "idle"
        \/ end > off /\ phase' = PhaseAt(off, end)
    BY <1>4 DEF Begin
  <2>5. InRange'
    BY <2>1, <2>2, <2>3, <2>4 DEF InRange, PhaseAt
  <2>6. QED
    BY <1>1, <2>3, <2>5 DEF SentInv, TransfersAligned
<1>5. CASE ReadPart \/ WritePartFetch \/ WritePartPut
  <2>1. TransfersAligned'
    BY <1>5, PartAligned DEF ReadPart, WritePartFetch, WritePartPut
  <2>2. InRange'
    <3>1. phase \in {"part", "put"} /\ req' = req
      BY <1>5 DEF ReadPart, WritePartFetch, WritePartPut, Took
    <3>2. \/ phase' \in {"put", "failed"}
          \/ phase' = PhaseAt(cur', req.end)
      BY <1>5 DEF ReadPart, WritePartFetch, WritePartPut, Advance, Fail
    <3>3. QED
      BY <1>2, <3>1, <3>2, RangeKept
  <2>3. QED
    BY <1>1, <2>1, <2>2 DEF SentInv
<1>6. CASE ReadWhole \/ WriteWhole
  <2>1. TransfersAligned'
    BY <1>6, WholeAligned DEF ReadWhole, WriteWhole
  <2>2. InRange'
    <3>1. phase = "whole" /\ req' = req
      BY <1>6 DEF ReadWhole, WriteWhole, Took
    <3>2. \/ phase' = "failed"
          \/ phase' = PhaseAt(cur', req.end)
      BY <1>6 DEF ReadWhole, WriteWhole, Advance, Fail
    <3>3. QED
      BY <1>2, <3>1, <3>2, RangeKept
  <2>3. QED
    BY <1>1, <2>1, <2>2 DEF SentInv
<1>7. CASE Return
  BY <1>1, <1>7 DEF Return, SentInv, InRange, TransfersAligned
<1>8. QED
  BY <1>3, <1>4, <1>5, <1>6, <1>7 DEF AlignedNext, NoMoreRequests

\* On a device whose block size is a power of two between 512 and 4096
\* (nfsk_align_quantum takes no other), every transfer asked for, those that fail
\* included, is of whole blocks and ends on the device.
THEOREM TransfersAlignedCorrect == ASSUME Supported PROVE AlignedSpec => []TransfersAligned
<1>1. AlignedInit => SentInv
  <2> SUFFICES ASSUME AlignedInit PROVE SentInv
    OBVIOUS
  <2>1. AlignedInv
    BY AlignedInvInit
  <2>2. 0 % BlockSize = 0 /\ Size \in Nat
    <3>1. (0 * BlockSize) % BlockSize = 0 /\ 0 * BlockSize = 0
      BY SupportedAl, MultipleAligned
    <3>2. QED
      BY <3>1, SizePositive
  <2>3. QED
    BY <2>1, <2>2 DEF AlignedInit, SentInv, InRange, TransfersAligned
<1>2. SentInv /\ [AlignedNext]_alignedVars => SentInv'
  BY SentStep
<1>3. SentInv => TransfersAligned
  BY DEF SentInv
<1>4. QED
  BY <1>1, <1>2, <1>3, PTL DEF AlignedSpec
=============================================================================
