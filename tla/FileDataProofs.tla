---------------------------- MODULE FileDataProofs ----------------------------
(***************************************************************************)
(* The data of files.                                                       *)
(*                                                                         *)
(* ext, for files and blocks of any size: while every write ends at the end of *)
(* the file or beyond it, every cut is at the edge of a block, and no offset is *)
(* beyond what ext2_off_t holds, the file is what POSIX says.                  *)
(*                                                                         *)
(* NTFS, for files, buffers, streams and values of any size: what is read is    *)
(* what the disk holds, and the bridge implements PosixFile.                   *)
(***************************************************************************)
EXTENDS ExtFileData, NtfsFile, SequenceTheorems, TLAPS

(***************************************************************************)
(* ext.                                                                     *)
(***************************************************************************)
\* Requests for which the bridge is right (ext_overwrite shows the others).
Tame == ~InPlace /\ ~Far /\ ~Ragged

Bytes == [Positions -> Nat]

DataTyped ==
    /\ data \in Bytes /\ want \in Bytes
    /\ size \in 0 .. MaxSize /\ wantSize \in 0 .. MaxSize /\ faults \in Nat
    /\ req \in [off : Nat, len : Nat, pc : {"idle", "size"}]

\* Nothing is left behind the end; the end of a write that has been done is the
\* end of the file already.
EndInv ==
    /\ \A p \in Positions : p >= size => data[p] = Zero
    /\ req.pc = "size" => size = req.off + req.len

\* Until a call fails the file is the one wanted.
AgreeInv == faults = 0 => data = want /\ size = wantSize

DataInv == DataTyped /\ EndInv /\ AgreeInv

LEMMA SeekTame ==
    ASSUME NEW off \in Nat, off < OffLimit
    PROVE  Seek(off) = off /\ CanSeek(off)
<1>1. OffLimit \in Nat \ {0} /\ 2 * OffLimit \in Nat \ {0} /\ off < 2 * OffLimit
  BY ExtFileAssumption
<1>2. off % (2 * OffLimit) = off
  BY <1>1
<1>3. QED
  BY <1>2 DEF Seek, CanSeek

LEMMA BlocksExact ==
    ASSUME NEW n \in Nat, n % BlockSize = 0
    PROVE  BlocksOf(n) * BlockSize = n
<1> DEFINE b == BlockSize
<1>1. b \in Nat \ {0}
  BY ExtFileAssumption
<1>2. PICK q \in Nat : n = q * b
  <2>1. n % b = n - (b * (n \div b))
    BY <1>1
  <2>2. PICK q \in Nat : q = n \div b
    BY <1>1
  <2>3. b * q = n /\ b * q = q * b
    BY <1>1, <2>1, <2>2
  <2>4. QED
    BY <2>2, <2>3
<1>3. ((q * b) + (b - 1)) \div b = q
  BY <1>1
<1>4. (n + b - 1) \div b = q
  BY <1>1, <1>2, <1>3
<1>5. QED
  BY <1>2, <1>4 DEF BlocksOf

\* Filling len bytes from off on, the size following.
LEMMA FillKeeps ==
    ASSUME NEW f \in Bytes, NEW off \in Nat, NEW len \in Nat, NEW v \in Nat
    PROVE  /\ Filled(f, off, len, v) \in Bytes
           /\ \A p \in Positions :
                 Filled(f, off, len, v)[p] = IF off <= p /\ p < off + len THEN v ELSE f[p]
BY DEF Filled, Bytes

\* The steps of a write.
LEMMA WriteDataKeeps ==
    ASSUME Tame, DataInv, NEW off \in 0 .. MaxSize, NEW len \in 1 .. MaxBytes, NEW v \in Values,
           WriteData(off, len, v)
    PROVE  /\ DataInv'
           /\ size' >= size
           /\ \A p \in Positions : ~(off <= p /\ p < off + len) => data'[p] = data[p]
           /\ req'.off = off /\ req'.len = len
<1>1. /\ off \in Nat /\ len \in Nat \ {0} /\ v \in Nat /\ MaxSize \in Nat
      /\ size \in 0 .. MaxSize /\ wantSize \in 0 .. MaxSize /\ faults \in Nat
      /\ data \in Bytes /\ want \in Bytes
      /\ \A p \in Positions : p \in Nat
  BY ExtFileAssumption DEF DataInv, DataTyped, Positions
<1>2. off + len <= MaxSize /\ off < OffLimit /\ off + len >= size /\ req.pc = "idle"
  BY DEF WriteData, Asked, Tame
<1>3. Seek(off) = off /\ CanSeek(off)
  BY <1>1, <1>2, SeekTame
<1>4. CASE /\ FileWrite(off, len, v)
           /\ want' = Filled(want, off, len, v)
           /\ wantSize' = IF len > 0 THEN Greater(wantSize, off + len) ELSE wantSize
           /\ req' = [off |-> off, len |-> len, pc |-> "size"]
           /\ UNCHANGED faults
  <2>1. size' = off + len /\ (size = wantSize => wantSize' = size') /\ wantSize' \in 0 .. MaxSize
    BY <1>1, <1>2, <1>4 DEF FileWrite, Greater
  <2>2. /\ data' \in Bytes /\ want' \in Bytes
        /\ \A p \in Positions : data'[p] = IF off <= p /\ p < off + len THEN v ELSE data[p]
    <3>1. data' = Filled(data, off, len, v) /\ want' = Filled(want, off, len, v) /\ len \in Nat
      BY <1>1, <1>4 DEF FileWrite
    <3>2. \A f \in Bytes : /\ Filled(f, off, len, v) \in Bytes
                           /\ \A p \in Positions : Filled(f, off, len, v)[p] =
                                 IF off <= p /\ p < off + len THEN v ELSE f[p]
      BY <1>1, <3>1, FillKeeps
    <3>3. QED
      BY <1>1, <3>1, <3>2
  <2>3. data = want => data' = want'
    BY <1>4 DEF FileWrite
  <2>4. DataTyped'
    BY <1>1, <1>2, <1>4, <2>1, <2>2 DEF DataTyped
  <2>5. EndInv'
    BY <1>1, <1>2, <1>4, <2>1, <2>2 DEF EndInv, DataInv
  <2>6. AgreeInv'
    BY <1>4, <2>1, <2>3 DEF AgreeInv, DataInv
  <2>7. QED
    BY <1>1, <1>2, <1>4, <2>1, <2>2, <2>4, <2>5, <2>6 DEF DataInv
<1>5. ASSUME Fault, NEW k \in 0 .. len, FileWrite(off, k, v),
             req' = [off |-> off, len |-> len, pc |-> "idle"], UNCHANGED <<want, wantSize>>
      PROVE  /\ DataInv' /\ size' >= size
             /\ \A p \in Positions : ~(off <= p /\ p < off + len) => data'[p] = data[p]
  <2>1. size' >= size /\ size' \in 0 .. MaxSize /\ off + k <= off + len
        /\ (size' >= off + k \/ k = 0)
    BY <1>1, <1>2, <1>5 DEF FileWrite, Greater
  <2>2. /\ data' \in Bytes
        /\ \A p \in Positions : data'[p] = IF off <= p /\ p < off + k THEN v ELSE data[p]
    <3>1. data' = Filled(data, off, k, v) /\ k \in Nat
      BY <1>1, <1>5 DEF FileWrite
    <3>2. \A f \in Bytes : /\ Filled(f, off, k, v) \in Bytes
                           /\ \A p \in Positions : Filled(f, off, k, v)[p] =
                                 IF off <= p /\ p < off + k THEN v ELSE f[p]
      BY <1>1, <3>1, FillKeeps
    <3>3. QED
      BY <1>1, <3>1, <3>2
  <2>3. faults' \in Nat \ {0}
    BY <1>1, <1>5 DEF Fault
  <2>4. DataTyped'
    BY <1>1, <1>5, <2>1, <2>2, <2>3 DEF DataTyped
  <2>5. EndInv'
    BY <1>1, <1>2, <1>5, <2>1, <2>2 DEF EndInv, DataInv
  <2>6. QED
    BY <1>1, <2>1, <2>2, <2>3, <2>4, <2>5 DEF DataInv, AgreeInv
<1>6. QED
  <2>1. \/ /\ FileWrite(off, len, v)
           /\ want' = Filled(want, off, len, v)
           /\ wantSize' = IF len > 0 THEN Greater(wantSize, off + len) ELSE wantSize
           /\ req' = [off |-> off, len |-> len, pc |-> "size"]
           /\ UNCHANGED faults
        \/ /\ Fault /\ \E k \in 0 .. len : FileWrite(off, k, v)
           /\ req' = [off |-> off, len |-> len, pc |-> "idle"]
           /\ UNCHANGED <<want, wantSize>>
    BY <1>3 DEF WriteData
  <2>2. CASE /\ Fault /\ \E k \in 0 .. len : FileWrite(off, k, v)
             /\ req' = [off |-> off, len |-> len, pc |-> "idle"]
             /\ UNCHANGED <<want, wantSize>>
    BY <1>5, <2>2
  <2>3. QED
    BY <1>4, <2>1, <2>2

LEMMA WriteSizeKeeps ==
    ASSUME DataInv, WriteSize
    PROVE  DataInv' /\ size' = size /\ data' = data
<1>1. size' = size /\ UNCHANGED <<data, want, wantSize>> /\ req' = [req EXCEPT !.pc = "idle"]
      /\ (faults' = faults \/ Fault)
  BY DEF WriteSize, DataInv, EndInv
<1>2. faults' \in Nat /\ (faults' = 0 => faults = 0)
  BY <1>1 DEF Fault, DataInv, DataTyped
<1>3. QED
  BY <1>1, <1>2 DEF DataInv, DataTyped, EndInv, AgreeInv

LEMMA TruncateKeepsInv ==
    ASSUME Tame, DataInv, NEW n \in 0 .. MaxSize, Truncate(n)
    PROVE  DataInv'
<1>1. /\ n \in Nat /\ MaxSize \in Nat /\ size \in 0 .. MaxSize /\ faults \in Nat
      /\ data \in Bytes /\ want \in Bytes
      /\ \A p \in Positions : p \in Nat
  BY ExtFileAssumption DEF DataInv, DataTyped, Positions
<1>2. n >= size \/ n % BlockSize = 0
  BY DEF Truncate, Tame
<1>3. /\ data' \in Bytes
      /\ \A p \in Positions : data'[p] = IF p < n THEN data[p] ELSE Zero
  <2>1. CASE n < size
    <3>1. BlocksOf(n) * BlockSize = n
      BY <1>1, <1>2, <2>1, BlocksExact
    <3>2. data' = [p \in Positions |-> IF p >= n THEN Zero ELSE data[p]]
      BY <2>1, <3>1 DEF Truncate, Punched
    <3>3. QED
      BY <1>1, <3>2 DEF Bytes, Zero
  <2>2. CASE n >= size
    BY <1>1, <2>2 DEF Truncate, DataInv, EndInv
  <2>3. QED
    BY <1>1, <2>1, <2>2
<1>4. req' = NoReq
  BY DEF Truncate
<1>5. CASE /\ size' = n /\ wantSize' = n
           /\ want' = [p \in Positions |-> IF p < n THEN want[p] ELSE Zero]
           /\ UNCHANGED faults
  <2>1. want' \in Bytes
    BY <1>1, <1>5 DEF Bytes, Zero
  <2>2. data = want => data' = want'
    <3> SUFFICES ASSUME data = want PROVE data' = want'
      OBVIOUS
    <3>1. \A p \in Positions : data'[p] = want'[p]
      BY <1>3, <1>5
    <3>2. QED
      BY <1>3, <2>1, <3>1 DEF Bytes
  <2>3. QED
    BY <1>1, <1>3, <1>4, <1>5, <2>1, <2>2 DEF DataInv, DataTyped, EndInv, AgreeInv, NoReq
<1>6. CASE Fault /\ UNCHANGED <<size, want, wantSize>>
  <2>1. faults' \in Nat \ {0}
    BY <1>1, <1>6 DEF Fault
  <2>2. QED
    BY <1>1, <1>3, <1>4, <1>6, <2>1 DEF DataInv, DataTyped, EndInv, AgreeInv, NoReq, Zero
<1>7. QED
  BY <1>5, <1>6 DEF Truncate

LEMMA DataStep ==
    ASSUME Tame, DataInv, [ExtFileNext]_extFileVars
    PROVE  DataInv'
<1>1. CASE UNCHANGED extFileVars
  BY <1>1 DEF extFileVars, DataInv, DataTyped, EndInv, AgreeInv
<1>2. CASE ExtFileNext
  BY <1>2, WriteDataKeeps, WriteSizeKeeps, TruncateKeepsInv DEF ExtFileNext
<1>3. QED
  BY <1>1, <1>2

LEMMA DataAlways == ASSUME Tame PROVE ExtFileSpec => []DataInv
<1>1. ExtFileInit => DataInv
  BY ExtFileAssumption DEF ExtFileInit, DataInv, DataTyped, EndInv, AgreeInv, Bytes, Positions, NoReq, Zero
<1>2. DataInv /\ [ExtFileNext]_extFileVars => DataInv'
  BY DataStep
<1>3. QED
  BY <1>1, <1>2, PTL DEF ExtFileSpec

\* extfsk_read returns, after any writes and truncations of this kind of which none
\* has failed, the bytes and the end that POSIX says, wherever it begins.
THEOREM ContentsExactCorrect == ASSUME Tame PROVE ExtFileSpec => []ContentsExact
<1>1. Tame /\ DataInv => ContentsExact
  <2> SUFFICES ASSUME Tame, DataInv, faults = 0 PROVE ContentsExact
    BY DEF ContentsExact
  <2>1. size = wantSize /\ data = want
    BY DEF DataInv, AgreeInv
  <2>2. ASSUME NEW off \in 0 .. MaxSize, NEW len \in 1 .. MaxBytes, Far \/ off < OffLimit
        PROVE  Read(off, len) = PosixRead(off, len)
    <3>1. off \in Nat /\ Seek(off) = off /\ CanSeek(off)
      BY <2>2, SeekTame, ExtFileAssumption DEF Tame
    <3>2. QED
      BY <2>1, <3>1 DEF Read, FileRead, PosixRead
  <2>3. QED
    BY <2>1, <2>2 DEF ContentsExact
<1>2. QED
  BY <1>1, DataAlways, PTL

\* A write of the kind, whether it fails or not and wherever, neither shortens the
\* file nor changes a byte it does not name.
THEOREM SurroundingsKeptCorrect == ASSUME Tame PROVE ExtFileSpec => SurroundingsKept
<1> DEFINE Kept == req'.len > 0 =>
        /\ size' >= size
        /\ \A p \in Positions :
              (p < size /\ ~(req'.off <= p /\ p < req'.off + req'.len)) => data'[p] = data[p]
<1>1. ASSUME Tame, DataInv, [ExtFileNext]_extFileVars PROVE [Kept]_extFileVars
  <2>1. size \in Int
    BY <1>1 DEF DataInv, DataTyped
  <2>2. ASSUME NEW off \in 0 .. MaxSize, NEW len \in 1 .. MaxBytes, NEW v \in Values,
               WriteData(off, len, v)
        PROVE  [Kept]_extFileVars
    BY <1>1, <2>1, <2>2, WriteDataKeeps
  <2>3. CASE WriteSize
    BY <1>1, <2>1, <2>3, WriteSizeKeeps
  <2>4. ASSUME NEW n \in 0 .. MaxSize, Truncate(n) PROVE Kept
    BY <2>4 DEF Truncate, NoReq
  <2>5. QED
    BY <1>1, <2>2, <2>3, <2>4 DEF ExtFileNext
<1>2. Tame /\ DataInv /\ [ExtFileNext]_extFileVars => [Kept]_extFileVars
  BY <1>1
<1>3. QED
  BY <1>2, DataAlways, PTL DEF ExtFileSpec, SurroundingsKept

(***************************************************************************)
(* NTFS: the requests and the files.                                        *)
(***************************************************************************)
LEMMA RequestShapes ==
    ASSUME NEW q \in FileRequests
    PROVE  /\ q.op \in {"write", "read", "attrs", "set", "remove", "get", "list"}
           /\ q.op = "write" => /\ q.off \in Nat /\ q.buf \in Seq(Nat) /\ q.buf # << >>
                                /\ q.off + Len(q.buf) <= MaxEnd
           /\ q.op = "read" => q.off \in Nat /\ q.len \in Nat
           /\ q.op = "attrs" => /\ q.which \subseteq {"size", "times", "flags"}
                                /\ q.size \in 0 .. MaxEnd /\ q.mtime \in Nat /\ q.hidden \in BOOLEAN
           /\ q.op \in {"set", "remove", "get"} => q.name \in XNames
           /\ q.op = "set" => q.value \in Seq(Nat)
<1>1. ASSUME q \in [op : {"write"}, off : 0 .. MaxEnd, buf : Bufs], q.off + Len(q.buf) <= MaxEnd
      PROVE  /\ q.op = "write" /\ q.off \in Nat /\ q.buf \in Seq(Nat) /\ q.buf # << >>
             /\ q.off + Len(q.buf) <= MaxEnd
  BY <1>1, NtfsFileAssumption
<1>2. ASSUME q \in [op : {"read"}, off : 0 .. MaxEnd, len : 1 .. MaxEnd]
      PROVE  q.op = "read" /\ q.off \in Nat /\ q.len \in Nat
  BY <1>2, NtfsFileAssumption
<1>3. ASSUME q \in [op : {"attrs"}, which : SUBSET {"size", "times", "flags"} \ {{}},
                    size : 0 .. MaxEnd, mtime : Times, hidden : BOOLEAN]
      PROVE  /\ q.op = "attrs" /\ q.which \subseteq {"size", "times", "flags"}
             /\ q.size \in 0 .. MaxEnd /\ q.mtime \in Nat /\ q.hidden \in BOOLEAN
  BY <1>3, NtfsFileAssumption
<1>4. ASSUME q \in [op : {"set"}, name : XNames, value : XValues]
      PROVE  q.op = "set" /\ q.name \in XNames /\ q.value \in Seq(Nat)
  BY <1>4, NtfsFileAssumption
<1>5. ASSUME q \in [op : {"remove", "get"}, name : XNames]
      PROVE  q.op \in {"remove", "get"} /\ q.name \in XNames
  BY <1>5
<1>6. ASSUME q \in [op : {"list"}] PROVE q.op = "list"
  BY <1>6
<1>7. \/ q \in [op : {"write"}, off : 0 .. MaxEnd, buf : Bufs] /\ q.off + Len(q.buf) <= MaxEnd
      \/ q \in [op : {"read"}, off : 0 .. MaxEnd, len : 1 .. MaxEnd]
      \/ q \in [op : {"attrs"}, which : SUBSET {"size", "times", "flags"} \ {{}},
                size : 0 .. MaxEnd, mtime : Times, hidden : BOOLEAN]
      \/ q \in [op : {"set"}, name : XNames, value : XValues]
      \/ q \in [op : {"remove", "get"}, name : XNames]
      \/ q \in [op : {"list"}]
  BY Zenon DEF FileRequests
<1>8. QED
  BY <1>1, <1>2, <1>3, <1>4, <1>5, <1>6, <1>7

StreamValues == Seq(Nat) \cup {NoStream}

Fields == {"size", "bytes", "mtime", "hidden", "streams"}
IsFile(f) == f = [x \in Fields |-> f[x]]
IsInode(f) == f = [x \in Fields \cup {"init"} |-> f[x]]

\* What is on disk or in memory: all that is seen, and how far it is initialised.
Contents(f) ==
    /\ IsInode(f)
    /\ f.size \in 0 .. MaxEnd /\ f.bytes \in [P!Places -> Nat] /\ f.init \in Nat
    /\ f.mtime \in Nat /\ f.hidden \in BOOLEAN /\ f.streams \in [XNames -> StreamValues]

\* Nothing is left behind the end, and the data of a compressed file is
\* initialised up to there.
Clean(f) ==
    /\ \A p \in P!Places : p >= f.size => f.bytes[p] = 0
    /\ kind = "compressed" => f.init = f.size

LEMMA PlacesNat == MaxEnd \in Nat /\ \A p \in P!Places : p \in Nat
BY NtfsFileAssumption DEF P!Places

LEMMA ContentsFacts ==
    ASSUME NEW f, Contents(f)
    PROVE  /\ f.size \in 0 .. MaxEnd /\ f.init \in Nat
           /\ f.bytes \in [P!Places -> Nat]
           /\ f.bytes = [p \in P!Places |-> f.bytes[p]] /\ \A p \in P!Places : f.bytes[p] \in Nat
<1>1. f.size \in 0 .. MaxEnd /\ f.init \in Nat /\ f.bytes \in [P!Places -> Nat]
  BY DEF Contents
<1> HIDE DEF P!Places
<1>2. QED
  BY <1>1

LEMMA SeenIsFile ==
    ASSUME NEW f
    PROVE  /\ IsFile(Seen(f))
           /\ Seen(f).size = f.size /\ Seen(f).bytes = f.bytes /\ Seen(f).mtime = f.mtime
           /\ Seen(f).hidden = f.hidden /\ Seen(f).streams = f.streams
BY DEF Seen, Fields, IsFile

\* Files that agree in every field.
LEMMA SameFile ==
    ASSUME NEW f, NEW g, IsFile(f), IsFile(g), f.size = g.size, f.bytes = g.bytes,
           f.mtime = g.mtime, f.hidden = g.hidden, f.streams = g.streams
    PROVE  f = g
BY DEF Fields, IsFile

\* What the operators of the promise do to the fields of a file.
LEMMA WrittenFields ==
    ASSUME NEW f, IsFile(f), NEW off, NEW buf, NEW n
    PROVE  LET h == P!Written(f, off, buf, n) IN
           /\ IsFile(h)
           /\ h.size = IF n = 0 THEN f.size ELSE P!Bigger(f.size, off + n)
           /\ h.bytes = [p \in P!Places |->
                            IF off <= p /\ p < off + n THEN buf[p - off + 1] ELSE f.bytes[p]]
           /\ h.mtime = f.mtime /\ h.hidden = f.hidden /\ h.streams = f.streams
<1> DEFINE h == P!Written(f, off, buf, n)
<1>1. IsFile(h)
  BY DEF IsFile, Fields, P!Written
<1>2. h.size = (IF n = 0 THEN f.size ELSE P!Bigger(f.size, off + n))
  BY DEF IsFile, Fields, P!Written
<1>3. h.bytes = [p \in P!Places |->
                    IF off <= p /\ p < off + n THEN buf[p - off + 1] ELSE f.bytes[p]]
  BY DEF IsFile, Fields, P!Written
<1>4. h.mtime = f.mtime /\ h.hidden = f.hidden /\ h.streams = f.streams
  BY DEF IsFile, Fields, P!Written
<1>5. QED
  BY <1>1, <1>2, <1>3, <1>4

LEMMA ResizedFields ==
    ASSUME NEW f, IsFile(f), NEW n
    PROVE  LET h == P!Resized(f, n) IN
           /\ IsFile(h) /\ h.size = n
           /\ h.bytes = [p \in P!Places |-> IF p < n THEN f.bytes[p] ELSE 0]
           /\ h.mtime = f.mtime /\ h.hidden = f.hidden /\ h.streams = f.streams
BY DEF IsFile, Fields, P!Resized

LEMMA StampedFields ==
    ASSUME NEW f, IsFile(f)
    PROVE  LET h == P!Stamped(f) IN
           /\ IsFile(h) /\ h.mtime = Now
           /\ h.size = f.size /\ h.bytes = f.bytes /\ h.hidden = f.hidden /\ h.streams = f.streams
BY DEF IsFile, Fields, P!Stamped

LEMMA WithStreamFields ==
    ASSUME NEW f, IsFile(f), NEW name, NEW v
    PROVE  LET h == P!WithStream(f, name, v) IN
           /\ IsFile(h) /\ h.streams = [f.streams EXCEPT ![name] = v]
           /\ h.size = f.size /\ h.bytes = f.bytes /\ h.mtime = f.mtime /\ h.hidden = f.hidden
BY DEF IsFile, Fields, P!WithStream

LEMMA WithAttrsFields ==
    ASSUME NEW f, IsFile(f), NEW q, NEW which
    PROVE  LET h == P!WithAttrs(f, q, which) IN
           /\ IsFile(h)
           /\ h.size = IF "size" \in which THEN q.size ELSE f.size
           /\ h.bytes = IF "size" \in which
                        THEN [p \in P!Places |-> IF p < q.size THEN f.bytes[p] ELSE 0] ELSE f.bytes
           /\ h.mtime = IF "times" \in which THEN q.mtime
                        ELSE IF "size" \in which THEN Now ELSE f.mtime
           /\ h.hidden = IF "flags" \in which THEN q.hidden ELSE f.hidden
           /\ h.streams = f.streams
<1> DEFINE g == IF "size" \in which THEN P!Stamped(P!Resized(f, q.size)) ELSE f
           h == P!WithAttrs(f, q, which)
<1>1. /\ IsFile(g)
      /\ g.size = IF "size" \in which THEN q.size ELSE f.size
      /\ g.bytes = IF "size" \in which
                   THEN [p \in P!Places |-> IF p < q.size THEN f.bytes[p] ELSE 0] ELSE f.bytes
      /\ g.mtime = IF "size" \in which THEN Now ELSE f.mtime
      /\ g.hidden = f.hidden /\ g.streams = f.streams
  BY ResizedFields, StampedFields
<1>2. h = [g EXCEPT !.mtime = IF "times" \in which THEN q.mtime ELSE g.mtime,
                    !.hidden = IF "flags" \in which THEN q.hidden ELSE g.hidden]
  BY DEF P!WithAttrs
<1> HIDE DEF g, h
<1>3. /\ IsFile(h)
      /\ h.mtime = IF "times" \in which THEN q.mtime ELSE g.mtime
      /\ h.hidden = IF "flags" \in which THEN q.hidden ELSE g.hidden
      /\ h.size = g.size /\ h.bytes = g.bytes /\ h.streams = g.streams
  BY <1>1, <1>2 DEF IsFile, Fields
<1>4. QED
  BY <1>1, <1>3 DEF h

\* What of buf is behind its first n.
Rest(buf, n) == SubSeq(buf, n + 1, Len(buf))

\* The same operators on what is in memory.
LEMMA PwrittenFields ==
    ASSUME NEW f, Contents(f), NEW off \in Nat, NEW buf \in Seq(Nat), NEW from \in Nat,
           NEW n \in Nat \ {0}
    PROVE  LET h == Pwritten(f, off, buf, from, n) IN
           /\ IsInode(h)
           /\ h.size = P!Bigger(f.size, off + from + n)
           /\ h.bytes = [p \in P!Places |->
                            IF off + from <= p /\ p < off + from + n
                            THEN Rest(buf, from)[p - (off + from) + 1] ELSE f.bytes[p]]
           /\ h.init = P!Bigger(f.init, off + from + n)
           /\ h.mtime = f.mtime /\ h.hidden = f.hidden /\ h.streams = f.streams
<1> DEFINE rest == Rest(buf, from)
           B == [p \in P!Places |-> IF off + from <= p /\ p < off + from + n
                                    THEN rest[p - (off + from) + 1] ELSE f.bytes[p]]
           h == Pwritten(f, off, buf, from, n)
<1>1. h = [[f EXCEPT !.bytes = B, !.size = P!Bigger(f.size, off + from + n)]
              EXCEPT !.init = P!Bigger(f.init, off + from + n)]
  BY DEF Pwritten, P!Written, Contents, IsInode, Fields, Rest
<1>2. IsInode(f)
  BY DEF Contents
<1> HIDE DEF B, h
<1>3. /\ IsInode(h)
      /\ h.size = P!Bigger(f.size, off + from + n) /\ h.bytes = B
      /\ h.init = P!Bigger(f.init, off + from + n)
      /\ h.mtime = f.mtime /\ h.hidden = f.hidden /\ h.streams = f.streams
  BY <1>1, <1>2 DEF IsInode, Fields
<1>4. QED
  BY <1>3 DEF B, h

LEMMA PwrittenAt ==
    ASSUME NEW f, Contents(f), NEW off \in Nat, NEW buf \in Seq(Nat), NEW from \in Nat,
           NEW n \in Nat \ {0}
    PROVE  LET h == Pwritten(f, off, buf, from, n) IN
           /\ h.size = P!Bigger(f.size, off + from + n)
           /\ \A p \in P!Places : h.bytes[p] = IF off + from <= p /\ p < off + from + n
                                              THEN Rest(buf, from)[p - (off + from) + 1]
                                              ELSE f.bytes[p]
           /\ h.mtime = f.mtime /\ h.hidden = f.hidden /\ h.streams = f.streams
<1> DEFINE h == Pwritten(f, off, buf, from, n)
<1>1. /\ IsInode(h)
      /\ h.size = P!Bigger(f.size, off + from + n)
      /\ h.bytes = [p \in P!Places |->
                       IF off + from <= p /\ p < off + from + n
                       THEN Rest(buf, from)[p - (off + from) + 1] ELSE f.bytes[p]]
      /\ h.init = P!Bigger(f.init, off + from + n)
      /\ h.mtime = f.mtime /\ h.hidden = f.hidden /\ h.streams = f.streams
  BY PwrittenFields
<1> HIDE DEF h
<1>2. \A p \in P!Places : h.bytes[p] = IF off + from <= p /\ p < off + from + n
                                       THEN Rest(buf, from)[p - (off + from) + 1]
                                       ELSE f.bytes[p]
  BY <1>1
<1>3. QED
  BY <1>1, <1>2 DEF h

LEMMA SliceSeen == ASSUME NEW f, NEW off, NEW len PROVE P!Slice(Seen(f), off, len) = P!Slice(f, off, len)
BY SeenIsFile DEF P!Slice

\* A write in two pieces is the write.
LEMMA WrittenPieces ==
    ASSUME NEW f, Contents(f), NEW g, Contents(g), NEW off \in Nat, NEW buf \in Seq(Nat),
           NEW j \in Nat, NEW k \in Nat \ {0}, j + k <= Len(buf),
           Seen(g) = P!Written(Seen(f), off, buf, j)
    PROVE  Seen(Pwritten(g, off, buf, j, k)) = P!Written(Seen(f), off, buf, j + k)
<1> DEFINE rest == Rest(buf, j)
           h == Pwritten(g, off, buf, j, k)
<1>1. /\ Len(buf) \in Nat /\ \A i \in 1 .. Len(buf) : buf[i] \in Nat
  BY LenProperties, ElementOfSeq
<1>2. \A i \in 1 .. k : rest[i] = buf[j + i]
  BY <1>1, SubSeqProperties DEF Rest
<1>3. /\ g.size = IF j = 0 THEN f.size ELSE P!Bigger(f.size, off + j)
      /\ g.bytes = [p \in P!Places |-> IF off <= p /\ p < off + j THEN buf[p - off + 1] ELSE f.bytes[p]]
      /\ g.mtime = f.mtime /\ g.hidden = f.hidden /\ g.streams = f.streams
  BY WrittenFields, SeenIsFile
<1>4. /\ h.size = P!Bigger(g.size, off + j + k)
      /\ h.bytes = [p \in P!Places |->
                       IF off + j <= p /\ p < off + j + k THEN rest[p - (off + j) + 1] ELSE g.bytes[p]]
      /\ h.mtime = g.mtime /\ h.hidden = g.hidden /\ h.streams = g.streams
  BY PwrittenFields
<1> HIDE DEF h, rest
<1>5. h.size = P!Bigger(f.size, off + (j + k))
  BY <1>3, <1>4 DEF P!Bigger, Contents
<1>6. h.bytes = [p \in P!Places |->
                    IF off <= p /\ p < off + (j + k) THEN buf[p - off + 1] ELSE f.bytes[p]]
  <2>1. ASSUME NEW p \in P!Places
        PROVE  h.bytes[p] = IF off <= p /\ p < off + (j + k) THEN buf[p - off + 1] ELSE f.bytes[p]
    <3>1. p \in Nat
      BY NtfsFileAssumption DEF P!Places
    <3>2. CASE off + j <= p /\ p < off + j + k
      <4>1. p - (off + j) + 1 \in 1 .. k /\ j + (p - (off + j) + 1) = p - off + 1
        BY <3>1, <3>2
      <4>2. h.bytes[p] = rest[p - (off + j) + 1]
        BY <1>4, <3>2
      <4>3. rest[p - (off + j) + 1] = buf[j + (p - (off + j) + 1)]
        BY <1>2, <4>1
      <4>4. rest[p - (off + j) + 1] = buf[p - off + 1]
        BY <4>1, <4>3
      <4>5. off <= p /\ p < off + (j + k)
        BY <3>1, <3>2
      <4>6. QED
        BY <4>2, <4>4, <4>5
    <3>3. CASE ~(off + j <= p /\ p < off + j + k)
      BY <1>3, <1>4, <3>1, <3>3
    <3>4. QED
      BY <3>2, <3>3
  <2>2. QED
    BY <1>4, <2>1
<1> DEFINE w == P!Written(Seen(f), off, buf, j + k)
<1>7. /\ IsFile(w) /\ w.size = IF j + k = 0 THEN f.size ELSE P!Bigger(f.size, off + (j + k))
      /\ w.bytes = [p \in P!Places |-> IF off <= p /\ p < off + (j + k)
                                      THEN buf[p - off + 1] ELSE f.bytes[p]]
      /\ w.mtime = f.mtime /\ w.hidden = f.hidden /\ w.streams = f.streams
  BY WrittenFields, SeenIsFile
<1> HIDE DEF w
<1>8. Seen(h) = w
  <2>1. j + k # 0
    OBVIOUS
  <2>2. w.bytes = h.bytes /\ w.size = h.size
    BY <1>5, <1>6, <1>7, <2>1
  <2>3. w.mtime = h.mtime /\ w.hidden = h.hidden /\ w.streams = h.streams
    BY <1>3, <1>4, <1>7
  <2>4. QED
    BY <1>7, <2>2, <2>3, SameFile, SeenIsFile
<1>9. QED
  BY <1>8 DEF h, w

LEMMA WrittenNone ==
    ASSUME NEW f, Contents(f), NEW off \in Nat, NEW buf
    PROVE  P!Written(Seen(f), off, buf, 0) = Seen(f)
<1> DEFINE w == P!Written(Seen(f), off, buf, 0)
<1>1. /\ IsFile(w) /\ w.size = f.size /\ w.mtime = f.mtime /\ w.hidden = f.hidden
      /\ w.streams = f.streams
      /\ w.bytes = [p \in P!Places |->
                       IF off <= p /\ p < off + 0 THEN buf[p - off + 1] ELSE f.bytes[p]]
  BY WrittenFields, SeenIsFile
<1>2. f.bytes = [p \in P!Places |-> f.bytes[p]] /\ \A p \in P!Places : p \in Int
  BY PlacesNat, ContentsFacts
<1> HIDE DEF w
<1>3. w.bytes = f.bytes
  BY <1>1, <1>2
<1>4. w = Seen(f)
  BY <1>1, <1>3, SameFile, SeenIsFile
<1>5. QED
  BY <1>4 DEF w

LEMMA PwrittenContents ==
    ASSUME NEW f, Contents(f), NEW off \in Nat, NEW buf \in Seq(Nat), NEW from \in Nat,
           NEW n \in Nat \ {0}, from + n <= Len(buf), off + from + n <= MaxEnd
    PROVE  /\ Contents(Pwritten(f, off, buf, from, n))
           /\ Clean(f) => Clean(Pwritten(f, off, buf, from, n))
<1> DEFINE h == Pwritten(f, off, buf, from, n)
<1>1. /\ Len(buf) \in Nat /\ \A i \in 1 .. Len(buf) : buf[i] \in Nat
  BY LenProperties, ElementOfSeq
<1>2. \A i \in 1 .. n : Rest(buf, from)[i] \in Nat
  <2>1. \A i \in 1 .. n : Rest(buf, from)[i] = buf[from + i]
    BY <1>1, SubSeqProperties DEF Rest
  <2>2. \A i \in 1 .. n : from + i \in 1 .. Len(buf)
    BY <1>1
  <2>3. QED
    BY <1>1, <2>1, <2>2
<1>3. /\ IsInode(h)
      /\ h.size = P!Bigger(f.size, off + from + n)
      /\ h.bytes = [p \in P!Places |->
                       IF off + from <= p /\ p < off + from + n
                       THEN Rest(buf, from)[p - (off + from) + 1] ELSE f.bytes[p]]
      /\ h.init = P!Bigger(f.init, off + from + n)
      /\ h.mtime = f.mtime /\ h.hidden = f.hidden /\ h.streams = f.streams
  BY PwrittenFields
<1> HIDE DEF h
<1>4. /\ f.size \in 0 .. MaxEnd /\ MaxEnd \in Nat /\ f.init \in Nat /\ f.bytes \in [P!Places -> Nat]
      /\ \A p \in P!Places : p \in Nat
  BY PlacesNat, ContentsFacts
<1>5. h.size \in 0 .. MaxEnd /\ h.init \in Nat
  BY <1>3, <1>4 DEF P!Bigger
<1>6. h.bytes \in [P!Places -> Nat]
  <2>1. ASSUME NEW p \in P!Places, off + from <= p, p < off + from + n
        PROVE  Rest(buf, from)[p - (off + from) + 1] \in Nat
    <3>1. p - (off + from) + 1 \in 1 .. n
      BY <1>4, <2>1
    <3>2. QED
      BY <1>2, <3>1
  <2>2. QED
    BY <1>3, <1>4, <2>1
<1>7. Contents(h)
  BY <1>3, <1>5, <1>6 DEF Contents
<1>8. ASSUME Clean(f) PROVE Clean(h)
  <2>1. \A p \in P!Places : p >= h.size => h.bytes[p] = 0
    BY <1>3, <1>4, <1>8 DEF Clean, P!Bigger
  <2>2. kind = "compressed" => h.init = h.size
    BY <1>3, <1>8 DEF Clean
  <2>3. QED
    BY <2>1, <2>2 DEF Clean
<1>9. QED
  BY <1>7, <1>8 DEF h

LEMMA TruncatedFields ==
    ASSUME NEW f, Contents(f), NEW n \in 0 .. MaxEnd
    PROVE  LET h == Truncated(f, n) IN
           /\ IsInode(h)
           /\ h.size = n /\ h.init = P!Smaller(f.init, n)
           /\ h.bytes = [p \in P!Places |-> IF p < n THEN f.bytes[p] ELSE 0]
           /\ h.mtime = f.mtime /\ h.hidden = f.hidden /\ h.streams = f.streams
<1> DEFINE B == [p \in P!Places |-> IF p < n THEN f.bytes[p] ELSE 0]
           h == Truncated(f, n)
<1>1. h = [[f EXCEPT !.bytes = B, !.size = n] EXCEPT !.init = P!Smaller(f.init, n)]
  BY DEF Truncated, P!Resized, Contents, IsInode, Fields
<1>2. IsInode(f)
  BY DEF Contents
<1> HIDE DEF B, h
<1>3. /\ IsInode(h)
      /\ h.size = n /\ h.bytes = B /\ h.init = P!Smaller(f.init, n)
      /\ h.mtime = f.mtime /\ h.hidden = f.hidden /\ h.streams = f.streams
  BY <1>1, <1>2 DEF IsInode, Fields
<1>4. QED
  BY <1>3 DEF B, h

\* A new size, however it is made, is what the promise says.
LEMMA NewSizeResizes ==
    ASSUME Contents(inode), Clean(inode), NEW n \in 0 .. MaxEnd
    PROVE  /\ Contents(NewSize(n)) /\ Clean(NewSize(n))
           /\ Seen(NewSize(n)) = P!Resized(Seen(inode), n)
<1> DEFINE h == NewSize(n)
           r == P!Resized(Seen(inode), n)
<1>0. \A off \in Nat, buf \in Seq(Nat), from \in Nat, k \in Nat \ {0} :
        LET w == Pwritten(inode, off, buf, from, k) IN
        /\ w.size = P!Bigger(inode.size, off + from + k)
        /\ \A p \in P!Places : w.bytes[p] = IF off + from <= p /\ p < off + from + k
                                           THEN Rest(buf, from)[p - (off + from) + 1]
                                           ELSE inode.bytes[p]
        /\ w.mtime = inode.mtime /\ w.hidden = inode.hidden /\ w.streams = inode.streams
  BY PwrittenAt
<1>1. /\ inode.size \in 0 .. MaxEnd /\ MaxEnd \in Nat /\ inode.init \in Nat
      /\ inode.bytes \in [P!Places -> Nat] /\ \A p \in P!Places : p \in Nat
  BY PlacesNat, ContentsFacts
<1>2. /\ IsFile(r) /\ r.size = n /\ r.mtime = inode.mtime /\ r.hidden = inode.hidden
      /\ r.streams = inode.streams
      /\ r.bytes = [p \in P!Places |-> IF p < n THEN inode.bytes[p] ELSE 0]
  BY ResizedFields, SeenIsFile
<1>3. /\ Contents(h) /\ Clean(h) /\ h.size = n /\ h.bytes = r.bytes /\ h.mtime = r.mtime
      /\ h.hidden = r.hidden /\ h.streams = r.streams
  <2>1. CASE kind = "compressed" /\ n > inode.init
    <3>1. /\ h = Pwritten(inode, n - 1, <<0>>, 0, 1) /\ n - 1 \in Nat
          /\ inode.size < n
      BY <1>1, <2>1 DEF NewSize, Clean
    <3>2. <<0>> \in Seq(Nat) /\ Len(<<0>>) = 1
      OBVIOUS
    <3>k. PICK m \in Nat : m = n - 1
      BY <3>1
    <3>l. PICK z \in Seq(Nat) : z = <<0>>
      BY <3>2
    <3>m. PICK o \in Nat : o = 0
      OBVIOUS
    <3>n. PICK k \in Nat \ {0} : k = 1
      OBVIOUS
    <3>a. h = Pwritten(inode, m, z, o, k) /\ m + o + k <= MaxEnd /\ o + k <= Len(z)
      BY <3>1, <3>2, <1>1, <3>k, <3>l, <3>m, <3>n
    <3> HIDE DEF h
    <3>3. Contents(h) /\ Clean(h)
      BY <3>a, PwrittenContents
    <3> DEFINE w == Pwritten(inode, m, z, o, k)
    <3>c. /\ w.size = P!Bigger(inode.size, m + o + k)
          /\ \A p \in P!Places : w.bytes[p] = IF m + o <= p /\ p < m + o + k
                                             THEN Rest(z, o)[p - (m + o) + 1] ELSE inode.bytes[p]
          /\ w.mtime = inode.mtime /\ w.hidden = inode.hidden /\ w.streams = inode.streams
      BY <1>0
    <3> HIDE DEF w
    <3>f. h = w
      BY <3>a DEF w
    <3>4. /\ h.size = P!Bigger(inode.size, m + o + k)
          /\ \A p \in P!Places : h.bytes[p] = IF m + o <= p /\ p < m + o + k
                                             THEN Rest(z, o)[p - (m + o) + 1] ELSE inode.bytes[p]
          /\ h.mtime = inode.mtime /\ h.hidden = inode.hidden /\ h.streams = inode.streams
      BY <3>c, <3>f
    <3>5. h.size = n
      BY <1>1, <3>1, <3>4, <3>k, <3>m, <3>n DEF P!Bigger
    <3>6. Rest(z, o)[1] = 0
      BY <3>l, <3>m, SubSeqFull DEF Rest
    <3>7. ASSUME NEW p \in P!Places PROVE h.bytes[p] = IF p < n THEN inode.bytes[p] ELSE 0
      <4>1. p \in Nat
        BY <1>1
      <4>2. p >= inode.size => inode.bytes[p] = 0
        BY DEF Clean
      <4>3. CASE p = n - 1
        BY <1>1, <3>1, <3>4, <3>6, <3>k, <3>m, <3>n, <4>1, <4>2, <4>3
      <4>4. CASE p # n - 1
        BY <1>1, <3>1, <3>4, <3>k, <3>m, <3>n, <4>1, <4>2, <4>4
      <4>5. QED
        BY <4>3, <4>4
    <3>8. h.bytes = r.bytes
      BY <1>2, <3>3, <3>7, ContentsFacts
    <3>9. QED
      BY <1>2, <3>3, <3>4, <3>5, <3>8
  <2>2. CASE ~(kind = "compressed" /\ n > inode.init)
    <3>1. h = Truncated(inode, n)
      BY <2>2 DEF NewSize
    <3>2. /\ IsInode(h)
          /\ h.size = n /\ h.init = P!Smaller(inode.init, n)
          /\ h.bytes = [p \in P!Places |-> IF p < n THEN inode.bytes[p] ELSE 0]
          /\ h.mtime = inode.mtime /\ h.hidden = inode.hidden /\ h.streams = inode.streams
      BY <3>1, TruncatedFields
    <3>3. Contents(h)
      <4>1. h.bytes \in [P!Places -> Nat] /\ h.init \in Nat
        BY <1>1, <3>2 DEF P!Smaller
      <4>2. QED
        BY <3>2, <4>1 DEF Contents
    <3>4. Clean(h)
      BY <1>1, <2>2, <3>2 DEF Clean, P!Smaller
    <3>5. QED
      BY <1>2, <3>2, <3>3, <3>4
  <2>3. QED
    BY <2>1, <2>2
<1>4. Seen(h) = r
  BY <1>2, <1>3, SeenIsFile, SameFile
<1>5. QED
  BY <1>3, <1>4
(***************************************************************************)
(* NTFS: the invariant.                                                     *)
(***************************************************************************)
IsRq(r) == r = [x \in {"q", "pc", "done", "got", "n", "saved"} |-> r[x]]

Shaped ==
    /\ kind \in Kinds /\ IsRq(rq) /\ rq.saved \in BOOLEAN
    /\ Contents(disk) /\ Contents(inode) /\ Clean(disk) /\ Clean(inode)

Serving ==
    /\ rq.pc # "idle" => rq.q \in FileRequests
    /\ rq.pc # "done" => rq.saved = TRUE

\* A file that can have no extended attributes has none.
NoStreams ==
    kind \in {"reparse", "system"} =>
        \A x \in XNames : disk.streams[x] = NoStream /\ inode.streams[x] = NoStream

\* n bytes of a file.
Stretch(f, off, n) == [i \in 1 .. n |-> f.bytes[off + i - 1]]

\* How far the open inode is from the disk, at each place of a request.
UnderWay ==
    /\ rq.pc \in {"write", "read", "attrs", "set", "remove", "get", "list"} => rq.q.op = rq.pc
    /\ rq.pc \in {"read", "attrs", "set", "remove", "get", "list"} => inode = disk
    /\ rq.pc \in {"write", "set", "parts", "remove"} => kind \notin {"reparse", "system"}
    /\ At("write") => /\ rq.done \in 0 .. Len(rq.q.buf)
                      /\ Seen(inode) = P!Written(Seen(disk), rq.q.off, rq.q.buf, rq.done)
    /\ At("read") => /\ rq.done \in 0 .. ReadSize
                     /\ rq.got = Stretch(disk, rq.q.off, rq.done)
    /\ At("rest") => /\ rq.q.op = "attrs"
                     /\ Seen(inode) = P!WithAttrs(Seen(disk), rq.q, rq.q.which \cap {"size"})
    /\ At("set") => rq.done = 0
    /\ At("parts") => /\ rq.q.op = "set" /\ rq.done \in 0 .. Len(rq.q.value)
                      /\ Seen(inode) = P!WithStream(Seen(disk), rq.q.name,
                                                    SubSeq(rq.q.value, 1, rq.done))

\* What is found if the process dies, or if the inode is closed.
Outcome ==
    /\ rq.pc \notin {"idle", "done"} => P!Torn(rq.q, Seen(disk), Seen(inode))
    /\ At("close") => P!Kept(rq.q, rq.n, Seen(disk), Seen(inode))

FileInv == Shaped /\ Serving /\ NoStreams /\ UnderWay /\ Outcome /\ ReadsExact

LEMMA Going ==
    ASSUME IsRq(rq), NEW pc, Goes(pc)
    PROVE  /\ IsRq(rq') /\ rq'.pc = pc /\ rq'.q = rq.q /\ rq'.done = rq.done
           /\ rq'.got = rq.got /\ rq'.n = rq.n /\ rq'.saved = rq.saved
BY DEF IsRq, Goes

LEMMA Answering ==
    ASSUME IsRq(rq), NEW n, Answers(n)
    PROVE  /\ IsRq(rq') /\ rq'.pc = "close" /\ rq'.q = rq.q /\ rq'.done = rq.done
           /\ rq'.got = rq.got /\ rq'.n = n /\ rq'.saved = rq.saved
BY DEF IsRq, Answers

LEMMA IdleFields ==
    /\ IsRq(Idle) /\ Idle.pc = "idle" /\ Idle.q = Nothing /\ Idle.done = 0 /\ Idle.got = << >>
    /\ Idle.n = Error /\ Idle.saved = TRUE
BY DEF IsRq, Idle

\* Nothing done is a possible outcome of everything.
LEMMA NothingKept ==
    ASSUME NEW q \in FileRequests, NEW f
    PROVE  P!Kept(q, Error, f, f) /\ P!Torn(q, f, f)
<1>1. q.op \in {"write", "read", "attrs", "set", "remove", "get", "list"}
  BY RequestShapes
<1>2. P!Kept(q, Error, f, f)
  BY <1>1 DEF P!Kept, P!WriteKept, P!AttrsKept, P!StreamKept, P!StreamRemoved, P!ReadBack, P!StreamRead
<1>3. P!Torn(q, f, f)
  BY DEF P!Torn
<1>4. QED
  BY <1>2, <1>3

\* A part of a write touches the bytes it names and no others.
LEMMA WrittenTorn ==
    ASSUME NEW f, Contents(f), NEW q \in FileRequests, q.op = "write", NEW n \in 0 .. Len(q.buf)
    PROVE  LET w == P!Written(Seen(f), q.off, q.buf, n) IN
           P!Torn(q, Seen(f), w) /\ P!Torn(q, Seen(f), P!Stamped(w))
<1> DEFINE w == P!Written(Seen(f), q.off, q.buf, n)
           t == P!Stamped(w)
           len == Len(q.buf)
<1>1. q.off \in Nat /\ len \in Nat
  BY RequestShapes, LenProperties
<1>2. /\ IsFile(w) /\ w.hidden = f.hidden /\ w.streams = f.streams
      /\ w.size = IF n = 0 THEN f.size ELSE P!Bigger(f.size, q.off + n)
      /\ w.bytes = [p \in P!Places |->
                       IF q.off <= p /\ p < q.off + n THEN q.buf[p - q.off + 1] ELSE f.bytes[p]]
  BY WrittenFields, SeenIsFile
<1>3. f.size \in Nat
  BY PlacesNat DEF Contents
<1> HIDE DEF w, len
<1>4. w.size >= f.size
  BY <1>1, <1>2, <1>3 DEF P!Bigger
<1>5. \A p \in P!Places : w.bytes[p] = f.bytes[p] \/ (q.off <= p /\ p < q.off + len)
  <2>1. ASSUME NEW p \in P!Places, ~(q.off <= p /\ p < q.off + len)
        PROVE  w.bytes[p] = f.bytes[p]
    <3>1. p \in Nat /\ n \in Nat /\ n <= len
      BY <1>1, PlacesNat DEF len
    <3>2. ~(q.off <= p /\ p < q.off + n)
      BY <1>1, <2>1, <3>1
    <3>3. QED
      BY <1>2, <3>2
  <2>2. QED
    BY <2>1
<1>6. /\ t.hidden = w.hidden /\ t.streams = w.streams /\ t.size = w.size /\ t.bytes = w.bytes
  BY <1>2, StampedFields
<1> HIDE DEF t
<1>7. P!Torn(q, Seen(f), w)
  BY <1>2, <1>4, <1>5, SeenIsFile DEF P!Torn, len
<1>8. P!Torn(q, Seen(f), t)
  BY <1>2, <1>4, <1>5, <1>6, SeenIsFile DEF P!Torn, len
<1>9. QED
  BY <1>7, <1>8 DEF w, t

LEMMA WrittenKept ==
    ASSUME NEW f, NEW q \in FileRequests, q.op = "write", NEW n \in 1 .. Len(q.buf)
    PROVE  LET w == P!Written(f, q.off, q.buf, n) IN
           P!Kept(q, n, f, P!Stamped(w)) /\ (n # Len(q.buf) => P!Kept(q, n, f, w))
<1>1. Len(q.buf) \in Nat
  BY RequestShapes, LenProperties
<1>2. n # Len(q.buf) => n \in 1 .. Len(q.buf) - 1
  BY <1>1
<1>3. QED
  BY <1>2 DEF P!Kept, P!WriteKept

Joined(s, t) == s \o t

LEMMA FunctionIsSeq ==
    ASSUME NEW n \in Nat, NEW s \in [1 .. n -> Nat]
    PROVE  s \in Seq(Nat) /\ Len(s) = n
OBVIOUS

\* Reading on: what was read and the next piece are what is there up to the end of it.
LEMMA SliceGrows ==
    ASSUME NEW f, Contents(f), NEW off \in Nat, NEW done \in Nat, NEW k \in Nat \ {0},
           off + done + k <= f.size, NEW got, got = Stretch(f, off, done)
    PROVE  Joined(got, P!Slice(f, off + done, k)) = Stretch(f, off, done + k)
<1>0. got = [i \in 1 .. done |-> f.bytes[off + i - 1]]
  BY DEF Stretch
<1> DEFINE next == P!Slice(f, off + done, k)
<1>1. f.size \in Nat /\ f.size <= MaxEnd /\ MaxEnd \in Nat
  BY PlacesNat DEF Contents
<1>2. P!Bigger(0, P!Smaller(k, f.size - (off + done))) = k
  BY <1>1 DEF P!Bigger, P!Smaller
<1>3. next = [i \in 1 .. k |-> f.bytes[(off + done) + i - 1]]
  BY <1>2 DEF P!Slice
<1>4. \A p \in 0 .. MaxEnd - 1 : f.bytes[p] \in Nat
  BY DEF Contents, P!Places
<1>5. \A i \in 1 .. done + k : f.bytes[off + i - 1] \in Nat
  <2>1. \A i \in 1 .. done + k : off + i - 1 \in 0 .. MaxEnd - 1
    BY <1>1
  <2>2. QED
    BY <1>4, <2>1
<1>6. got \in [1 .. done -> Nat]
  <2>1. \A i \in 1 .. done : i \in 1 .. done + k
    OBVIOUS
  <2>2. QED
    BY <1>0, <1>5, <2>1
<1>7. next \in [1 .. k -> Nat]
  <2>1. ASSUME NEW i \in 1 .. k PROVE f.bytes[(off + done) + i - 1] \in Nat
    <3>1. done + i \in 1 .. done + k /\ off + (done + i) - 1 = (off + done) + i - 1
      OBVIOUS
    <3>2. QED
      BY <1>5, <3>1
  <2>2. QED
    BY <1>3, <2>1
<1> HIDE DEF next
<1>8. got \in Seq(Nat) /\ Len(got) = done /\ next \in Seq(Nat) /\ Len(next) = k
  BY <1>6, <1>7, FunctionIsSeq
<1>9. /\ got \o next \in Seq(Nat) /\ Len(got \o next) = done + k
      /\ \A i \in 1 .. done + k : (got \o next)[i] = IF i <= done THEN got[i] ELSE next[i - done]
  <2>1. /\ got \o next \in Seq(Nat) /\ Len(got \o next) = Len(got) + Len(next)
        /\ \A i \in 1 .. Len(got) + Len(next) :
              (got \o next)[i] = IF i <= Len(got) THEN got[i] ELSE next[i - Len(got)]
    BY <1>8, ConcatProperties
  <2>2. QED
    BY <1>8, <2>1
<1>10. got \o next = [i \in 1 .. done + k |-> (got \o next)[i]]
  BY <1>9, LenProperties
<1>11. ASSUME NEW i \in 1 .. done + k PROVE (got \o next)[i] = f.bytes[off + i - 1]
  <2>1. CASE i <= done
    BY <1>0, <1>9, <2>1
  <2>2. CASE ~(i <= done)
    <3>1. i - done \in 1 .. k /\ (off + done) + (i - done) - 1 = off + i - 1
      BY <2>2
    <3>2. QED
      BY <1>3, <1>9, <2>2, <3>1
  <2>3. QED
    BY <2>1, <2>2
<1>12. QED
  BY <1>10, <1>11 DEF next, Stretch, Joined

\* Attributes: what there is after the size is completed by the rest.
LEMMA AttrsCompleted ==
    ASSUME NEW f, IsFile(f), NEW g, IsFile(g), NEW q, NEW which,
           g = P!WithAttrs(f, q, which \cap {"size"}), NEW h, IsFile(h),
           h.size = g.size, h.bytes = g.bytes, h.streams = g.streams,
           h.mtime = IF "times" \in which THEN q.mtime ELSE g.mtime,
           h.hidden = IF "flags" \in which THEN q.hidden ELSE g.hidden
    PROVE  h = P!WithAttrs(f, q, which)
<1> DEFINE w == P!WithAttrs(f, q, which)
<1>1. /\ g.size = IF "size" \in which THEN q.size ELSE f.size
      /\ g.bytes = IF "size" \in which
                   THEN [p \in P!Places |-> IF p < q.size THEN f.bytes[p] ELSE 0] ELSE f.bytes
      /\ g.mtime = IF "size" \in which THEN Now ELSE f.mtime
      /\ g.hidden = f.hidden /\ g.streams = f.streams
  BY WithAttrsFields
<1>2. /\ IsFile(w)
      /\ w.size = IF "size" \in which THEN q.size ELSE f.size
      /\ w.bytes = IF "size" \in which
                   THEN [p \in P!Places |-> IF p < q.size THEN f.bytes[p] ELSE 0] ELSE f.bytes
      /\ w.mtime = IF "times" \in which THEN q.mtime ELSE IF "size" \in which THEN Now ELSE f.mtime
      /\ w.hidden = IF "flags" \in which THEN q.hidden ELSE f.hidden
      /\ w.streams = f.streams
  BY WithAttrsFields
<1> HIDE DEF w
<1>3. w.size = h.size /\ w.bytes = h.bytes /\ w.mtime = h.mtime /\ w.hidden = h.hidden
      /\ w.streams = h.streams
  BY <1>1, <1>2
<1>4. h = w
  BY <1>2, <1>3, SameFile
<1>5. QED
  BY <1>4 DEF w

\* A size alone.
LEMMA SizeAlone ==
    ASSUME NEW f, IsFile(f), NEW q
    PROVE  /\ P!WithAttrs(f, q, {"size"}) = P!Stamped(P!Resized(f, q.size))
           /\ P!WithAttrs(f, q, {}) = f
<1>1. P!WithAttrs(f, q, {}) = f
  <2>a. PICK none : none = {}
    OBVIOUS
  <2>b. "size" \notin none /\ "times" \notin none /\ "flags" \notin none
    BY <2>a
  <2> DEFINE w == P!WithAttrs(f, q, none)
  <2>c. /\ IsFile(w)
        /\ w.size = IF "size" \in none THEN q.size ELSE f.size
        /\ w.bytes = IF "size" \in none
                     THEN [p \in P!Places |-> IF p < q.size THEN f.bytes[p] ELSE 0] ELSE f.bytes
        /\ w.mtime = IF "times" \in none THEN q.mtime
                     ELSE IF "size" \in none THEN Now ELSE f.mtime
        /\ w.hidden = IF "flags" \in none THEN q.hidden ELSE f.hidden
        /\ w.streams = f.streams
    BY WithAttrsFields
  <2>1. /\ IsFile(w) /\ w.size = f.size /\ w.bytes = f.bytes /\ w.mtime = f.mtime
        /\ w.hidden = f.hidden /\ w.streams = f.streams
    BY <2>b, <2>c
  <2> HIDE DEF w
  <2>2. w = f
    BY <2>1, SameFile
  <2>3. QED
    BY <2>a, <2>2 DEF w
<1>2. P!WithAttrs(f, q, {"size"}) = P!Stamped(P!Resized(f, q.size))
  <2> DEFINE w == P!WithAttrs(f, q, {"size"})
             r == P!Resized(f, q.size)
             t == P!Stamped(r)
  <2>1. /\ IsFile(w) /\ w.size = q.size
        /\ w.bytes = [p \in P!Places |-> IF p < q.size THEN f.bytes[p] ELSE 0]
        /\ w.mtime = Now /\ w.hidden = f.hidden /\ w.streams = f.streams
    BY WithAttrsFields
  <2>2. /\ IsFile(r) /\ r.size = q.size
        /\ r.bytes = [p \in P!Places |-> IF p < q.size THEN f.bytes[p] ELSE 0]
        /\ r.mtime = f.mtime /\ r.hidden = f.hidden /\ r.streams = f.streams
    BY ResizedFields
  <2>3. /\ IsFile(t) /\ t.size = r.size /\ t.bytes = r.bytes /\ t.mtime = Now
        /\ t.hidden = r.hidden /\ t.streams = r.streams
    BY <2>2, StampedFields
  <2> HIDE DEF w, r, t
  <2>4. w = t
    BY <2>1, <2>2, <2>3, SameFile
  <2>5. QED
    BY <2>4 DEF w, r, t
<1>3. QED
  BY <1>1, <1>2

(***************************************************************************)
(* NTFS: one step.                                                          *)
(***************************************************************************)
LEMMA HalfwayKeeps ==
    ASSUME Shaped, Serving, Outcome, rq.pc \notin {"idle", "done"}, NEW d \in Halfway
    PROVE  /\ Contents(d) /\ Clean(d) /\ d.streams = disk.streams
           /\ P!Torn(rq.q, Seen(disk), Seen(d))
           /\ rq.q.op # "write" => d = disk
<1> DEFINE B == [p \in DOMAIN disk.bytes |-> IF p < disk.size /\ rq.q.op = "write"
                                            THEN inode.bytes[p] ELSE disk.bytes[p]]
<1>1. rq.q \in FileRequests /\ Contents(disk) /\ Contents(inode) /\ Clean(disk)
  BY DEF Shaped, Serving
<1>2. /\ disk.bytes \in [P!Places -> Nat] /\ inode.bytes \in [P!Places -> Nat]
      /\ DOMAIN disk.bytes = P!Places /\ IsInode(disk)
  BY <1>1 DEF Contents
<1>3. disk.size \in Nat /\ \A p \in P!Places : p \in Nat
  BY <1>1, PlacesNat DEF Contents
<1>4. CASE d = disk
  BY <1>1, <1>4, NothingKept
<1>5. CASE d = [disk EXCEPT !.bytes = B]
  <2> HIDE DEF B
  <2>1. /\ IsInode(d) /\ d.bytes = B /\ d.size = disk.size /\ d.init = disk.init
        /\ d.mtime = disk.mtime /\ d.hidden = disk.hidden /\ d.streams = disk.streams
    BY <1>2, <1>5 DEF IsInode, Fields
  <2>2. /\ B \in [P!Places -> Nat]
        /\ \A p \in P!Places : B[p] = IF p < disk.size /\ rq.q.op = "write"
                                      THEN inode.bytes[p] ELSE disk.bytes[p]
    BY <1>2 DEF B
  <2>3. Contents(d)
    BY <1>1, <2>1, <2>2 DEF Contents
  <2>4. Clean(d)
    <3>1. \A p \in P!Places : p >= disk.size => B[p] = 0
      BY <1>1, <1>3, <2>2 DEF Clean
    <3>2. QED
      BY <1>1, <2>1, <3>1 DEF Clean
  <2>5. CASE rq.q.op # "write"
    <3>1. B = disk.bytes
      BY <1>2, <2>2, <2>5
    <3>2. d = disk
      BY <1>2, <1>5, <3>1 DEF IsInode, Fields
    <3>3. QED
      BY <1>4, <3>2
  <2>6. CASE rq.q.op = "write"
    <3>1. \A p \in P!Places : inode.bytes[p] = disk.bytes[p]
                              \/ (rq.q.off <= p /\ p < rq.q.off + Len(rq.q.buf))
      <4>1. P!Torn(rq.q, Seen(disk), Seen(inode))
        BY DEF Outcome
      <4>2. CASE Seen(inode) = Seen(disk)
        <5>1. inode.bytes = disk.bytes
          BY <4>2, SeenIsFile
        <5>2. QED
          BY <5>1
      <4>3. CASE Seen(inode) # Seen(disk)
        BY <2>6, <4>1, <4>3, SeenIsFile DEF P!Torn
      <4>4. QED
        BY <4>2, <4>3
    <3>2. \A p \in P!Places : d.bytes[p] = disk.bytes[p]
                              \/ (rq.q.off <= p /\ p < rq.q.off + Len(rq.q.buf))
      BY <2>1, <2>2, <3>1
    <3>3. d.size >= disk.size
      BY <1>3, <2>1
    <3>4. P!Torn(rq.q, Seen(disk), Seen(d))
      BY <2>1, <2>6, <3>2, <3>3, SeenIsFile DEF P!Torn
    <3>5. QED
      BY <2>1, <2>3, <2>4, <2>6, <3>4
  <2>7. QED
    BY <2>5, <2>6
<1>6. QED
  BY <1>4, <1>5 DEF Halfway

LEMMA OpenKeeps == ASSUME FileInv, NEW q \in FileRequests, Open(q) PROVE FileInv'
<1>1. /\ kind' = kind /\ disk' = disk /\ inode' = disk
      /\ IsRq(rq') /\ rq'.q = q /\ rq'.done = 0 /\ rq'.got = << >> /\ rq'.n = Error /\ rq'.saved = TRUE
      /\ (rq'.pc = q.op /\ ~Refused(q)) \/ rq'.pc = "close"
  BY IdleFields DEF Open, IsRq
<1>2. /\ q.op \in {"write", "read", "attrs", "set", "remove", "get", "list"}
      /\ rq'.pc = q.op \/ rq'.pc = "close"
  BY <1>1, RequestShapes
<1>3. Shaped'
  BY <1>1 DEF FileInv, Shaped, Clean
<1>4. Serving' /\ NoStreams' /\ ReadsExact'
  BY <1>1, <1>2 DEF FileInv, Serving, NoStreams, ReadsExact, At
<1>5. UnderWay'
  <2>1. /\ rq'.pc \in {"write", "set", "parts", "remove"} => kind' \notin {"reparse", "system"}
        /\ rq'.pc \in {"write", "read", "attrs", "set", "remove", "get", "list"} => rq'.q.op = rq'.pc
        /\ rq'.pc # "rest" /\ rq'.pc # "parts"
    BY <1>1, <1>2 DEF Refused
  <2>2. ASSUME rq'.pc = "write"
        PROVE  /\ rq'.done \in 0 .. Len(rq'.q.buf)
               /\ Seen(inode') = P!Written(Seen(disk'), rq'.q.off, rq'.q.buf, rq'.done)
    <3>1. q.op = "write" /\ q.off \in Nat /\ Len(q.buf) \in Nat
      BY <1>1, <1>2, <2>2, RequestShapes, LenProperties
    <3>2. Seen(disk) = P!Written(Seen(disk), q.off, q.buf, 0)
      BY <3>1, WrittenNone DEF FileInv, Shaped
    <3>3. QED
      BY <1>1, <3>1, <3>2
  <2>3. ASSUME rq'.pc = "read"
        PROVE  /\ rq'.done \in 0 .. ReadSize'
               /\ rq'.got = Stretch(disk', rq'.q.off, rq'.done)
    <3>1. q.op = "read" /\ q.off \in Nat /\ q.len \in Nat
      BY <1>1, <1>2, <2>3, RequestShapes
    <3>2. disk.size \in Nat
      BY PlacesNat DEF FileInv, Shaped, Contents
    <3>3. ReadSize' = P!Bigger(0, P!Smaller(q.len, disk.size - q.off))
      BY <1>1 DEF ReadSize
    <3>4. 0 \in 0 .. ReadSize'
      BY <3>1, <3>2, <3>3 DEF P!Bigger, P!Smaller
    <3>5. << >> = Stretch(disk, q.off, 0)
      BY DEF Stretch
    <3>6. QED
      BY <1>1, <3>4, <3>5
  <2>4. QED
    BY <1>1, <2>1, <2>2, <2>3 DEF UnderWay, At
<1>6. Outcome'
  <2>1. P!Kept(q, Error, Seen(disk), Seen(disk)) /\ P!Torn(q, Seen(disk), Seen(disk))
    BY NothingKept
  <2>2. QED
    BY <1>1, <2>1 DEF Outcome, At
<1>7. QED
  BY <1>3, <1>4, <1>5, <1>6 DEF FileInv

\* The last step of a request before its inode is closed.
LEMMA AnswerKeeps ==
    ASSUME FileInv, rq.pc \notin {"idle", "done"}, NEW n, Answers(n),
           kind' = kind, disk' = disk, Contents(inode'), Clean(inode'),
           kind \in {"reparse", "system"} => inode'.streams = inode.streams,
           P!Torn(rq.q, Seen(disk), Seen(inode')), P!Kept(rq.q, n, Seen(disk), Seen(inode'))
    PROVE  FileInv'
<1>1. /\ IsRq(rq') /\ rq'.pc = "close" /\ rq'.q = rq.q /\ rq'.n = n /\ rq'.saved = rq.saved
  BY Answering DEF FileInv, Shaped
<1>2. Shaped'
  BY <1>1 DEF FileInv, Shaped, Clean
<1>3. Serving' /\ NoStreams' /\ ReadsExact' /\ UnderWay' /\ Outcome'
  BY <1>1 DEF FileInv, Serving, NoStreams, ReadsExact, UnderWay, Outcome, At
<1>4. QED
  BY <1>2, <1>3 DEF FileInv

\* A request that fails before it has changed anything.
LEMMA FailsKeeps ==
    ASSUME FileInv, rq.pc \notin {"idle", "done"}, inode = disk, Fails, UNCHANGED <<kind, disk>>
    PROVE  FileInv'
<1>1. P!Torn(rq.q, Seen(disk), Seen(disk)) /\ P!Kept(rq.q, Error, Seen(disk), Seen(disk))
  BY NothingKept DEF FileInv, Serving
<1>2. Contents(inode') /\ Clean(inode') /\ inode' = disk /\ inode'.streams = inode.streams
  BY DEF Fails, FileInv, Shaped, Clean
<1>3. Answers(Error)
  BY DEF Fails
<1>4. QED
  BY <1>1, <1>2, <1>3, AnswerKeeps

LEMMA WritePieceKeeps == ASSUME FileInv, WritePiece PROVE FileInv'
<1> DEFINE q == rq.q
<1>1. PICK k \in 1 .. Len(q.buf) - rq.done :
         /\ inode' = Pwritten(inode, q.off, q.buf, rq.done, k)
         /\ rq' = [rq EXCEPT !.done = @ + k]
  BY DEF WritePiece
<1>2. /\ q \in FileRequests /\ q.op = "write" /\ rq.pc = "write" /\ rq.saved = TRUE /\ IsRq(rq)
      /\ kind \notin {"reparse", "system"} /\ kind' = kind /\ disk' = disk /\ kind \in Kinds
      /\ Contents(inode) /\ Clean(inode) /\ Contents(disk) /\ Clean(disk)
      /\ rq.done \in 0 .. Len(q.buf)
      /\ Seen(inode) = P!Written(Seen(disk), q.off, q.buf, rq.done)
  BY DEF WritePiece, At, FileInv, Shaped, Serving, UnderWay
<1>3. /\ q.off \in Nat /\ q.buf \in Seq(Nat) /\ Len(q.buf) \in Nat /\ q.off + Len(q.buf) <= MaxEnd
  BY <1>2, RequestShapes, LenProperties
<1>4. /\ rq.done \in Nat /\ k \in Nat \ {0} /\ rq.done + k <= Len(q.buf)
      /\ q.off + rq.done + k <= MaxEnd /\ rq.done + k \in 0 .. Len(q.buf)
  <2>1. PICK l \in Nat : l = Len(q.buf)
    BY <1>3
  <2>2. rq.done \in 0 .. l /\ k \in 1 .. l - rq.done
    BY <1>2, <2>1
  <2>3. PICK d \in Nat : d = rq.done
    BY <2>2
  <2>4. k \in Nat \ {0} /\ d + k <= l
    BY <2>2, <2>3
  <2>5. q.off + d + k <= MaxEnd /\ d + k \in 0 .. l
    BY <1>3, <2>1, <2>4, PlacesNat
  <2>6. QED
    BY <2>1, <2>3, <2>4, <2>5
<1>5. /\ IsRq(rq') /\ rq'.done = rq.done + k /\ rq'.q = q /\ rq'.pc = "write" /\ rq'.saved = TRUE
  BY <1>1, <1>2 DEF IsRq
<1>6. Contents(inode') /\ Clean(inode')
  BY <1>1, <1>2, <1>3, <1>4, PwrittenContents
<1>7. Seen(inode') = P!Written(Seen(disk), q.off, q.buf, rq.done + k)
  BY <1>1, <1>2, <1>3, <1>4, WrittenPieces
<1>8. P!Torn(q, Seen(disk), Seen(inode'))
  BY <1>2, <1>4, <1>7, WrittenTorn
<1> HIDE DEF q
<1>9. Shaped'
  BY <1>2, <1>5, <1>6 DEF Shaped, Clean
<1>10. Serving' /\ NoStreams' /\ ReadsExact' /\ UnderWay' /\ Outcome'
  BY <1>2, <1>4, <1>5, <1>7, <1>8 DEF Serving, NoStreams, ReadsExact, UnderWay, Outcome, At
<1>11. QED
  BY <1>9, <1>10 DEF FileInv

LEMMA WriteStopsKeeps == ASSUME FileInv, WriteStops PROVE FileInv'
<1> DEFINE q == rq.q
           n == IF rq.done > 0 THEN rq.done ELSE Error
<1>1. /\ q \in FileRequests /\ q.op = "write" /\ rq.pc = "write"
      /\ kind' = kind /\ disk' = disk /\ inode' = inode /\ Answers(n)
      /\ Contents(inode) /\ Clean(inode) /\ Contents(disk)
      /\ rq.done \in 0 .. Len(q.buf) /\ rq.done < Len(q.buf)
      /\ Seen(inode) = P!Written(Seen(disk), q.off, q.buf, rq.done)
  BY DEF WriteStops, At, FileInv, Shaped, Serving, UnderWay
<1>2. q.off \in Nat /\ q.buf \in Seq(Nat) /\ Len(q.buf) \in Nat
  BY <1>1, RequestShapes, LenProperties
<1>3. P!Torn(q, Seen(disk), Seen(inode))
  BY <1>1, WrittenTorn
<1>4. P!Kept(q, n, Seen(disk), Seen(inode))
  <2>1. CASE rq.done > 0
    <3>1. rq.done \in 1 .. Len(q.buf) /\ rq.done # Len(q.buf) /\ n = rq.done
      BY <1>1, <1>2, <2>1
    <3>2. QED
      BY <1>1, <3>1, WrittenKept
  <2>2. CASE ~(rq.done > 0)
    <3>1. rq.done = 0 /\ n = Error
      BY <1>1, <2>2
    <3>2. Seen(inode) = Seen(disk)
      BY <1>1, <1>2, <3>1, WrittenNone
    <3>3. QED
      BY <1>1, <3>1, <3>2, NothingKept
  <2>3. QED
    BY <2>1, <2>2
<1> HIDE DEF n
<1>5. QED
  BY <1>1, <1>3, <1>4, AnswerKeeps

LEMMA StampedContents ==
    ASSUME NEW f, Contents(f)
    PROVE  /\ Contents(P!Stamped(f)) /\ Seen(P!Stamped(f)) = P!Stamped(Seen(f))
           /\ P!Stamped(f).streams = f.streams
           /\ Clean(f) => Clean(P!Stamped(f))
<1> DEFINE t == P!Stamped(f)
           s == P!Stamped(Seen(f))
<1>1. IsInode(f)
  BY DEF Contents
<1>2. /\ IsInode(t) /\ t.size = f.size /\ t.bytes = f.bytes /\ t.init = f.init
      /\ t.mtime = Now /\ t.hidden = f.hidden /\ t.streams = f.streams
  BY <1>1 DEF P!Stamped, IsInode, Fields
<1>3. /\ IsFile(s) /\ s.size = f.size /\ s.bytes = f.bytes
      /\ s.mtime = Now /\ s.hidden = f.hidden /\ s.streams = f.streams
  BY StampedFields, SeenIsFile
<1> HIDE DEF t, s
<1>4. Contents(t)
  BY <1>2, NtfsFileAssumption DEF Contents
<1>5. Clean(f) => Clean(t)
  BY <1>2 DEF Clean
<1>6. Seen(t) = s
  BY <1>2, <1>3, SeenIsFile, SameFile
<1>7. QED
  BY <1>2, <1>4, <1>5, <1>6 DEF t, s

LEMMA WriteEndsKeeps == ASSUME FileInv, WriteEnds PROVE FileInv'
<1> DEFINE q == rq.q
<1>1. /\ q \in FileRequests /\ q.op = "write" /\ rq.pc = "write"
      /\ kind' = kind /\ disk' = disk /\ inode' = P!Stamped(inode) /\ Answers(rq.done)
      /\ Contents(inode) /\ Clean(inode) /\ Contents(disk) /\ rq.done = Len(q.buf)
      /\ Seen(inode) = P!Written(Seen(disk), q.off, q.buf, rq.done)
  BY DEF WriteEnds, At, FileInv, Shaped, Serving, UnderWay
<1>2. q.buf \in Seq(Nat) /\ q.buf # << >>
  BY <1>1, RequestShapes
<1>3. Len(q.buf) \in Nat \ {0}
  BY <1>2, EmptySeq
<1>4. rq.done \in 0 .. Len(q.buf) /\ rq.done \in 1 .. Len(q.buf)
  BY <1>1, <1>3
<1>5. /\ Contents(inode') /\ Clean(inode') /\ inode'.streams = inode.streams
      /\ Seen(inode') = P!Stamped(P!Written(Seen(disk), q.off, q.buf, rq.done))
  BY <1>1, StampedContents
<1>6. P!Torn(q, Seen(disk), Seen(inode')) /\ P!Kept(q, rq.done, Seen(disk), Seen(inode'))
  BY <1>1, <1>4, <1>5, WrittenTorn, WrittenKept
<1>7. QED
  BY <1>1, <1>5, <1>6, AnswerKeeps

LEMMA ReadPieceKeeps == ASSUME FileInv, ReadPiece PROVE FileInv'
<1> DEFINE q == rq.q
<1>1. PICK k \in 1 .. ReadSize - rq.done :
         rq' = [rq EXCEPT !.done = @ + k, !.got = @ \o P!Slice(inode, q.off + rq.done, k)]
  BY DEF ReadPiece
<1>2. /\ q \in FileRequests /\ q.op = "read" /\ rq.pc = "read" /\ rq.saved = TRUE /\ IsRq(rq)
      /\ kind' = kind /\ disk' = disk /\ inode' = inode /\ inode = disk
      /\ Contents(disk)
      /\ rq.done \in 0 .. ReadSize
      /\ rq.got = Stretch(disk, q.off, rq.done)
  BY DEF ReadPiece, At, FileInv, Shaped, Serving, UnderWay
<1>3. q.off \in Nat /\ q.len \in Nat /\ disk.size \in Nat
  BY <1>2, RequestShapes, PlacesNat DEF Contents
<1>4. ReadSize \in Nat /\ (ReadSize > 0 => q.off + ReadSize <= disk.size)
  BY <1>2, <1>3 DEF ReadSize, P!Bigger, P!Smaller
<1> DEFINE d == rq.done
<1>5. d \in Nat /\ k \in Nat \ {0} /\ d + k \in 0 .. ReadSize /\ q.off + d + k <= disk.size
  <2>1. PICK n \in Nat : n = ReadSize
    BY <1>4
  <2>2. d \in 0 .. n /\ k \in 1 .. n - d /\ (n > 0 => q.off + n <= disk.size)
    BY <1>2, <1>4, <2>1
  <2> HIDE DEF d
  <2>3. d \in Nat /\ k \in Nat \ {0} /\ d + k \in 0 .. n
    BY <2>2
  <2>4. q.off + d + k <= disk.size
    BY <1>3, <2>2, <2>3
  <2>5. QED
    BY <2>1, <2>3, <2>4
<1>6. /\ IsRq(rq') /\ rq'.done = d + k /\ rq'.got = rq.got \o P!Slice(disk, q.off + d, k)
      /\ rq'.q = q /\ rq'.pc = "read" /\ rq'.saved = TRUE
  BY <1>1, <1>2 DEF IsRq
<1>7. rq'.got = Stretch(disk, q.off, d + k)
  <2>1. rq.got = Stretch(disk, q.off, d) /\ Contents(disk)
    BY <1>2
  <2> HIDE DEF q, d
  <2>2. Joined(rq.got, P!Slice(disk, q.off + d, k)) = Stretch(disk, q.off, d + k)
    BY <1>3, <1>5, <2>1, SliceGrows
  <2>3. QED
    BY <1>6, <2>2 DEF Joined
<1>8. P!Torn(q, Seen(disk), Seen(disk))
  BY <1>2, NothingKept
<1>9. ReadSize' = ReadSize
  BY <1>2, <1>6 DEF ReadSize
<1> HIDE DEF q, d
<1>10. Shaped'
  BY <1>2, <1>6 DEF FileInv, Shaped, Clean
<1>11. UnderWay'
  BY <1>2, <1>5, <1>6, <1>7, <1>9 DEF UnderWay, At
<1>12. Serving' /\ NoStreams' /\ ReadsExact' /\ Outcome'
  BY <1>2, <1>6, <1>8 DEF FileInv, Serving, NoStreams, ReadsExact, Outcome, At
<1>13. QED
  BY <1>10, <1>11, <1>12 DEF FileInv

LEMMA ReadEndsKeeps == ASSUME FileInv, ReadEnds PROVE FileInv'
<1> DEFINE q == rq.q
<1>1. /\ q \in FileRequests /\ q.op = "read" /\ rq.pc = "read"
      /\ kind' = kind /\ disk' = disk /\ inode = disk /\ Contents(disk) /\ Clean(disk)
      /\ rq.got = Stretch(disk, q.off, rq.done)
  BY DEF ReadEnds, At, FileInv, Shaped, Serving, UnderWay
<1>2. CASE rq.done = ReadSize /\ Answers(rq.got) /\ UNCHANGED inode
  <2>1. rq.got = P!Slice(disk, q.off, q.len)
    BY <1>1, <1>2 DEF ReadSize, P!Slice, Stretch
  <2>2. rq.got = P!Slice(Seen(disk), q.off, q.len)
    BY <2>1, SliceSeen
  <2>3. P!Kept(q, rq.got, Seen(disk), Seen(disk))
    BY <1>1, <2>2 DEF P!Kept, P!ReadBack
  <2>4. P!Torn(q, Seen(disk), Seen(disk))
    BY <1>1, NothingKept
  <2>5. Contents(inode') /\ Clean(inode') /\ inode' = disk
    BY <1>1, <1>2 DEF Clean
  <2>6. QED
    BY <1>1, <1>2, <2>3, <2>4, <2>5, AnswerKeeps
<1>3. CASE Fails
  BY <1>1, <1>3, FailsKeeps
<1>4. QED
  BY <1>2, <1>3 DEF ReadEnds

LEMMA SetSizeKeeps == ASSUME FileInv, SetSize PROVE FileInv'
<1> DEFINE q == rq.q
           f == Seen(disk)
<1>1. /\ q \in FileRequests /\ q.op = "attrs" /\ rq.pc = "attrs" /\ rq.saved = TRUE /\ IsRq(rq)
      /\ kind' = kind /\ disk' = disk /\ inode = disk /\ kind \in Kinds
      /\ Contents(disk) /\ Clean(disk)
  BY DEF SetSize, At, FileInv, Shaped, Serving, UnderWay
<1>2. q.size \in 0 .. MaxEnd
  BY <1>1, RequestShapes
<1>3. ASSUME Goes("rest"), Contents(inode'), Clean(inode'), inode'.streams = inode.streams,
             Seen(inode') = P!WithAttrs(f, q, q.which \cap {"size"})
      PROVE  FileInv'
  <2>1. /\ IsRq(rq') /\ rq'.pc = "rest" /\ rq'.q = q /\ rq'.saved = TRUE
    BY <1>1, <1>3, Going
  <2>2. P!Torn(q, f, Seen(inode'))
    <3>1. q.which \cap {"size"} \in SUBSET q.which
      OBVIOUS
    <3>2. QED
      BY <1>1, <1>3, <3>1 DEF P!Torn
  <2> HIDE DEF q, f
  <2>3. Shaped'
    BY <1>1, <1>3, <2>1 DEF FileInv, Shaped, Clean
  <2>4. Serving' /\ NoStreams' /\ ReadsExact'
    BY <1>1, <1>3, <2>1 DEF FileInv, Serving, NoStreams, ReadsExact, At
  <2>5. UnderWay' /\ Outcome'
    BY <1>1, <1>3, <2>1, <2>2 DEF UnderWay, Outcome, At, f
  <2>6. QED
    BY <2>3, <2>4, <2>5 DEF FileInv
<1>4. CASE ~Asks("size") /\ Goes("rest") /\ UNCHANGED inode
  <2>1. q.which \cap {"size"} = {}
    BY <1>4 DEF Asks
  <2>2. f = P!WithAttrs(f, q, {})
    BY SizeAlone, SeenIsFile
  <2>3. Contents(inode') /\ Clean(inode') /\ inode' = disk
    BY <1>1, <1>4 DEF Clean
  <2>4. Seen(inode') = P!WithAttrs(f, q, q.which \cap {"size"})
    BY <2>1, <2>2, <2>3
  <2>5. QED
    BY <1>1, <1>3, <1>4, <2>3, <2>4
<1>5. CASE Asks("size") /\ inode' = P!Stamped(NewSize(q.size)) /\ Goes("rest")
  <2>1. q.which \cap {"size"} = {"size"}
    BY <1>5 DEF Asks
  <2>2. /\ Contents(NewSize(q.size)) /\ Clean(NewSize(q.size))
        /\ Seen(NewSize(q.size)) = P!Resized(f, q.size)
    BY <1>1, <1>2, NewSizeResizes
  <2>3. NewSize(q.size).streams = inode.streams
    <3>1. P!Resized(f, q.size).streams = f.streams
      BY ResizedFields, SeenIsFile
    <3>2. QED
      BY <1>1, <2>2, <3>1, SeenIsFile
  <2>4. /\ Contents(inode') /\ Clean(inode') /\ inode'.streams = inode.streams
        /\ Seen(inode') = P!Stamped(P!Resized(f, q.size))
    BY <1>5, <2>2, <2>3, StampedContents
  <2>5. P!WithAttrs(f, q, {"size"}) = P!Stamped(P!Resized(f, q.size))
    BY SizeAlone, SeenIsFile
  <2>6. QED
    BY <1>3, <1>5, <2>1, <2>4, <2>5
<1>6. CASE Fails
  BY <1>1, <1>6, FailsKeeps
<1>7. QED
  BY <1>4, <1>5, <1>6 DEF SetSize

LEMMA SetRestKeeps == ASSUME FileInv, SetRest PROVE FileInv'
<1> DEFINE q == rq.q
           f == Seen(disk)
           g == Seen(inode)
           t == WithTimes(inode)
           sized == q.which \cap {"size"}
<1>1. /\ q \in FileRequests /\ q.op = "attrs" /\ rq.pc = "rest"
      /\ kind' = kind /\ disk' = disk /\ Contents(inode) /\ Clean(inode)
      /\ Seen(inode) = P!WithAttrs(f, q, sized)
  BY DEF SetRest, At, FileInv, Shaped, Serving, UnderWay
<1>2. q.mtime \in Nat /\ q.hidden \in BOOLEAN
  BY <1>1, RequestShapes
<1>3. IsInode(inode)
  BY <1>1 DEF Contents
<1>4. /\ IsInode(t) /\ t.size = inode.size /\ t.bytes = inode.bytes /\ t.init = inode.init
      /\ t.streams = inode.streams /\ t.hidden = inode.hidden
      /\ t.mtime = IF Asks("times") THEN q.mtime ELSE inode.mtime
  BY <1>3 DEF WithTimes, IsInode, Fields
<1>5. ASSUME NEW h, NEW n, h = inode', Answers(n), NEW which, which \subseteq q.which,
             P!Kept(q, n, f, P!WithAttrs(f, q, which)), which \cap {"size"} = sized,
             IsInode(h), h.size = inode.size, h.bytes = inode.bytes, h.init = inode.init,
             h.streams = inode.streams,
             h.mtime = IF "times" \in which THEN q.mtime ELSE inode.mtime,
             h.hidden = IF "flags" \in which THEN q.hidden ELSE inode.hidden
      PROVE  FileInv'
  <2>1. Contents(h)
    BY <1>1, <1>2, <1>5 DEF Contents
  <2>2. Clean(h)
    BY <1>1, <1>5 DEF Clean
  <2>3. Seen(h) = P!WithAttrs(f, q, which)
    <3> DEFINE s == Seen(h)
    <3>1. /\ IsFile(s) /\ IsFile(f) /\ IsFile(g) /\ g = P!WithAttrs(f, q, which \cap {"size"})
          /\ s.size = g.size /\ s.bytes = g.bytes /\ s.streams = g.streams
          /\ s.mtime = IF "times" \in which THEN q.mtime ELSE g.mtime
          /\ s.hidden = IF "flags" \in which THEN q.hidden ELSE g.hidden
      BY <1>1, <1>5, SeenIsFile
    <3> HIDE DEF s, g
    <3>2. s = P!WithAttrs(f, q, which)
      BY <3>1, AttrsCompleted
    <3>3. QED
      BY <3>2 DEF s
  <2>4. P!Torn(q, f, Seen(h))
    <3>1. which \in SUBSET q.which
      BY <1>5
    <3>2. QED
      BY <1>1, <2>3, <3>1 DEF P!Torn
  <2>5. QED
    BY <1>1, <1>5, <2>1, <2>2, <2>3, <2>4, AnswerKeeps
<1>6. CASE /\ Answers(0)
           /\ inode' = IF Asks("flags") THEN [t EXCEPT !.hidden = q.hidden] ELSE t
  <2> DEFINE h == IF Asks("flags") THEN [t EXCEPT !.hidden = q.hidden] ELSE t
  <2> HIDE DEF t
  <2>1. /\ IsInode(h) /\ h.size = inode.size /\ h.bytes = inode.bytes /\ h.init = inode.init
        /\ h.streams = inode.streams /\ h.mtime = t.mtime
        /\ h.hidden = IF Asks("flags") THEN q.hidden ELSE inode.hidden
    BY <1>4 DEF IsInode, Fields
  <2>2. P!Kept(q, 0, f, P!WithAttrs(f, q, q.which))
    BY <1>1, NtfsFileAssumption DEF P!Kept, P!AttrsKept
  <2> HIDE DEF h
  <2>3. /\ h.mtime = IF "times" \in q.which THEN q.mtime ELSE inode.mtime
        /\ h.hidden = IF "flags" \in q.which THEN q.hidden ELSE inode.hidden
    BY <1>4, <2>1 DEF Asks
  <2>4. h = inode' /\ q.which \subseteq q.which /\ q.which \cap {"size"} = sized
    BY <1>6 DEF h
  <2>5. QED
    BY <1>5, <1>6, <2>1, <2>2, <2>3, <2>4
<1>7. CASE Asks("flags") /\ Answers(Error) /\ inode' = t
  <2> DEFINE which == q.which \ {"flags"}
  <2> HIDE DEF t
  <2>1. P!Kept(q, Error, f, P!WithAttrs(f, q, which))
    BY <1>1 DEF P!Kept, P!AttrsKept
  <2>2. /\ which \subseteq q.which /\ which \cap {"size"} = sized
        /\ "times" \in which <=> "times" \in q.which
        /\ "flags" \notin which
    OBVIOUS
  <2> HIDE DEF which
  <2>3. /\ t.mtime = IF "times" \in which THEN q.mtime ELSE inode.mtime
        /\ t.hidden = IF "flags" \in which THEN q.hidden ELSE inode.hidden
    BY <1>4, <2>2 DEF Asks
  <2>4. QED
    BY <1>4, <1>5, <1>7, <2>1, <2>2, <2>3
<1>8. QED
  BY <1>6, <1>7 DEF SetRest

\* A stream of the inode.
LEMMA StreamedContents ==
    ASSUME NEW f, Contents(f), NEW name \in XNames, NEW v \in StreamValues
    PROVE  LET g == P!WithStream(f, name, v) IN
           /\ Contents(g) /\ (Clean(f) => Clean(g))
           /\ Seen(g) = P!WithStream(Seen(f), name, v)
<1> DEFINE g == P!WithStream(f, name, v)
           h == P!WithStream(Seen(f), name, v)
<1>1. IsInode(f) /\ f.streams \in [XNames -> StreamValues]
  BY DEF Contents
<1>2. /\ IsInode(g) /\ g.streams = [f.streams EXCEPT ![name] = v]
      /\ g.size = f.size /\ g.bytes = f.bytes /\ g.init = f.init
      /\ g.mtime = f.mtime /\ g.hidden = f.hidden
  BY <1>1 DEF P!WithStream, IsInode, Fields
<1>3. /\ IsFile(h) /\ h.streams = [f.streams EXCEPT ![name] = v]
      /\ h.size = f.size /\ h.bytes = f.bytes /\ h.mtime = f.mtime /\ h.hidden = f.hidden
  <2> DEFINE e == Seen(f)
  <2>1. IsFile(e)
    BY SeenIsFile
  <2> HIDE DEF e
  <2> DEFINE k == P!WithStream(e, name, v)
  <2>2. /\ IsFile(k) /\ k.streams = [e.streams EXCEPT ![name] = v]
        /\ k.size = e.size /\ k.bytes = e.bytes /\ k.mtime = e.mtime /\ k.hidden = e.hidden
    BY <2>1, WithStreamFields
  <2>3. QED
    BY <2>2, SeenIsFile DEF e
<1> HIDE DEF g, h
<1>4. g.streams \in [XNames -> StreamValues]
  BY <1>1, <1>2
<1>5. Contents(g)
  BY <1>2, <1>4 DEF Contents
<1>6. Clean(f) => Clean(g)
  BY <1>2 DEF Clean
<1>7. Seen(g) = h
  BY <1>2, <1>3, SeenIsFile, SameFile
<1>8. QED
  BY <1>5, <1>6, <1>7 DEF g, h

\* The last value counts.
LEMMA StreamedTwice ==
    ASSUME NEW f, IsFile(f), NEW name, NEW w, NEW v
    PROVE  P!WithStream(P!WithStream(f, name, w), name, v) = P!WithStream(f, name, v)
<1> DEFINE e == P!WithStream(f, name, w)
           g == P!WithStream(e, name, v)
           h == P!WithStream(f, name, v)
<1>1. /\ IsFile(e) /\ e.streams = [f.streams EXCEPT ![name] = w]
      /\ e.size = f.size /\ e.bytes = f.bytes /\ e.mtime = f.mtime /\ e.hidden = f.hidden
  BY WithStreamFields
<1>2. /\ IsFile(h) /\ h.streams = [f.streams EXCEPT ![name] = v]
      /\ h.size = f.size /\ h.bytes = f.bytes /\ h.mtime = f.mtime /\ h.hidden = f.hidden
  BY WithStreamFields
<1> HIDE DEF e
<1>3. /\ IsFile(g) /\ g.streams = [e.streams EXCEPT ![name] = v]
      /\ g.size = e.size /\ g.bytes = e.bytes /\ g.mtime = e.mtime /\ g.hidden = e.hidden
  BY <1>1, WithStreamFields
<1> HIDE DEF g, h
<1>4. g.streams = h.streams
  BY <1>1, <1>2, <1>3
<1>5. g = h
  BY <1>1, <1>2, <1>3, <1>4, SameFile
<1>6. QED
  BY <1>5 DEF e, g, h

LEMMA StreamNamed ==
    ASSUME NEW f, Contents(f), NEW name \in XNames, NEW v
    PROVE  P!WithStream(Seen(f), name, v).streams[name] = v
<1> DEFINE h == P!WithStream(Seen(f), name, v)
<1>1. h.streams = [f.streams EXCEPT ![name] = v]
  <2> DEFINE e == Seen(f)
  <2>1. IsFile(e)
    BY SeenIsFile
  <2> HIDE DEF e
  <2> DEFINE k == P!WithStream(e, name, v)
  <2>2. /\ IsFile(k) /\ k.streams = [e.streams EXCEPT ![name] = v]
        /\ k.size = e.size /\ k.bytes = e.bytes /\ k.mtime = e.mtime /\ k.hidden = e.hidden
    BY <2>1, WithStreamFields
  <2>3. QED
    BY <2>2, SeenIsFile DEF e
<1>2. f.streams \in [XNames -> StreamValues]
  BY DEF Contents
<1> HIDE DEF h
<1>3. h.streams[name] = v
  BY <1>1, <1>2
<1>4. QED
  BY <1>3 DEF h

LEMMA EmptyStreamKeeps == ASSUME FileInv, EmptyStream PROVE FileInv'
<1> DEFINE q == rq.q
           f == Seen(disk)
<1>1. /\ q \in FileRequests /\ q.op = "set" /\ rq.pc = "set" /\ rq.saved = TRUE /\ IsRq(rq)
      /\ rq.done = 0 /\ kind \notin {"reparse", "system"}
      /\ kind' = kind /\ disk' = disk /\ inode = disk /\ kind \in Kinds
      /\ Contents(disk) /\ Clean(disk)
  BY DEF EmptyStream, At, FileInv, Shaped, Serving, UnderWay
<1>2. q.name \in XNames /\ q.value \in Seq(Nat) /\ Len(q.value) \in Nat
  BY <1>1, RequestShapes, LenProperties
<1>3. SubSeq(q.value, 1, 0) = << >>
  BY SubSeqEmpty
<1>4. << >> \in P!Beginnings(q.value)
  BY <1>2, <1>3 DEF P!Beginnings
<1>5. << >> \in StreamValues
  BY EmptySeq DEF StreamValues
<1>6. ASSUME WithValue(<< >>)
      PROVE  /\ Contents(inode') /\ Clean(inode') /\ Seen(inode') = P!WithStream(f, q.name, << >>)
             /\ P!Torn(q, f, Seen(inode'))
             /\ P!Kept(q, Error, f, Seen(inode'))
  <2>1. /\ Contents(inode') /\ Clean(inode') /\ Seen(inode') = P!WithStream(f, q.name, << >>)
    BY <1>1, <1>2, <1>5, <1>6, StreamedContents DEF WithValue
  <2>2. P!Torn(q, f, Seen(inode'))
    BY <1>1, <1>4, <2>1 DEF P!Torn
  <2>3. P!Kept(q, Error, f, Seen(inode'))
    BY <1>1, <1>4, <2>1 DEF P!Kept, P!StreamKept
  <2>4. QED
    BY <2>1, <2>2, <2>3
<1>7. CASE WithValue(<< >>) /\ Goes("parts")
  <2>1. /\ IsRq(rq') /\ rq'.pc = "parts" /\ rq'.q = q /\ rq'.saved = TRUE /\ rq'.done = 0
    BY <1>1, <1>7, Going
  <2>2. Seen(inode') = P!WithStream(f, q.name, SubSeq(q.value, 1, 0)) /\ 0 \in 0 .. Len(q.value)
    <3>1. 0 \in 0 .. Len(q.value)
      BY <1>2
    <3>2. QED
      BY <1>3, <1>6, <1>7, <3>1
  <2> HIDE DEF q, f
  <2>3. Shaped'
    BY <1>1, <1>6, <1>7, <2>1 DEF FileInv, Shaped, Clean
  <2>4. Serving' /\ NoStreams' /\ ReadsExact'
    BY <1>1, <2>1 DEF FileInv, Serving, NoStreams, ReadsExact, At
  <2>5. UnderWay' /\ Outcome'
    BY <1>1, <1>6, <1>7, <2>1, <2>2 DEF UnderWay, Outcome, At, f
  <2>6. QED
    BY <2>3, <2>4, <2>5 DEF FileInv
<1>8. CASE WithValue(<< >>) /\ Answers(Error)
  BY <1>1, <1>6, <1>8, AnswerKeeps
<1>9. CASE Fails
  BY <1>1, <1>9, FailsKeeps
<1>10. QED
  BY <1>7, <1>8, <1>9 DEF EmptyStream

LEMMA StreamPieceKeeps == ASSUME FileInv, StreamPiece PROVE FileInv'
<1> DEFINE q == rq.q
           f == Seen(disk)
<1>1. PICK k \in 1 .. Len(q.value) - rq.done :
         /\ WithValue(SubSeq(q.value, 1, rq.done + k)
                         \o SubSeq(Stream, rq.done + k + 1, Len(Stream)))
         /\ rq' = [rq EXCEPT !.done = @ + k]
  BY DEF StreamPiece
<1>2. /\ q \in FileRequests /\ q.op = "set" /\ rq.pc = "parts" /\ rq.saved = TRUE /\ IsRq(rq)
      /\ kind \notin {"reparse", "system"}
      /\ kind' = kind /\ disk' = disk /\ kind \in Kinds
      /\ Contents(disk) /\ Clean(disk) /\ Contents(inode) /\ Clean(inode)
      /\ rq.done \in 0 .. Len(q.value)
      /\ Seen(inode) = P!WithStream(f, q.name, SubSeq(q.value, 1, rq.done))
  BY DEF StreamPiece, At, FileInv, Shaped, Serving, UnderWay
<1>3. q.name \in XNames /\ q.value \in Seq(Nat) /\ Len(q.value) \in Nat
  BY <1>2, RequestShapes, LenProperties
<1>4. PICK d \in Nat : d = rq.done
  BY <1>2
<1>5. PICK l \in Nat : l = Len(q.value)
  BY <1>3
<1>6. k \in Nat \ {0} /\ d + k \in 0 .. l /\ d \in 0 .. l
  <2>1. k \in 1 .. l - d /\ d \in 0 .. l
    BY <1>2, <1>4, <1>5
  <2>2. QED
    BY <2>1
<1>7. \A n \in 0 .. l : SubSeq(q.value, 1, n) \in Seq(Nat) /\ Len(SubSeq(q.value, 1, n)) = n
  <2>1. ASSUME NEW n \in 0 .. l
        PROVE  SubSeq(q.value, 1, n) \in Seq(Nat) /\ Len(SubSeq(q.value, 1, n)) = n
    <3>1. \A i \in 1 .. n : i \in 1 .. Len(q.value)
      BY <1>5
    <3>2. \A i \in 1 .. n : q.value[i] \in Nat
      BY <1>3, <3>1, ElementOfSeq
    <3>3. QED
      BY <3>2, SubSeqProperties
  <2>2. QED
    BY <2>1
<1>8. Len(Stream) = d
  <2>1. Seen(inode).streams[q.name] = SubSeq(q.value, 1, d)
    <3>1. PICK x : x = SubSeq(q.value, 1, d)
      OBVIOUS
    <3>2. Seen(inode) = P!WithStream(f, q.name, x)
      BY <1>2, <1>4, <3>1
    <3>3. P!WithStream(f, q.name, x).streams[q.name] = x
      BY <1>2, <1>3, StreamNamed
    <3>4. QED
      BY <3>1, <3>2, <3>3
  <2>3. inode.streams[q.name] = SubSeq(q.value, 1, d)
    BY <2>1, SeenIsFile
  <2>4. QED
    BY <1>6, <1>7, <2>3 DEF Stream
<1>9. SubSeq(Stream, d + k + 1, Len(Stream)) = << >>
  BY <1>6, <1>8, SubSeqEmpty
<1> DEFINE v == SubSeq(q.value, 1, d + k)
<1>10. WithValue(v)
  <2>1. v \in Seq(Nat)
    BY <1>6, <1>7
  <2> HIDE DEF v
  <2>2. v \o << >> = v
    BY <2>1, ConcatEmptySeq
  <2>3. QED
    BY <1>1, <1>4, <1>9, <2>2 DEF v
<1>11. /\ Contents(inode') /\ Clean(inode') /\ Seen(inode') = P!WithStream(f, q.name, v)
  <2>1. v \in StreamValues
    BY <1>6, <1>7 DEF StreamValues
  <2> HIDE DEF v
  <2>2. QED
    <3>1. /\ Contents(inode') /\ Clean(inode') /\ Seen(inode') = P!WithStream(Seen(inode), q.name, v)
      BY <1>2, <1>3, <1>10, <2>1, StreamedContents DEF WithValue
    <3>2. QED
      BY <1>2, <3>1, StreamedTwice, SeenIsFile
<1>12. P!Torn(q, f, Seen(inode'))
  <2>1. v \in P!Beginnings(q.value)
    BY <1>5, <1>6 DEF P!Beginnings
  <2> HIDE DEF v
  <2>2. QED
    BY <1>2, <1>11, <2>1 DEF P!Torn
<1>13. /\ IsRq(rq') /\ rq'.done = d + k /\ rq'.q = q /\ rq'.pc = "parts" /\ rq'.saved = TRUE
  BY <1>1, <1>2, <1>4 DEF IsRq
<1>14. d + k \in 0 .. Len(q.value)
  BY <1>5, <1>6
<1> HIDE DEF q, f
<1>15. Shaped'
  BY <1>2, <1>11, <1>13 DEF Shaped, Clean
<1>16. Serving' /\ NoStreams' /\ ReadsExact'
  BY <1>2, <1>13 DEF Serving, NoStreams, ReadsExact, At
<1>17. UnderWay' /\ Outcome'
  BY <1>2, <1>11, <1>12, <1>13, <1>14 DEF UnderWay, Outcome, At, f
<1>18. QED
  BY <1>15, <1>16, <1>17 DEF FileInv

LEMMA StreamEndsKeeps == ASSUME FileInv, StreamEnds PROVE FileInv'
<1> DEFINE q == rq.q
           f == Seen(disk)
<1>1. /\ q \in FileRequests /\ q.op = "set" /\ rq.pc = "parts"
      /\ kind' = kind /\ disk' = disk /\ Contents(inode) /\ Clean(inode)
      /\ rq.done \in 0 .. Len(q.value)
      /\ Seen(inode) = P!WithStream(f, q.name, SubSeq(q.value, 1, rq.done))
      /\ P!Torn(q, f, Seen(inode))
  BY DEF StreamEnds, At, FileInv, Shaped, Serving, UnderWay, Outcome
<1>2. q.value \in Seq(Nat)
  BY <1>1, RequestShapes
<1>3. CASE rq.done = Len(q.value) /\ Answers(0) /\ UNCHANGED inode
  <2>1. SubSeq(q.value, 1, rq.done) = q.value
    BY <1>2, <1>3, SubSeqFull
  <2>2. P!Kept(q, 0, f, Seen(inode))
    BY <1>1, <2>1, NtfsFileAssumption DEF P!Kept, P!StreamKept
  <2>3. QED
    BY <1>1, <1>3, <2>2, AnswerKeeps
<1>4. CASE Fails
  <2>1. SubSeq(q.value, 1, rq.done) \in P!Beginnings(q.value)
    BY <1>1 DEF P!Beginnings
  <2>2. P!Kept(q, Error, f, Seen(inode))
    BY <1>1, <2>1 DEF P!Kept, P!StreamKept
  <2>3. QED
    BY <1>1, <1>4, <2>2, AnswerKeeps DEF Fails
<1>5. QED
  BY <1>3, <1>4 DEF StreamEnds

LEMMA RemoveStreamKeeps == ASSUME FileInv, RemoveStream PROVE FileInv'
<1> DEFINE q == rq.q
           f == Seen(disk)
<1>1. /\ q \in FileRequests /\ q.op = "remove" /\ rq.pc = "remove"
      /\ kind' = kind /\ disk' = disk /\ inode = disk /\ Contents(disk) /\ Clean(disk)
      /\ kind \notin {"reparse", "system"}
  BY DEF RemoveStream, At, FileInv, Shaped, Serving, UnderWay
<1>2. q.name \in XNames /\ NoStream \in StreamValues
  BY <1>1, RequestShapes DEF StreamValues
<1>3. CASE WithValue(NoStream) /\ Answers(0)
  <2>1. /\ Contents(inode') /\ Clean(inode') /\ Seen(inode') = P!WithStream(f, q.name, NoStream)
    BY <1>1, <1>2, <1>3, StreamedContents DEF WithValue
  <2>2. P!Torn(q, f, Seen(inode'))
    BY <1>1, <2>1 DEF P!Torn
  <2>3. P!Kept(q, 0, f, Seen(inode'))
    BY <1>1, <2>1, NtfsFileAssumption DEF P!Kept, P!StreamRemoved
  <2>4. QED
    BY <1>1, <1>3, <2>1, <2>2, <2>3, AnswerKeeps
<1>4. CASE Fails
  BY <1>1, <1>4, FailsKeeps
<1>5. QED
  BY <1>3, <1>4 DEF RemoveStream

\* A request that changes nothing and answers n.
LEMMA LooksKeeps ==
    ASSUME FileInv, rq.pc \notin {"idle", "done"}, inode = disk, NEW n, Answers(n),
           UNCHANGED <<kind, disk, inode>>, P!Kept(rq.q, n, Seen(disk), Seen(disk))
    PROVE  FileInv'
<1>1. P!Torn(rq.q, Seen(disk), Seen(disk))
  BY NothingKept DEF FileInv, Serving
<1>2. Contents(inode') /\ Clean(inode') /\ inode' = disk /\ inode'.streams = inode.streams
  BY DEF FileInv, Shaped, Clean
<1>3. QED
  BY <1>1, <1>2, AnswerKeeps

LEMMA GetStreamKeeps == ASSUME FileInv, GetStream PROVE FileInv'
<1>1. /\ rq.q \in FileRequests /\ rq.q.op = "get" /\ rq.pc = "get"
      /\ kind' = kind /\ disk' = disk /\ inode = disk
  BY DEF GetStream, At, FileInv, Serving, UnderWay
<1>2. CASE Answers(Stream) /\ UNCHANGED inode
  <2>1. P!Kept(rq.q, Stream, Seen(disk), Seen(disk))
    BY <1>1, SeenIsFile DEF P!Kept, P!StreamRead, Stream
  <2>2. QED
    BY <1>1, <1>2, <2>1, LooksKeeps
<1>3. CASE Fails
  BY <1>1, <1>3, FailsKeeps
<1>4. QED
  BY <1>2, <1>3 DEF GetStream

LEMMA ListStreamsKeeps == ASSUME FileInv, ListStreams PROVE FileInv'
<1> DEFINE n == IF kind \in {"reparse", "system"} THEN {} ELSE P!StreamNames(inode)
<1>1. /\ rq.q \in FileRequests /\ rq.q.op = "list" /\ rq.pc = "list"
      /\ kind' = kind /\ disk' = disk /\ inode = disk /\ Contents(disk)
  BY DEF ListStreams, At, FileInv, Shaped, Serving, UnderWay
<1>2. CASE Answers(n) /\ UNCHANGED inode
  <2>1. Seen(disk).streams = disk.streams
    BY SeenIsFile
  <2>2. n = P!StreamNames(Seen(disk))
    <3>1. CASE kind \in {"reparse", "system"}
      <4>1. DOMAIN disk.streams = XNames
        BY <1>1 DEF Contents
      <4>2. P!StreamNames(Seen(disk)) = {}
        BY <2>1, <3>1, <4>1 DEF P!StreamNames, FileInv, NoStreams
      <4>3. QED
        BY <3>1, <4>2
    <3>2. CASE kind \notin {"reparse", "system"}
      BY <1>1, <2>1, <3>2 DEF P!StreamNames
    <3>3. QED
      BY <3>1, <3>2
  <2> HIDE DEF n
  <2>3. P!Kept(rq.q, n, Seen(disk), Seen(disk))
    BY <1>1, <2>2 DEF P!Kept
  <2>4. QED
    BY <1>1, <1>2, <2>3, LooksKeeps
<1>3. CASE Fails
  BY <1>1, <1>3, FailsKeeps
<1>4. QED
  BY <1>2, <1>3 DEF ListStreams

LEMMA CloseKeeps == ASSUME FileInv, Close PROVE FileInv'
<1> DEFINE q == rq.q
<1>1. /\ q \in FileRequests /\ rq.pc = "close" /\ rq.saved = TRUE /\ IsRq(rq)
      /\ kind' = kind /\ inode' = inode /\ kind \in Kinds
      /\ Contents(inode) /\ Clean(inode) /\ Contents(disk) /\ Clean(disk)
      /\ P!Kept(q, rq.n, Seen(disk), Seen(inode))
  BY DEF Close, At, FileInv, Shaped, Serving, Outcome
<1>2. q.op \in {"write", "read", "attrs", "set", "remove", "get", "list"}
  BY <1>1, RequestShapes
<1>3. ASSUME q.op \in {"read", "get", "list"}, rq.n # Error
      PROVE  /\ Seen(inode) = Seen(disk)
             /\ q.op = "read" => rq.n = P!Slice(disk, q.off, q.len)
             /\ q.op = "get" => rq.n = disk.streams[q.name]
             /\ q.op = "list" => rq.n = P!StreamNames(disk)
  <2>1. /\ Seen(inode) = Seen(disk)
        /\ q.op = "read" => rq.n = P!Slice(Seen(disk), q.off, q.len)
        /\ q.op = "get" => rq.n = Seen(disk).streams[q.name]
        /\ q.op = "list" => rq.n = P!StreamNames(Seen(disk))
    BY <1>1, <1>3 DEF P!Kept, P!ReadBack, P!StreamRead
  <2>2. P!StreamNames(Seen(disk)) = P!StreamNames(disk)
    BY SeenIsFile DEF P!StreamNames
  <2>3. QED
    BY <2>1, <2>2, SliceSeen, SeenIsFile
<1>4. CASE disk' = inode /\ rq' = [rq EXCEPT !.pc = "done"]
  <2>1. /\ IsRq(rq') /\ rq'.pc = "done" /\ rq'.q = q /\ rq'.n = rq.n /\ rq'.saved = TRUE
    BY <1>1, <1>4 DEF IsRq
  <2>2. Shaped'
    BY <1>1, <1>4, <2>1 DEF Shaped, Clean
  <2>3. ReadsExact'
    <3>1. ASSUME q.op \in {"read", "get", "list"}, rq.n # Error
          PROVE  /\ q.op = "read" => rq.n = P!Slice(inode, q.off, q.len)
                 /\ q.op = "get" => rq.n = inode.streams[q.name]
                 /\ q.op = "list" => rq.n = P!StreamNames(inode)
      <4>1. Seen(inode) = Seen(disk)
        BY <1>3, <3>1
      <4>2. P!Slice(inode, q.off, q.len) = P!Slice(disk, q.off, q.len)
        <5>1. /\ P!Slice(inode, q.off, q.len) = P!Slice(Seen(inode), q.off, q.len)
              /\ P!Slice(disk, q.off, q.len) = P!Slice(Seen(disk), q.off, q.len)
          BY SliceSeen
        <5>2. QED
          BY <4>1, <5>1
      <4>3. inode.streams = disk.streams
        BY <4>1, SeenIsFile
      <4>4. P!StreamNames(inode) = P!StreamNames(disk)
        BY <4>3 DEF P!StreamNames
      <4>5. QED
        BY <1>3, <3>1, <4>2, <4>3, <4>4
    <3> HIDE DEF q
    <3>2. QED
      BY <1>4, <2>1, <3>1 DEF ReadsExact, At
  <2> HIDE DEF q
  <2>4. Serving' /\ NoStreams' /\ UnderWay' /\ Outcome'
    BY <1>1, <1>4, <2>1 DEF FileInv, Serving, NoStreams, UnderWay, Outcome, At
  <2>5. QED
    BY <2>2, <2>3, <2>4 DEF FileInv
<1>5. CASE /\ disk' \in Halfway
           /\ rq' = [rq EXCEPT !.pc = "done", !.saved = FALSE,
                               !.n = IF rq.q.op \in {"write", "read"} /\ rq.done > 0
                                     THEN @ ELSE Error]
  <2>1. /\ Contents(disk') /\ Clean(disk') /\ disk'.streams = disk.streams
        /\ q.op # "write" => disk' = disk
    BY <1>1, <1>5, HalfwayKeeps DEF FileInv
  <2>2. /\ IsRq(rq') /\ rq'.pc = "done" /\ rq'.q = q /\ rq'.saved = FALSE
        /\ rq'.n = Error \/ (q.op \in {"write", "read"} /\ rq'.n = rq.n)
    BY <1>1, <1>5 DEF IsRq
  <2> HIDE DEF q
  <2>3. Shaped'
    BY <1>1, <2>1, <2>2 DEF Shaped, Clean
  <2>4. ReadsExact'
    BY <1>3, <2>1, <2>2 DEF ReadsExact, At
  <2>5. Serving' /\ NoStreams' /\ UnderWay' /\ Outcome'
    BY <1>1, <2>1, <2>2 DEF FileInv, Serving, NoStreams, UnderWay, Outcome, At
  <2>6. QED
    BY <2>3, <2>4, <2>5 DEF FileInv
<1>6. QED
  BY <1>4, <1>5 DEF Close

\* With no request under way.
LEMMA IdleKeeps ==
    ASSUME FileInv, kind' = kind, inode' = inode, rq' = Idle, Contents(disk'), Clean(disk'),
           kind \in {"reparse", "system"} => disk'.streams \in {disk.streams, inode.streams}
    PROVE  FileInv'
<1>1. /\ IsRq(rq') /\ rq'.pc = "idle" /\ rq'.saved = TRUE
  BY IdleFields
<1>2. Shaped'
  BY <1>1 DEF FileInv, Shaped, Clean
<1>3. NoStreams'
  BY DEF FileInv, NoStreams
<1>4. Serving' /\ ReadsExact' /\ UnderWay' /\ Outcome'
  BY <1>1 DEF Serving, ReadsExact, UnderWay, Outcome, At
<1>5. QED
  BY <1>2, <1>3, <1>4 DEF FileInv

LEMMA ReturnKeeps == ASSUME FileInv, Return PROVE FileInv'
BY IdleKeeps DEF Return, FileInv, Shaped, Clean

LEMMA DieKeeps == ASSUME FileInv, Die PROVE FileInv'
<1>1. rq.pc \notin {"idle", "done"} /\ rq' = Idle /\ kind' = kind /\ inode' = inode
  BY DEF Die
<1>2. CASE disk' \in Halfway
  BY <1>1, <1>2, HalfwayKeeps, IdleKeeps DEF FileInv, Clean
<1>3. CASE disk' = inode
  BY <1>1, <1>3, IdleKeeps DEF FileInv, Shaped, Clean
<1>4. QED
  BY <1>2, <1>3 DEF Die

LEMMA FileStarts == FileInit /\ ~Prepared => FileInv
<1> SUFFICES ASSUME FileInit, ~Prepared PROVE FileInv
  OBVIOUS
<1>1. /\ kind \in Kinds /\ inode = disk /\ rq = Idle
      /\ disk = [size |-> 0, bytes |-> [p \in P!Places |-> 0], init |-> 0, mtime |-> Now,
                 hidden |-> FALSE, streams |-> [x \in XNames |-> NoStream]]
  BY DEF FileInit
<1>2. /\ IsInode(disk) /\ disk.size = 0 /\ disk.bytes = [p \in P!Places |-> 0] /\ disk.init = 0
      /\ disk.mtime = Now /\ disk.hidden = FALSE /\ disk.streams = [x \in XNames |-> NoStream]
  BY <1>1 DEF IsInode, Fields
<1>3. Contents(disk)
  <2>1. disk.bytes \in [P!Places -> Nat]
    BY <1>2
  <2>2. disk.streams \in [XNames -> StreamValues]
    BY <1>2 DEF StreamValues
  <2>3. disk.size \in 0 .. MaxEnd /\ disk.init \in Nat /\ disk.mtime \in Nat
    BY <1>2, NtfsFileAssumption
  <2>4. disk.hidden \in BOOLEAN
    BY <1>2
  <2>5. QED
    BY <1>2, <2>1, <2>2, <2>3, <2>4 DEF Contents
<1>4. Clean(disk)
  BY <1>2 DEF Clean
<1>5. rq.pc = "idle" /\ rq.saved = TRUE /\ IsRq(rq)
  BY <1>1, IdleFields
<1>6. Shaped
  BY <1>1, <1>3, <1>4, <1>5 DEF Shaped
<1>7. NoStreams
  BY <1>1, <1>2 DEF NoStreams
<1>8. Serving /\ ReadsExact /\ UnderWay /\ Outcome
  BY <1>5 DEF Serving, ReadsExact, UnderWay, Outcome, At
<1>9. QED
  BY <1>6, <1>7, <1>8 DEF FileInv

LEMMA FileKeeps == FileInv /\ [FileNext]_fileVars => FileInv'
<1> SUFFICES ASSUME FileInv, [FileNext]_fileVars PROVE FileInv'
  OBVIOUS
<1>1. CASE UNCHANGED fileVars
  BY <1>1 DEF fileVars, FileInv, Shaped, Serving, NoStreams, UnderWay, Outcome, ReadsExact, At,
              Clean, ReadSize
<1>2. CASE FileNext
  BY <1>2, OpenKeeps, WritePieceKeeps, WriteStopsKeeps, WriteEndsKeeps, ReadPieceKeeps,
     ReadEndsKeeps, SetSizeKeeps, SetRestKeeps, EmptyStreamKeeps, StreamPieceKeeps,
     StreamEndsKeeps, RemoveStreamKeeps, GetStreamKeeps, ListStreamsKeeps, CloseKeeps,
     ReturnKeeps, DieKeeps DEF FileNext
<1>3. QED
  BY <1>1, <1>2

LEMMA FileAlways == ASSUME ~Prepared PROVE FileSpec => []FileInv
<1>1. FileInit => FileInv
  BY FileStarts
<1>2. QED
  BY <1>1, FileKeeps, PTL DEF FileSpec

\* Unless another system has left a compressed file half initialised, what a read,
\* getxattr or listxattr that succeeds returns is what the disk holds, for files,
\* requests and streams of any number and length, and wherever calls fail, do less
\* than they were asked, or the process dies.
THEOREM ReadsExactCorrect == ASSUME ~Prepared PROVE FileSpec => []ReadsExact
<1>1. FileInv => ReadsExact
  BY DEF FileInv
<1>2. QED
  BY <1>1, FileAlways, PTL

(***************************************************************************)
(* NTFS: the promise is kept.                                               *)
(***************************************************************************)
LEMMA PromiseStarts == FileInit /\ ~Prepared => P!PosixInit
<1> SUFFICES ASSUME FileInit, ~Prepared PROVE P!PosixInit
  OBVIOUS
<1>1. /\ rq = Idle
      /\ disk = [size |-> 0, bytes |-> [p \in P!Places |-> 0], init |-> 0, mtime |-> Now,
                 hidden |-> FALSE, streams |-> [x \in XNames |-> NoStream]]
  BY DEF FileInit
<1>2. Reply = P!NoReply
  BY <1>1, IdleFields DEF Reply, P!NoReply, Nothing
<1>3. Seen(disk) \in [size : 0 .. MaxEnd, bytes : [P!Places -> Nat], mtime : Nat,
                      hidden : BOOLEAN, streams : Streams]
  <2>1. /\ disk.size = 0 /\ disk.bytes = [p \in P!Places |-> 0]
        /\ disk.mtime = Now /\ disk.hidden = FALSE /\ disk.streams = [x \in XNames |-> NoStream]
    BY <1>1
  <2>2. /\ disk.size \in 0 .. MaxEnd /\ disk.bytes \in [P!Places -> Nat] /\ disk.mtime \in Nat
        /\ disk.hidden \in BOOLEAN /\ disk.streams \in Streams
    <3>1. disk.bytes \in [P!Places -> Nat]
      BY <2>1
    <3>2. disk.streams \in Streams
      BY <2>1 DEF Streams
    <3>3. disk.size \in 0 .. MaxEnd /\ disk.mtime \in Nat
      BY <2>1, NtfsFileAssumption
    <3>4. disk.hidden \in BOOLEAN
      BY <2>1
    <3>5. QED
      BY <3>1, <3>2, <3>3, <3>4
  <2>3. QED
    BY <2>2 DEF Seen
<1>4. QED
  BY <1>2, <1>3 DEF P!PosixInit

Promised == [P!Answer \/ P!Return \/ P!Die]_<<Seen(disk), Reply>>

\* A step on the open inode shows nothing.
LEMMA WorkUnseen ==
    ASSUME disk' = disk, rq.pc # "done", rq'.pc # "done"
    PROVE  Promised
<1>1. Reply' = Reply
  BY DEF Reply
<1>2. Seen(disk)' = Seen(disk)
  BY DEF Seen
<1>3. QED
  BY <1>1, <1>2 DEF Promised

LEMMA RequestsWork ==
    ASSUME FileInv,
           \/ \E q \in FileRequests : Open(q)
           \/ WritePiece \/ WriteStops \/ WriteEnds \/ ReadPiece \/ ReadEnds
           \/ SetSize \/ SetRest \/ EmptyStream \/ StreamPiece \/ StreamEnds \/ RemoveStream
           \/ GetStream \/ ListStreams
    PROVE  Promised
<1>1. IsRq(rq)
  BY DEF FileInv, Shaped
<1>2. CASE \E q \in FileRequests : Open(q)
  <2>1. PICK q \in FileRequests : Open(q)
    BY <1>2
  <2>2. q.op # "done"
    BY RequestShapes
  <2>3. rq.pc # "done" /\ disk' = disk /\ (rq'.pc = q.op \/ rq'.pc = "close")
    BY <2>1, IdleFields DEF Open, At, IsRq
  <2>4. QED
    BY <2>2, <2>3, WorkUnseen
<1>3. CASE WritePiece \/ ReadPiece \/ StreamPiece
  <2>1. rq.pc # "done" /\ disk' = disk
    BY <1>3 DEF WritePiece, ReadPiece, StreamPiece, At
  <2>2. rq'.pc = rq.pc
    BY <1>1, <1>3 DEF WritePiece, ReadPiece, StreamPiece, IsRq
  <2>3. QED
    BY <2>1, <2>2, WorkUnseen
<1>4. CASE SetSize \/ EmptyStream
  <2>1. rq.pc # "done" /\ disk' = disk
    BY <1>4 DEF SetSize, EmptyStream, At
  <2>2. rq'.pc \in {"rest", "parts", "close"}
    <3>1. Goes("rest") \/ Goes("parts") \/ Answers(Error)
      BY <1>4 DEF SetSize, EmptyStream, Fails
    <3>2. QED
      BY <1>1, <3>1, Going, Answering
  <2>3. QED
    BY <2>1, <2>2, WorkUnseen
<1>5. CASE WriteStops \/ WriteEnds \/ ReadEnds \/ SetRest \/ StreamEnds \/ RemoveStream
           \/ GetStream \/ ListStreams
  <2>1. rq.pc # "done" /\ disk' = disk
    BY <1>5 DEF WriteStops, WriteEnds, ReadEnds, SetRest, StreamEnds, RemoveStream, GetStream,
                ListStreams, At
  <2>2. \E n : Answers(n)
    BY <1>5 DEF WriteStops, WriteEnds, ReadEnds, SetRest, StreamEnds, RemoveStream, GetStream,
                ListStreams, Fails
  <2>3. rq'.pc = "close"
    BY <1>1, <2>2, Answering
  <2>4. QED
    BY <2>1, <2>3, WorkUnseen
<1>6. QED
  BY <1>2, <1>3, <1>4, <1>5

LEMMA CloseAnswers == ASSUME FileInv, Close PROVE P!Answer
<1> DEFINE q == rq.q
           f == Seen(disk)
<1>1. /\ q \in FileRequests /\ rq.pc = "close" /\ rq.saved = TRUE /\ IsRq(rq)
      /\ P!Kept(q, rq.n, f, Seen(inode))
  BY DEF Close, At, FileInv, Shaped, Serving, Outcome
<1>2. Reply = P!NoReply
  BY <1>1 DEF Reply, P!NoReply, Nothing
<1>3. ASSUME rq'.pc = "done", rq'.q = q, rq'.saved \in BOOLEAN
      PROVE  /\ Reply'.q = q /\ Reply'.n = rq'.n /\ Reply'.saved = rq'.saved
             /\ Reply' # P!NoReply
  <2>1. Reply' = [q |-> q, n |-> rq'.n, saved |-> rq'.saved]
    BY <1>3 DEF Reply
  <2>2. q # [op |-> "none"]
    BY <1>1, RequestShapes
  <2>3. QED
    BY <2>1, <2>2 DEF P!NoReply
<1>4. CASE disk' = inode /\ rq' = [rq EXCEPT !.pc = "done"]
  <2>1. rq'.pc = "done" /\ rq'.q = q /\ rq'.n = rq.n /\ rq'.saved = TRUE
    BY <1>1, <1>4 DEF IsRq
  <2>2. Seen(disk)' = Seen(inode)
    BY <1>4 DEF Seen
  <2> HIDE DEF q
  <2>3. /\ Reply'.q = q /\ Reply'.n = rq.n /\ Reply'.saved = TRUE /\ Reply' # P!NoReply
    BY <1>3, <2>1
  <2>4. QED
    BY <1>1, <1>2, <2>2, <2>3 DEF P!Answer
<1>5. CASE /\ disk' \in Halfway
           /\ rq' = [rq EXCEPT !.pc = "done", !.saved = FALSE,
                               !.n = IF rq.q.op \in {"write", "read"} /\ rq.done > 0
                                     THEN @ ELSE Error]
  <2>1. rq'.pc = "done" /\ rq'.q = q /\ rq'.saved = FALSE
    BY <1>1, <1>5 DEF IsRq
  <2>2. P!Torn(q, f, Seen(disk'))
    BY <1>1, <1>5, HalfwayKeeps DEF FileInv
  <2>3. Seen(disk)' = Seen(disk')
    BY DEF Seen
  <2> HIDE DEF q
  <2>4. /\ Reply'.q = q /\ Reply'.saved = FALSE /\ Reply' # P!NoReply
    BY <1>3, <2>1
  <2>5. QED
    BY <1>1, <1>2, <2>2, <2>3, <2>4 DEF P!Answer
<1>6. QED
  BY <1>4, <1>5 DEF Close

LEMMA ReturnReturns == ASSUME FileInv, Return PROVE P!Return
<1>1. /\ rq.pc = "done" /\ rq.q \in FileRequests /\ rq'.pc = "idle" /\ disk' = disk
  BY IdleFields DEF Return, At, FileInv, Serving
<1>2. rq.q # [op |-> "none"]
  BY <1>1, RequestShapes
<1>3. Reply # P!NoReply
  BY <1>1, <1>2 DEF Reply, P!NoReply
<1>4. Reply' = P!NoReply
  BY <1>1 DEF Reply, P!NoReply, Nothing
<1>5. Seen(disk)' = Seen(disk)
  BY <1>1 DEF Seen
<1>6. QED
  BY <1>3, <1>4, <1>5 DEF P!Return

LEMMA DieDies == ASSUME FileInv, Die PROVE P!Die
<1>1. /\ rq.pc \notin {"idle", "done"} /\ rq.q \in FileRequests /\ rq'.pc = "idle"
      /\ P!Torn(rq.q, Seen(disk), Seen(inode))
  BY IdleFields DEF Die, FileInv, Serving, Outcome
<1>2. Reply = P!NoReply /\ Reply' = P!NoReply
  BY <1>1 DEF Reply, P!NoReply, Nothing
<1>3. P!Torn(rq.q, Seen(disk), Seen(disk'))
  <2>1. CASE disk' \in Halfway
    BY <1>1, <2>1, HalfwayKeeps DEF FileInv
  <2>2. CASE disk' = inode
    BY <1>1, <2>2
  <2>3. QED
    BY <2>1, <2>2 DEF Die
<1>4. Seen(disk)' = Seen(disk')
  BY DEF Seen
<1>5. QED
  BY <1>1, <1>2, <1>3, <1>4 DEF P!Die

LEMMA StepPromised == FileInv /\ [FileNext]_fileVars => Promised
<1> SUFFICES ASSUME FileInv, [FileNext]_fileVars PROVE Promised
  OBVIOUS
<1>1. CASE UNCHANGED fileVars
  BY <1>1 DEF fileVars, Promised, Seen, Reply
<1>2. CASE Close \/ Return \/ Die
  BY <1>2, CloseAnswers, ReturnReturns, DieDies DEF Promised
<1>3. CASE FileNext /\ ~(Close \/ Return \/ Die)
  BY <1>3, RequestsWork DEF FileNext
<1>4. QED
  BY <1>1, <1>2, <1>3

\* The bridge implements PosixFile: under the same assumption every behaviour, with
\* the disk as the file and what is on its way to the client as the answer, is one
\* the promise allows.
THEOREM PosixSpecCorrect == ASSUME ~Prepared PROVE FileSpec => PosixSpec
<1>1. FileInit => P!PosixInit
  BY PromiseStarts
<1>2. FileInv /\ [FileNext]_fileVars => [P!Answer \/ P!Return \/ P!Die]_<<Seen(disk), Reply>>
  BY StepPromised DEF Promised
<1>3. QED
  BY <1>1, <1>2, FileAlways, PTL DEF FileSpec, PosixSpec, P!PosixSpec

=============================================================================
