------------------------------- MODULE NtfsFile -------------------------------
(***************************************************************************)
(* One file of an NTFS volume: the bridge's read, write, setattr, getxattr,    *)
(* setxattr and removexattr (bridge/ntfs_fskit.c) below NTFSVolume.swift.     *)
(*                                                                         *)
(* Each opens the inode, calls libntfs-3g in a loop or one call after the      *)
(* other, any of which may fail or do less than it was asked, and closes the    *)
(* inode, which is when the record reaches the disk.  The bridge lock keeps    *)
(* requests apart; the process may die within one.                            *)
(***************************************************************************)
EXTENDS Integers, Sequences

CONSTANTS
    MaxEnd,     \* bound: bytes of the file
    Bufs,       \* what clients write, sequences of bytes
    XNames,     \* names of streams
    XValues,    \* values of streams, sequences of parts
    Times, Now, \* modification times that are asked for; the present
    MaxXattr,   \* parts of a value that NTFSVolume.xattr has room for
    Prepared,   \* TRUE: another system may have left a compressed file whose data
                \* is initialised up to a place before its end
    Error,      \* an answer: the request failed
    NoStream    \* a stream that does not exist

ASSUME NtfsFileAssumption ==
    /\ MaxEnd \in Nat /\ MaxXattr \in Nat
    /\ Bufs \subseteq Seq(Nat) \ {<< >>} /\ XValues \subseteq Seq(Nat)
    /\ Times \subseteq Nat /\ Now \in Nat
    /\ Prepared \in BOOLEAN /\ Error # 0

Kinds == {"plain", "compressed", "reparse", "system"}
Streams == [XNames -> XValues \cup {NoStream}]

FileRequests ==
    {q \in [op : {"write"}, off : 0 .. MaxEnd, buf : Bufs] : q.off + Len(q.buf) <= MaxEnd}
    \cup [op : {"read"}, off : 0 .. MaxEnd, len : 1 .. MaxEnd]
    \cup {q \in [op : {"attrs"}, which : SUBSET {"size", "times", "flags"} \ {{}},
                 size : 0 .. MaxEnd, mtime : Times, hidden : BOOLEAN] :
             ("size" \notin q.which => q.size = 0) /\ ("flags" \notin q.which => ~q.hidden)}
    \cup [op : {"set"}, name : XNames, value : XValues]
    \cup [op : {"remove", "get"}, name : XNames]
    \cup [op : {"list"}]

VARIABLES
    kind,       \* of the file; "system" for the records below FILE_first_user
    disk,       \* the file on disk: size, bytes, mtime, hidden, streams, and init,
                \* the initialized_size of its data
    inode,      \* the inode that is open
    rq          \* the request under way: q, pc, done (bytes or parts so far), got
                \* (what was read), n (its answer), saved (the inode was written)

fileVars == <<kind, disk, inode, rq>>

Nothing == [op |-> "none"]
Idle == [q |-> Nothing, pc |-> "idle", done |-> 0, got |-> << >>, n |-> Error, saved |-> TRUE]

\* What a client sees of a file, and the answer on its way to it.
Seen(f) == [x \in {"size", "bytes", "mtime", "hidden", "streams"} |-> f[x]]
Reply == IF rq.pc = "done" THEN [q |-> rq.q, n |-> rq.n, saved |-> rq.saved]
                           ELSE [q |-> Nothing, n |-> Error, saved |-> TRUE]

\* The promise; its operators on files serve here too.
P == INSTANCE PosixFile WITH
        Requests <- FileRequests, StreamMaps <- Streams, file <- Seen(disk), reply <- Reply

At(pc) == rq.pc = pc
Goes(pc) == rq' = [rq EXCEPT !.pc = pc]
Answers(n) == rq' = [rq EXCEPT !.pc = "close", !.n = n]
Fails == Answers(Error) /\ UNCHANGED inode

(***************************************************************************)
(* libntfs-3g: the data of a file.                                           *)
(***************************************************************************)
\* ntfs_attr_pwrite of the n bytes of buf behind its first `from`.
Pwritten(f, off, buf, from, n) ==
    [P!Written(f, off + from, SubSeq(buf, from + 1, Len(buf)), n)
        EXCEPT !.init = P!Bigger(@, off + from + n)]

Truncated(f, n) == [P!Resized(f, n) EXCEPT !.init = P!Smaller(@, n)]

(***************************************************************************)
(* Opening the inode.                                                       *)
(***************************************************************************)
\* Metadata files are not written; a reparse point has no data here; neither has
\* extended attributes.  A size is refused later, in its turn.
Refused(q) ==
    \/ q.op \in {"write", "set", "remove", "get"} /\ kind \in {"reparse", "system"}
    \/ q.op = "read" /\ kind = "reparse"

Open(q) ==
    /\ At("idle") /\ inode' = disk
    /\ \/ /\ ~Refused(q)
          /\ rq' = [Idle EXCEPT !.q = q, !.pc = q.op]
       \/ rq' = [Idle EXCEPT !.q = q, !.pc = "close"]
    /\ UNCHANGED <<kind, disk>>

(***************************************************************************)
(* Reading and writing.                                                     *)
(***************************************************************************)
\* WritePiece that hands over the buffer from its beginning again.
WritePieceAgain ==
    /\ At("write") /\ rq.done < Len(rq.q.buf)
    /\ \E k \in 1 .. Len(rq.q.buf) - rq.done :
          /\ inode' = Pwritten(inode, rq.q.off + rq.done, rq.q.buf, 0, k)
          /\ rq' = [rq EXCEPT !.done = @ + k]
    /\ UNCHANGED <<kind, disk>>

\* One turn of nfsk_write_impl's loop.
WritePiece ==
    /\ At("write") /\ rq.done < Len(rq.q.buf)
    /\ \E k \in 1 .. Len(rq.q.buf) - rq.done :
          /\ inode' = Pwritten(inode, rq.q.off, rq.q.buf, rq.done, k)
          /\ rq' = [rq EXCEPT !.done = @ + k]
    /\ UNCHANGED <<kind, disk>>

\* A call fails: what was written before counts, but leaves no new time.
WriteStops ==
    /\ At("write") /\ rq.done < Len(rq.q.buf)
    /\ Answers(IF rq.done > 0 THEN rq.done ELSE Error)
    /\ UNCHANGED <<kind, disk, inode>>

WriteEnds ==
    /\ At("write") /\ rq.done = Len(rq.q.buf)
    /\ inode' = P!Stamped(inode) /\ Answers(rq.done)
    /\ UNCHANGED <<kind, disk>>

ReadSize == P!Bigger(0, P!Smaller(rq.q.len, inode.size - rq.q.off))

\* ReadPiece that reads the same place again.
ReadPieceAgain ==
    /\ At("read") /\ rq.done < ReadSize
    /\ \E k \in 1 .. ReadSize - rq.done :
          rq' = [rq EXCEPT !.done = @ + k, !.got = @ \o P!Slice(inode, rq.q.off, k)]
    /\ UNCHANGED <<kind, disk, inode>>

\* One turn of nfsk_read_impl's loop.
ReadPiece ==
    /\ At("read") /\ rq.done < ReadSize
    /\ \E k \in 1 .. ReadSize - rq.done :
          rq' = [rq EXCEPT !.done = @ + k,
                           !.got = @ \o P!Slice(inode, rq.q.off + rq.done, k)]
    /\ UNCHANGED <<kind, disk, inode>>

\* All that is asked and there, or an error: a call that fails spoils what the calls
\* before it have read.
ReadEnds ==
    /\ At("read")
    /\ \/ rq.done = ReadSize /\ Answers(rq.got) /\ UNCHANGED inode
       \/ rq.done < ReadSize /\ Fails
    /\ UNCHANGED <<kind, disk>>

(***************************************************************************)
(* Attributes.                                                              *)
(***************************************************************************)
Asks(attr) == attr \in rq.q.which

\* A compressed file grows by a byte written at its new end.
NewSize(n) ==
    IF kind = "compressed" /\ n > inode.init
    THEN Pwritten(inode, n - 1, <<0>>, 0, 1)
    ELSE Truncated(inode, n)

\* The size first.  If it is refused or fails the rest is left out.
SetSize ==
    /\ At("attrs")
    /\ \/ ~Asks("size") /\ Goes("rest") /\ UNCHANGED inode
       \/ /\ Asks("size") /\ kind \in {"plain", "compressed"}
          /\ inode' = P!Stamped(NewSize(rq.q.size)) /\ Goes("rest")
       \/ Asks("size") /\ Fails
    /\ UNCHANGED <<kind, disk>>

WithTimes(f) == IF Asks("times") THEN [f EXCEPT !.mtime = rq.q.mtime] ELSE f

\* Then the times, and the flags last.
SetRest ==
    /\ At("rest")
    /\ \/ /\ Answers(0)
          /\ inode' = IF Asks("flags") THEN [WithTimes(inode) EXCEPT !.hidden = rq.q.hidden]
                                       ELSE WithTimes(inode)
       \/ Asks("flags") /\ Answers(Error) /\ inode' = WithTimes(inode)
    /\ UNCHANGED <<kind, disk>>

(***************************************************************************)
(* Extended attributes, each a named stream.                                *)
(***************************************************************************)
Stream == inode.streams[rq.q.name]
WithValue(v) == inode' = P!WithStream(inode, rq.q.name, v)

\* EmptyStream that leaves the old value where there is one.
EmptyStreamNew ==
    /\ At("set")
    /\ \/ Stream = NoStream /\ WithValue(<< >>) /\ Goes("parts")
       \/ Stream # NoStream /\ UNCHANGED inode /\ Goes("parts")
       \/ Fails
    /\ UNCHANGED <<kind, disk>>

\* A stream that exists is cut to nothing, another is made; it may then not open.
EmptyStream ==
    /\ At("set")
    /\ \/ WithValue(<< >>) /\ Goes("parts")
       \/ Stream = NoStream /\ WithValue(<< >>) /\ Answers(Error)
       \/ Fails
    /\ UNCHANGED <<kind, disk>>

\* One turn of nfsk_setxattr_impl's loop; parts behind the end of the new value
\* stay.
StreamPiece ==
    /\ At("parts") /\ rq.done < Len(rq.q.value)
    /\ \E k \in 1 .. Len(rq.q.value) - rq.done :
          /\ WithValue(SubSeq(rq.q.value, 1, rq.done + k)
                          \o SubSeq(Stream, rq.done + k + 1, Len(Stream)))
          /\ rq' = [rq EXCEPT !.done = @ + k]
    /\ UNCHANGED <<kind, disk>>

StreamEnds ==
    /\ At("parts")
    /\ \/ rq.done = Len(rq.q.value) /\ Answers(0) /\ UNCHANGED inode
       \/ Fails
    /\ UNCHANGED <<kind, disk>>

RemoveStream ==
    /\ At("remove")
    /\ \/ Stream # NoStream /\ WithValue(NoStream) /\ Answers(0)
       \/ Fails
    /\ UNCHANGED <<kind, disk>>

\* The whole value or an error, also if it is longer than the caller's buffer.
GetStream ==
    /\ At("get")
    /\ \/ /\ Stream # NoStream /\ Len(Stream) <= MaxXattr
          /\ Answers(Stream) /\ UNCHANGED inode
       \/ Fails
    /\ UNCHANGED <<kind, disk>>

\* The names of all streams, none for a file that can have no extended attributes.
ListStreams ==
    /\ At("list")
    /\ \/ /\ UNCHANGED inode
          /\ Answers(IF kind \in {"reparse", "system"} THEN {} ELSE P!StreamNames(inode))
       \/ Fails
    /\ UNCHANGED <<kind, disk>>

(***************************************************************************)
(* Closing the inode.                                                       *)
(***************************************************************************)
\* If the record is not written, bytes before the old end may have been, and all of
\* the inode may if the process dies after that.
Halfway == {disk, [disk EXCEPT !.bytes =
               [p \in DOMAIN @ |-> IF p < disk.size /\ rq.q.op = "write"
                                   THEN inode.bytes[p] ELSE @[p]]]}

\* A failure counts, unless the request has read or written something.
Close ==
    /\ At("close")
    /\ \/ /\ disk' = inode
          /\ rq' = [rq EXCEPT !.pc = "done"]
       \/ /\ disk' \in Halfway
          /\ rq' = [rq EXCEPT !.pc = "done", !.saved = FALSE,
                              !.n = IF rq.q.op \in {"write", "read"} /\ rq.done > 0
                                    THEN @ ELSE Error]
    /\ UNCHANGED <<kind, inode>>

Return ==
    /\ At("done") /\ rq' = Idle
    /\ UNCHANGED <<kind, disk, inode>>

Die ==
    /\ rq.pc \notin {"idle", "done"}
    /\ disk' \in Halfway \cup {inode} /\ rq' = Idle
    /\ UNCHANGED <<kind, inode>>

FileInit ==
    /\ kind \in Kinds
    /\ \E n \in IF Prepared /\ kind = "compressed" THEN 0 .. MaxEnd ELSE {0} :
          disk = [size |-> n, bytes |-> [p \in P!Places |-> 0], init |-> 0, mtime |-> Now,
                  hidden |-> FALSE, streams |-> [x \in XNames |-> NoStream]]
    /\ inode = disk /\ rq = Idle

FileNext ==
    \/ \E q \in FileRequests : Open(q)
    \/ WritePiece \/ WriteStops \/ WriteEnds
    \/ ReadPiece \/ ReadEnds
    \/ SetSize \/ SetRest
    \/ EmptyStream \/ StreamPiece \/ StreamEnds \/ RemoveStream
    \/ GetStream \/ ListStreams
    \/ Close \/ Return \/ Die

FileSpec == FileInit /\ [][FileNext]_fileVars

(***************************************************************************)
(* Properties.                                                              *)
(***************************************************************************)
\* Whatever calls fail or do less than asked, and whenever the process dies, the
\* file is what PosixFile says: acknowledged bytes are stored and no others are
\* touched, attributes are set in order, streams are never mixed.
PosixSpec == P!PosixSpec

\* What a read, getxattr or listxattr that succeeds returns is what the disk holds.
ReadsExact == (At("done") /\ rq.n # Error) =>
    /\ rq.q.op = "read" => rq.n = P!Slice(disk, rq.q.off, rq.q.len)
    /\ rq.q.op = "get" => rq.n = disk.streams[rq.q.name]
    /\ rq.q.op = "list" => rq.n = P!StreamNames(disk)

==============================================================================
