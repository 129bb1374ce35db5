------------------------------ MODULE PosixFile ------------------------------
(***************************************************************************)
(* What a file of an NTFS volume promises to a client that makes one request  *)
(* after the other: contents, the attributes that can be set, and named       *)
(* streams (extended attributes).  A request is answered with what it did or   *)
(* with an error; the answer says how much the client may rely on.            *)
(***************************************************************************)
EXTENDS Integers, Sequences

CONSTANTS
    MaxEnd,     \* bound: bytes of the file
    Requests,   \* what clients may ask: records with the operation in op
    StreamMaps, \* the streams a file may have
    Now,        \* the modification time a change leaves
    Error,      \* an answer: the request failed
    NoStream    \* a stream that does not exist

VARIABLES
    file,       \* [size, bytes, mtime, hidden, streams]
    reply       \* the answer under way to the client: [q, n, saved]

NoReply == [q |-> [op |-> "none"], n |-> Error, saved |-> TRUE]

Places == 0 .. MaxEnd - 1
Bigger(m, n) == IF m > n THEN m ELSE n
Smaller(m, n) == IF m < n THEN m ELSE n

\* The first n bytes of buf at off.
Written(f, off, buf, n) ==
    [f EXCEPT !.bytes = [p \in Places |->
                            IF off <= p /\ p < off + n THEN buf[p - off + 1] ELSE f.bytes[p]],
              !.size = IF n = 0 THEN @ ELSE Bigger(@, off + n)]

Slice(f, off, len) ==
    [k \in 1 .. Bigger(0, Smaller(len, f.size - off)) |-> f.bytes[off + k - 1]]

Resized(f, n) ==
    [f EXCEPT !.bytes = [p \in Places |-> IF p < n THEN f.bytes[p] ELSE 0], !.size = n]

Stamped(f) == [f EXCEPT !.mtime = Now]

\* The attributes `which` as the request q wants them.  A new size is a change of
\* the file, but the time that is asked for wins.
WithAttrs(f, q, which) ==
    LET g == IF "size" \in which THEN Stamped(Resized(f, q.size)) ELSE f
    IN  [g EXCEPT !.mtime = IF "times" \in which THEN q.mtime ELSE @,
                  !.hidden = IF "flags" \in which THEN q.hidden ELSE @]

WithStream(f, name, value) == [f EXCEPT !.streams[name] = value]

StreamNames(f) == {x \in DOMAIN f.streams : f.streams[x] # NoStream}

Beginnings(value) == {SubSeq(value, 1, n) : n \in 0 .. Len(value)}

(***************************************************************************)
(* The file g that may be found after request q on the file f was answered n.  *)
(***************************************************************************)
\* A write stores exactly what it acknowledges, and nothing if it fails.  One
\* that was cut short may not show in the modification time.
WriteKept(q, n, f, g) ==
    \/ n = Error /\ g = f
    \/ n \in 1 .. Len(q.buf) /\ g = Stamped(Written(f, q.off, q.buf, n))
    \/ n \in 1 .. Len(q.buf) - 1 /\ g = Written(f, q.off, q.buf, n)

\* Attributes are set all together; only a failure of the last, the flags, may
\* leave the others set.
AttrsKept(q, n, f, g) ==
    \/ n # Error /\ g = WithAttrs(f, q, q.which)
    \/ n = Error /\ (g = f \/ g = WithAttrs(f, q, q.which \ {"flags"}))

\* A stream holds its new value; after an error the old one or a beginning of the
\* new, and never a mixture.
StreamKept(q, n, f, g) ==
    \/ n # Error /\ g = WithStream(f, q.name, q.value)
    \/ n = Error /\ \/ g = f
                    \/ \E v \in Beginnings(q.value) : g = WithStream(f, q.name, v)

StreamRemoved(q, n, f, g) ==
    IF n = Error THEN g = f ELSE g = WithStream(f, q.name, NoStream)

\* What is read is what is there.
ReadBack(q, n, f, g) == g = f /\ (n = Error \/ n = Slice(f, q.off, q.len))
StreamRead(q, n, f, g) == g = f /\ (n = Error \/ n = f.streams[q.name])

Kept(q, n, f, g) ==
    CASE q.op = "write"  -> WriteKept(q, n, f, g)
      [] q.op = "attrs"  -> AttrsKept(q, n, f, g)
      [] q.op = "set"    -> StreamKept(q, n, f, g)
      [] q.op = "remove" -> StreamRemoved(q, n, f, g)
      [] q.op = "read"   -> ReadBack(q, n, f, g)
      [] q.op = "get"    -> StreamRead(q, n, f, g)
      [] q.op = "list"   -> g = f /\ (n = Error \/ n = StreamNames(f))

\* When the file's record could not be written, or the process died, a request may
\* be found done in part; what it does not name is as it was.
Torn(q, f, g) ==
    \/ g = f
    \/ /\ q.op = "write"
       /\ g.hidden = f.hidden /\ g.streams = f.streams /\ g.size >= f.size
       /\ \A p \in Places :
             g.bytes[p] = f.bytes[p] \/ (q.off <= p /\ p < q.off + Len(q.buf))
    \/ q.op = "attrs" /\ \E w \in SUBSET q.which : g = WithAttrs(f, q, w)
    \/ q.op = "set" /\ \E v \in Beginnings(q.value) : g = WithStream(f, q.name, v)
    \/ q.op = "remove" /\ g = WithStream(f, q.name, NoStream)

(***************************************************************************)
(* The behaviour.                                                           *)
(***************************************************************************)
Answer ==
    /\ reply = NoReply /\ reply' # NoReply
    /\ reply'.q \in Requests /\ reply'.saved \in BOOLEAN
    /\ IF reply'.saved THEN Kept(reply'.q, reply'.n, file, file')
                       ELSE Torn(reply'.q, file, file')

Return == reply # NoReply /\ reply' = NoReply /\ UNCHANGED file

Die == reply = NoReply /\ UNCHANGED reply /\ \E q \in Requests : Torn(q, file, file')

PosixInit ==
    /\ reply = NoReply
    /\ file \in [size : 0 .. MaxEnd, bytes : [Places -> Nat], mtime : Nat, hidden : BOOLEAN,
                 streams : StreamMaps]

PosixSpec == PosixInit /\ [][Answer \/ Return \/ Die]_<<file, reply>>

==============================================================================
