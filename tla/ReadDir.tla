------------------------------- MODULE ReadDir -------------------------------
(***************************************************************************)
(* The enumeration of an NTFS directory in pages: nfsk_readdir_impl and       *)
(* nfsk_rd_filldir (bridge/ntfs_fskit.c) below enumerateDirectory             *)
(* (NTFSVolume.swift).                                                       *)
(*                                                                         *)
(* FSKit wants with each entry the cookie at which to go on after it, and     *)
(* ntfs_readdir gives each entry its own position only.  The bridge therefore *)
(* holds one entry back and hands it over with the position of the next.      *)
(* The packer of a page may refuse an entry; the next page then starts at the *)
(* cookie of the last entry taken.  A page runs under the bridge lock; the    *)
(* directory may change between two pages.                                    *)
(***************************************************************************)
EXTENDS Naturals, Sequences

CONSTANTS
    Names,      \* names of entries
    Hidden,     \* those not reported: DOS aliases, ".", "..", records 0 and 1,
    Mute,       \* and among these the names that have no UTF-8 form
    NoName,
    MaxRoom,    \* bound: entries a packer takes
    MaxLen,     \* bound: entries of the directory
    MaxChanges  \* bound: creations and removals in a behaviour

ASSUME ReadDirAssumption ==
    /\ NoName \notin Names
    /\ Hidden \subseteq Names /\ Mute \subseteq Hidden
    /\ MaxRoom \in Nat \ {0}
    /\ MaxLen \in Nat
    /\ MaxChanges \in Nat

VARIABLES
    dir,        \* the index: entries in the order of their positions
    phase,      \* "between" pages, in a "page", or "ended"
    cookie,     \* where the client will go on: cookie of the last entry taken
    pos,        \* ntfs_readdir's position: entries of dir it has passed
    prev,       \* the entry held back
    room,       \* entries the packer still takes
    listed,     \* the entries taken in this enumeration
    twice,      \* for the properties: some entry was taken twice
    calm,       \* for the properties: no change since this enumeration began
    changes     \* creations and removals so far

vars == <<dir, phase, cookie, pos, prev, room, listed, twice, calm, changes>>

Entries(d) == {d[k] : k \in DOMAIN d}

\* FSKit asks for a page, the first one at cookie 0.
StartPage(r) ==
    /\ phase = "between"
    /\ phase' = "page" /\ pos' = cookie /\ prev' = NoName /\ room' = r
    /\ UNCHANGED <<dir, cookie, listed, twice, calm, changes>>

\* The packer takes e, with next as its cookie.
Take(e, next) ==
    /\ room > 0 /\ room' = room - 1
    /\ listed' = listed \cup {e}
    /\ twice' = (twice \/ e \in listed)
    /\ cookie' = next

\* Refuse that does not drop the entry held back.
RefuseKeepsPrev ==
    /\ room = 0
    /\ phase' = "between" /\ prev' = prev
    /\ UNCHANGED <<room, listed, twice, cookie>>

\* The packer is full: the page ends, and the entry it refused is replayed.
Refuse ==
    /\ room = 0
    /\ phase' = "between" /\ prev' = NoName
    /\ UNCHANGED <<room, listed, twice, cookie>>

Here == dir[pos + 1]

\* nfsk_rd_filldir passes over an entry of a kind that is not reported.
Skip ==
    /\ phase = "page" /\ pos < Len(dir) /\ Here \in Hidden \ Mute
    /\ pos' = pos + 1
    /\ UNCHANGED <<dir, phase, cookie, prev, room, listed, twice, calm, changes>>

\* Hold that hands the entry over with its own position.
HoldOwnCookie ==
    /\ phase = "page" /\ pos < Len(dir) /\ Here \notin Hidden
    /\ \/ /\ prev = NoName /\ UNCHANGED <<phase, room, listed, twice, cookie>>
          /\ prev' = Here /\ pos' = pos + 1
       \/ /\ prev # NoName /\ Take(prev, pos - 1) /\ UNCHANGED phase
          /\ prev' = Here /\ pos' = pos + 1
       \/ prev # NoName /\ Refuse /\ UNCHANGED pos
    /\ UNCHANGED <<dir, calm, changes>>

\* HoldOwnCookie the other way: with the position after the one just reached.
HoldLateCookie ==
    /\ phase = "page" /\ pos < Len(dir) /\ Here \notin Hidden
    /\ \/ /\ prev = NoName /\ UNCHANGED <<phase, room, listed, twice, cookie>>
          /\ prev' = Here /\ pos' = pos + 1
       \/ /\ prev # NoName /\ Take(prev, pos + 1) /\ UNCHANGED phase
          /\ prev' = Here /\ pos' = pos + 1
       \/ prev # NoName /\ Refuse /\ UNCHANGED pos
    /\ UNCHANGED <<dir, calm, changes>>

\* nfsk_rd_filldir hands over the entry held back, with the position of this
\* one as its cookie, and holds this one back.
Hold ==
    /\ phase = "page" /\ pos < Len(dir) /\ Here \notin Hidden
    /\ \/ /\ prev = NoName /\ UNCHANGED <<phase, room, listed, twice, cookie>>
          /\ prev' = Here /\ pos' = pos + 1
       \/ /\ prev # NoName /\ Take(prev, pos) /\ UNCHANGED phase
          /\ prev' = Here /\ pos' = pos + 1
       \/ prev # NoName /\ Refuse /\ UNCHANGED pos
    /\ UNCHANGED <<dir, calm, changes>>

\* An entry whose name does not convert is passed over too, but only after the
\* one held back has been handed over.
Unnamed ==
    /\ phase = "page" /\ pos < Len(dir) /\ Here \in Mute
    /\ \/ /\ prev = NoName /\ UNCHANGED <<phase, room, listed, twice, cookie>>
          /\ prev' = NoName /\ pos' = pos + 1
       \/ /\ prev # NoName /\ Take(prev, pos) /\ UNCHANGED phase
          /\ prev' = NoName /\ pos' = pos + 1
       \/ prev # NoName /\ Refuse /\ UNCHANGED pos
    /\ UNCHANGED <<dir, calm, changes>>

\* The stream has ended: the last entry gets the final position.  FSKit asks
\* for no further page when the packer refused nothing.
Flush ==
    /\ phase = "page" /\ pos >= Len(dir)
    /\ \/ /\ prev = NoName /\ UNCHANGED <<prev, room, listed, twice, cookie>>
          /\ phase' = "ended"
       \/ /\ prev # NoName /\ Take(prev, pos) /\ prev' = NoName
          /\ phase' = "ended"
       \/ prev # NoName /\ Refuse
    /\ UNCHANGED <<dir, pos, calm, changes>>

\* Another client creates or removes a name between two pages.
Insert(k, e) ==
    /\ phase = "between" /\ changes < MaxChanges /\ changes' = changes + 1
    /\ e \notin Entries(dir) /\ Len(dir) < MaxLen
    /\ dir' = [m \in 1 .. Len(dir) + 1 |->
                  IF m < k THEN dir[m] ELSE IF m = k THEN e ELSE dir[m - 1]]
    /\ calm' = FALSE
    /\ UNCHANGED <<phase, cookie, pos, prev, room, listed, twice>>

Remove(k) ==
    /\ phase = "between" /\ changes < MaxChanges /\ changes' = changes + 1
    /\ dir' = [m \in 1 .. Len(dir) - 1 |-> IF m < k THEN dir[m] ELSE dir[m + 1]]
    /\ calm' = FALSE
    /\ UNCHANGED <<phase, cookie, pos, prev, room, listed, twice>>

\* The directory is enumerated anew.
Rewind ==
    /\ phase = "ended"
    /\ phase' = "between" /\ cookie' = 0 /\ listed' = {}
    /\ twice' = FALSE /\ calm' = TRUE
    /\ UNCHANGED <<dir, pos, prev, room, changes>>

Init ==
    /\ dir \in UNION {[1 .. n -> Names] : n \in 0 .. MaxLen}
    /\ \A j, k \in DOMAIN dir : dir[j] = dir[k] => j = k
    /\ phase = "between" /\ cookie = 0 /\ pos = 0
    /\ prev = NoName /\ room = 0
    /\ listed = {} /\ twice = FALSE /\ calm = TRUE /\ changes = 0

PageStep == Skip \/ Hold \/ Unnamed \/ Flush

Next ==
    \/ \E r \in 1 .. MaxRoom : StartPage(r)
    \/ PageStep
    \/ \E k \in 1 .. Len(dir) + 1, e \in Names : Insert(k, e)
    \/ \E k \in 1 .. Len(dir) : Remove(k)
    \/ Rewind

\* A page runs to its end in one call, and the client asks for the next.
Fairness == WF_vars(PageStep) /\ WF_vars(\E r \in 1 .. MaxRoom : StartPage(r))

Spec == Init /\ [][Next]_vars /\ Fairness

(***************************************************************************)
(* Properties.                                                              *)
(***************************************************************************)
\* An entry is held back during a page only, and only visible ones are listed.
TypeOK ==
    /\ phase \in {"between", "page", "ended"}
    /\ cookie \in Nat /\ pos \in Nat
    /\ prev \in (Names \ Hidden) \cup {NoName}
    /\ prev # NoName => phase = "page" /\ pos > 0
    /\ room \in 0 .. MaxRoom
    /\ listed \subseteq Names \ Hidden
    /\ twice \in BOOLEAN

\* No entry of a directory that does not change meanwhile is reported twice,
\* however the packer cuts the pages.
NothingListedTwice == calm => ~twice

\* Every entry of such a directory has been reported at the end, the ones a
\* packer refused included.
NothingMissed == (phase = "ended" /\ calm) => Entries(dir) \ Hidden \subseteq listed

\* The enumeration comes to its end: no page starts where the last one did.
EnumerationEnds == (phase = "between") ~> (phase = "ended")

============================================================================
