---------------------------- MODULE ReadDirProofs ----------------------------
(***************************************************************************)
(* The enumerations of the two engines.                                      *)
(*                                                                         *)
(* NTFS, for every directory, every choice of hidden entries and every way the *)
(* packer cuts the pages: an enumeration during which the directory does not  *)
(* change reports each visible entry exactly once.                           *)
(*                                                                         *)
(* ext, in a directory of one block, for any names, any number of entries, any *)
(* pages and any changes by others: every entry that stays is listed, once.    *)
(***************************************************************************)
EXTENDS ReadDir, ExtReadDir, TLAPS

(***************************************************************************)
(* NTFS.                                                                    *)
(***************************************************************************)
\* The visible entries among the first m.
Upto(m) == {dir[k] : k \in 1 .. m} \ Hidden

DirInv ==
    /\ dir \in Seq(Names)
    /\ \A j, k \in 1 .. Len(dir) : dir[j] = dir[k] => j = k

RangesInv ==
    /\ pos \in Nat /\ cookie \in Nat
    /\ phase \in {"between", "page", "ended"}
    /\ prev \in Names \cup {NoName}

\* What was taken is what the cookie has passed; within a page, the position
\* has passed that and the entry held back.
ListedInv ==
    /\ cookie \in 0 .. Len(dir)
    /\ phase = "page" => pos \in 0 .. Len(dir)
    /\ listed = Upto(cookie)
    /\ ~twice
    /\ (phase = "page" /\ prev = NoName) => listed = Upto(pos)
    /\ (phase = "page" /\ prev # NoName) =>
            Upto(pos) = listed \cup {prev} /\ prev \notin listed
    /\ phase = "ended" => Upto(cookie) = Upto(Len(dir))

Inv == DirInv /\ RangesInv /\ (calm => ListedInv)

\* One more entry: a hidden one adds nothing, a visible one is new.
LEMMA UptoNext ==
    ASSUME DirInv, NEW m \in 0 .. Len(dir) - 1
    PROVE  /\ dir[m + 1] \in Hidden => Upto(m + 1) = Upto(m)
           /\ dir[m + 1] \notin Hidden =>
                 Upto(m + 1) = Upto(m) \cup {dir[m + 1]} /\ dir[m + 1] \notin Upto(m)
<1>1. Len(dir) \in Nat /\ m + 1 \in 1 .. Len(dir)
  BY DEF DirInv
<1>2. 1 .. m + 1 = (1 .. m) \cup {m + 1}
  BY <1>1
<1>3. Upto(m + 1) = Upto(m) \cup ({dir[m + 1]} \ Hidden)
  BY <1>2 DEF Upto
<1>4. \A k \in 1 .. m : dir[k] # dir[m + 1]
  <2> SUFFICES ASSUME NEW k \in 1 .. m, dir[k] = dir[m + 1] PROVE FALSE
    OBVIOUS
  <2>1. k \in 1 .. Len(dir) /\ k # m + 1
    BY <1>1
  <2> QED
    BY <1>1, <2>1 DEF DirInv
<1>5. dir[m + 1] \notin Upto(m)
  BY <1>4 DEF Upto
<1> QED
  BY <1>3, <1>5

LEMMA InvInit == Init => Inv
<1> SUFFICES ASSUME Init PROVE Inv
  OBVIOUS
<1>1. PICK n \in 0 .. MaxLen : dir \in [1 .. n -> Names]
  BY DEF Init
<1>2. dir \in Seq(Names) /\ Len(dir) = n /\ DOMAIN dir = 1 .. n /\ n \in Nat
  BY <1>1, ReadDirAssumption
<1>3. DirInv /\ RangesInv
  BY <1>2 DEF Init, DirInv, RangesInv
<1>4. Upto(0) = {}
  BY DEF Upto
<1>5. ListedInv
  BY <1>2, <1>4 DEF Init, ListedInv
<1> QED
  BY <1>3, <1>5 DEF Inv

\* A name that is inserted is not there yet, and one that is removed leaves the
\* others distinct.
LEMMA DirStep ==
    ASSUME DirInv, NEW k \in Nat,
           \/ k \in 1 .. Len(dir) + 1 /\ \E e \in Names : Insert(k, e)
           \/ k \in 1 .. Len(dir) /\ Remove(k)
    PROVE  DirInv'
<1>1. Len(dir) \in Nat /\ dir \in [1 .. Len(dir) -> Names]
  BY DEF DirInv
<1>2. ASSUME k \in 1 .. Len(dir) + 1, NEW e \in Names, Insert(k, e) PROVE DirInv'
  <2>1. dir' \in [1 .. Len(dir) + 1 -> Names]
    BY <1>1, <1>2 DEF Insert
  <2>2. dir' \in Seq(Names) /\ Len(dir') = Len(dir) + 1
    BY <1>1, <2>1
  <2>3. \A m \in 1 .. Len(dir) : dir[m] # e
    BY <1>1, <1>2 DEF Insert, Entries
  <2>4. \A j, m \in 1 .. Len(dir) + 1 : dir'[j] = dir'[m] => j = m
    <3> SUFFICES ASSUME NEW j \in 1 .. Len(dir) + 1, NEW m \in 1 .. Len(dir) + 1,
                        j < m
                 PROVE  dir'[j] # dir'[m]
      BY <1>1
    <3>1. /\ dir'[j] = IF j < k THEN dir[j] ELSE IF j = k THEN e ELSE dir[j - 1]
          /\ dir'[m] = IF m < k THEN dir[m] ELSE IF m = k THEN e ELSE dir[m - 1]
      BY <1>2 DEF Insert
    <3> QED
      BY <1>1, <1>2, <2>3, <3>1 DEF DirInv
  <2> QED
    BY <2>2, <2>4 DEF DirInv
<1>3. ASSUME k \in 1 .. Len(dir), Remove(k) PROVE DirInv'
  <2>1. dir' \in [1 .. Len(dir) - 1 -> Names] /\ Len(dir) - 1 \in Nat
    BY <1>1, <1>3 DEF Remove
  <2>2. dir' \in Seq(Names) /\ Len(dir') = Len(dir) - 1
    BY <2>1
  <2>3. \A j, m \in 1 .. Len(dir) - 1 : dir'[j] = dir'[m] => j = m
    <3> SUFFICES ASSUME NEW j \in 1 .. Len(dir) - 1, NEW m \in 1 .. Len(dir) - 1,
                        j < m
                 PROVE  dir'[j] # dir'[m]
      BY <1>1
    <3>1. /\ dir'[j] = IF j < k THEN dir[j] ELSE dir[j + 1]
          /\ dir'[m] = IF m < k THEN dir[m] ELSE dir[m + 1]
      BY <1>3 DEF Remove
    <3> QED
      BY <1>1, <1>3, <3>1 DEF DirInv
  <2> QED
    BY <2>2, <2>3 DEF DirInv
<1> QED
  BY <1>2, <1>3

\* The steps that leave the directory alone.
LEMMA ListedStep ==
    ASSUME DirInv, RangesInv, calm => ListedInv,
           \/ \E r \in 1 .. MaxRoom : StartPage(r)
           \/ PageStep
           \/ Rewind
    PROVE  DirInv' /\ RangesInv' /\ (calm' => ListedInv')
<1>0. Len(dir) \in Nat /\ pos \in Nat /\ cookie \in Nat
  BY DEF DirInv, RangesInv
<1>1. dir' = dir /\ DirInv' /\ \A m : Upto(m)' = Upto(m)
  BY DEF StartPage, PageStep, Skip, Hold, Unnamed, Flush, Rewind, DirInv, Upto
<1>2. RangesInv'
  <2>1. ASSUME NEW r \in 1 .. MaxRoom, StartPage(r) PROVE RangesInv'
    BY <2>1 DEF StartPage, RangesInv
  <2>2. CASE Skip \/ Rewind
    BY <1>0, <2>2 DEF Skip, Rewind, RangesInv
  <2>3. CASE Hold
    <3>1. pos + 1 \in 1 .. Len(dir)
      BY <1>0, <2>3 DEF Hold
    <3>2. Here \in Names
      BY <3>1 DEF Here, DirInv
    <3> QED
      BY <1>0, <2>3, <3>2 DEF Hold, Take, Refuse, RangesInv
  <2>4. CASE Flush
    BY <1>0, <2>4 DEF Flush, Take, Refuse, RangesInv
  <2>5. CASE Unnamed
    BY <1>0, <2>5 DEF Unnamed, Take, Refuse, RangesInv
  <2> QED
    BY <2>1, <2>2, <2>3, <2>4, <2>5 DEF PageStep
<1>3. CASE Rewind
  <2>1. listed' = Upto(cookie)'
    BY <1>3 DEF Rewind, Upto
  <2> QED
    BY <1>0, <1>1, <1>2, <1>3, <2>1 DEF Rewind, ListedInv
<1>4. ASSUME ~Rewind, calm' PROVE ListedInv'
  <2>0. calm /\ ListedInv
    BY <1>4 DEF StartPage, PageStep, Skip, Hold, Unnamed, Flush
  <2>1. ASSUME NEW r \in 1 .. MaxRoom, StartPage(r) PROVE ListedInv'
    BY <1>1, <2>0, <2>1 DEF StartPage, ListedInv
  <2>2. CASE Skip
    <3>1. pos \in 0 .. Len(dir) - 1 /\ pos' = pos + 1 /\ pos' \in 0 .. Len(dir)
      BY <1>0, <2>2 DEF Skip
    <3>2. Upto(pos + 1) = Upto(pos)
      BY <2>2, <3>1, UptoNext DEF Skip, Here
    <3> QED
      BY <1>1, <2>0, <2>2, <3>1, <3>2 DEF Skip, ListedInv
  <2>3. CASE Hold
    <3>1. pos \in 0 .. Len(dir) - 1 /\ pos + 1 \in 0 .. Len(dir) /\ phase = "page"
      BY <1>0, <2>3 DEF Hold
    <3>2. Upto(pos + 1) = Upto(pos) \cup {Here} /\ Here \notin Upto(pos)
      BY <2>3, <3>1, UptoNext DEF Hold, Here
    <3>3. Here \in Names /\ Here # NoName
      BY <3>1, ReadDirAssumption DEF Here, DirInv
    <3>4. CASE prev = NoName /\ prev' = Here /\ pos' = pos + 1
               /\ UNCHANGED <<phase, room, listed, twice, cookie>>
      BY <1>1, <2>0, <3>1, <3>2, <3>3, <3>4 DEF ListedInv
    <3>5. CASE prev # NoName /\ Take(prev, pos) /\ UNCHANGED phase
               /\ prev' = Here /\ pos' = pos + 1
      <4>1. listed' = Upto(pos) /\ ~twice' /\ cookie' = pos
        BY <2>0, <3>1, <3>5 DEF Take, ListedInv
      <4> QED
        BY <1>1, <2>0, <3>1, <3>2, <3>3, <3>5, <4>1 DEF ListedInv
    <3>6. CASE prev # NoName /\ Refuse /\ UNCHANGED pos
      BY <1>1, <2>0, <3>6 DEF Refuse, ListedInv
    <3> QED
      BY <2>3, <3>4, <3>5, <3>6 DEF Hold
  <2>4. CASE Flush
    <3>1. pos = Len(dir) /\ phase = "page" /\ pos' = pos
      BY <1>0, <2>0, <2>4 DEF Flush, ListedInv
    <3>2. CASE prev = NoName /\ UNCHANGED <<prev, room, listed, twice, cookie>>
               /\ phase' = "ended"
      BY <1>1, <2>0, <3>1, <3>2 DEF ListedInv
    <3>3. CASE prev # NoName /\ Take(prev, pos) /\ prev' = NoName /\ phase' = "ended"
      BY <1>0, <1>1, <2>0, <3>1, <3>3 DEF Take, ListedInv
    <3>4. CASE prev # NoName /\ Refuse
      BY <1>1, <2>0, <3>1, <3>4 DEF Refuse, ListedInv
    <3> QED
      BY <2>4, <3>2, <3>3, <3>4 DEF Flush
  <2>5. CASE Unnamed
    <3>1. pos \in 0 .. Len(dir) - 1 /\ pos + 1 \in 0 .. Len(dir) /\ phase = "page"
      BY <1>0, <2>5 DEF Unnamed
    <3>2. Here \in Hidden
      BY <2>5, ReadDirAssumption DEF Unnamed
    <3>3. Upto(pos + 1) = Upto(pos)
      BY <3>1, <3>2, UptoNext DEF Here
    <3>4. CASE prev = NoName /\ prev' = NoName /\ pos' = pos + 1
               /\ UNCHANGED <<phase, room, listed, twice, cookie>>
      BY <1>1, <2>0, <3>1, <3>3, <3>4 DEF ListedInv
    <3>5. CASE prev # NoName /\ Take(prev, pos) /\ UNCHANGED phase
               /\ prev' = NoName /\ pos' = pos + 1
      <4>1. listed' = Upto(pos) /\ ~twice' /\ cookie' = pos
        BY <2>0, <3>1, <3>5 DEF Take, ListedInv
      <4> QED
        BY <1>1, <2>0, <3>1, <3>3, <3>5, <4>1 DEF ListedInv
    <3>6. CASE prev # NoName /\ Refuse /\ UNCHANGED pos
      BY <1>1, <2>0, <3>6 DEF Refuse, ListedInv
    <3> QED
      BY <2>5, <3>4, <3>5, <3>6 DEF Unnamed
  <2> QED
    BY <1>4, <2>1, <2>2, <2>3, <2>4, <2>5 DEF PageStep
<1> QED
  BY <1>1, <1>2, <1>3, <1>4

LEMMA InvStep == ASSUME Inv, [Next]_vars PROVE Inv'
<1>1. CASE (\E r \in 1 .. MaxRoom : StartPage(r)) \/ PageStep \/ Rewind
  BY <1>1, ListedStep DEF Inv
<1>2. ASSUME NEW k \in 1 .. Len(dir) + 1, NEW e \in Names, Insert(k, e) PROVE Inv'
  <2>1. DirInv'
    BY <1>2, DirStep DEF Inv
  <2> QED
    BY <1>2, <2>1 DEF Insert, Inv, RangesInv
<1>3. ASSUME NEW k \in 1 .. Len(dir), Remove(k) PROVE Inv'
  <2>1. DirInv'
    BY <1>3, DirStep DEF Inv
  <2> QED
    BY <1>3, <2>1 DEF Remove, Inv, RangesInv
<1>4. CASE UNCHANGED vars
  BY <1>4 DEF vars, Inv, DirInv, RangesInv, ListedInv, Upto
<1> QED
  BY <1>1, <1>2, <1>3, <1>4 DEF Next

\* Visible entries only are held back and listed, and an entry is held back
\* during a page only.
THEOREM PageTypes == Spec => []TypeOK
<1>1. Init => TypeOK
  <2> SUFFICES ASSUME Init PROVE TypeOK
    OBVIOUS
  <2>1. /\ phase = "between" /\ cookie = 0 /\ pos = 0 /\ prev = NoName
        /\ room = 0 /\ listed = {} /\ twice = FALSE
    BY DEF Init
  <2>2. twice \in BOOLEAN /\ listed \subseteq Names \ Hidden
    BY <2>1
  <2>3. /\ phase \in {"between", "page", "ended"} /\ cookie \in Nat /\ pos \in Nat
        /\ room \in 0 .. MaxRoom
    BY <2>1, ReadDirAssumption
  <2> QED
    BY <2>1, <2>2, <2>3 DEF TypeOK
<1>2. Inv /\ TypeOK /\ [Next]_vars => TypeOK'
  <2> SUFFICES ASSUME Inv, TypeOK, [Next]_vars PROVE TypeOK'
    OBVIOUS
  <2> USE ReadDirAssumption DEF TypeOK
  <2>1. ASSUME NEW r \in 1 .. MaxRoom, StartPage(r) PROVE TypeOK'
    BY <2>1 DEF StartPage
  <2>2. CASE PageStep
    <3>1. pos < Len(dir) => Here \in Names
      BY DEF Inv, DirInv, Here
    <3>2. ASSUME NEW p \in Nat, prev \in Names \ Hidden, Take(prev, p)
          PROVE  listed' \subseteq Names \ Hidden /\ twice' \in BOOLEAN
                 /\ cookie' \in Nat /\ room' \in 0 .. MaxRoom
      BY <3>2 DEF Take
    <3>3. CASE Skip
      BY <2>2, <3>3 DEF Skip
    <3>4. CASE Hold
      BY <3>1, <3>2, <3>4 DEF Hold, Refuse
    <3>5. CASE Flush
      BY <3>2, <3>5 DEF Flush, Refuse
    <3>6. CASE Unnamed
      BY <3>2, <3>6 DEF Unnamed, Refuse
    <3> QED
      BY <2>2, <3>3, <3>4, <3>5, <3>6 DEF PageStep
  <2>3. ASSUME NEW k \in 1 .. Len(dir) + 1, NEW e \in Names, Insert(k, e) PROVE TypeOK'
    BY <2>3 DEF Insert
  <2>4. ASSUME NEW k \in 1 .. Len(dir), Remove(k) PROVE TypeOK'
    BY <2>4 DEF Remove
  <2>5. CASE Rewind
    BY <2>5 DEF Rewind
  <2>6. CASE UNCHANGED vars
    BY <2>6 DEF vars
  <2> QED
    BY <2>1, <2>2, <2>3, <2>4, <2>5, <2>6 DEF Next
<1> QED
  BY <1>1, <1>2, InvInit, InvStep, PTL DEF Spec

\* No entry of a directory that stays as it is is reported twice.
THEOREM ListedOnce == Spec => []NothingListedTwice
<1>1. Inv => NothingListedTwice
  BY DEF Inv, ListedInv, NothingListedTwice
<1> QED
  BY <1>1, InvInit, InvStep, PTL DEF Spec

\* No visible entry of such a directory is left out.
THEOREM AllListed == Spec => []NothingMissed
<1>1. Inv => NothingMissed
  BY DEF Inv, DirInv, ListedInv, NothingMissed, Upto, Entries
<1> QED
  BY <1>1, InvInit, InvStep, PTL DEF Spec

(***************************************************************************)
(* ext.                                                                     *)
(***************************************************************************)
Block == blocks[1]

Visible(e) == e \notin Dots \cup {Vacant}

Distinct(b) == \A s, t \in Offsets : (b[s] = b[t] /\ b[s] # Vacant) => s = t

Typed ==
    /\ blocks \in [BlockNos -> [Offsets -> FileNames \cup {Vacant}]]
    /\ buffer \in [Offsets -> FileNames \cup {Vacant}]
    /\ stage \in {"between", "page", "ended"}
    /\ start \in Nat /\ resume \in Nat /\ blk = 1 /\ off \in 0 .. NOffsets
    /\ takes \in Nat /\ edits \in Nat

\* Each entry has one place, and those that stay are among them.
Placed ==
    /\ Distinct(Block)
    /\ \A e \in steady : Visible(e) /\ \E s \in Offsets : Block[s] = e

\* What stays is in the block as it was read, at its place.
Buffered == stage = "page" =>
    /\ Distinct(buffer)
    /\ \A s \in Offsets : Block[s] \in steady => buffer[s] = Block[s]

\* What stays has been listed exactly when it lies before the cookie.
Divided == \A s \in Offsets : Block[s] \in steady => (Block[s] \in seen <=> s < resume)

\* Between the page's cookie and the place reached nothing is left out, and the
\* cookie never runs ahead over an entry.
Swept == stage = "page" =>
    /\ start <= resume
    /\ \A s \in Offsets : (start <= s /\ s < off /\ Visible(buffer[s])) => s < resume
    /\ \A s \in Offsets : (start <= s /\ off <= s /\ s < resume) => buffer[s] = Vacant

ListInv == Typed /\ Placed /\ Buffered /\ Divided /\ Swept /\ SteadyListedOnce /\ SteadyListed

LEMMA OneBlock == NBlocks = 1 => BlockNos = {1}
BY ExtReadDirAssumption DEF BlockNos

LEMMA PresentIsVisible ==
    ASSUME NBlocks = 1, Typed
    PROVE  \A e \in Present : Visible(e) /\ \E s \in Offsets : Block[s] = e
BY OneBlock DEF Present, InUse, Visible, Block, Typed

\* The init predicate establishes the invariant: nothing has been listed.
LEMMA ListInit == NBlocks = 1 /\ ExtDirInit => ListInv
<1> SUFFICES ASSUME NBlocks = 1, ExtDirInit PROVE ListInv
  OBVIOUS
<1>1. Typed
  BY ExtReadDirAssumption DEF ExtDirInit, Typed, Offsets, BlockNos
<1>2. Placed
  <2>1. Distinct(Block)
    BY OneBlock DEF ExtDirInit, Distinct, Block
  <2>2. QED
    BY <1>1, <2>1, PresentIsVisible DEF Placed, ExtDirInit
<1>3. Buffered /\ Divided /\ Swept /\ SteadyListedOnce /\ SteadyListed
  BY DEF ExtDirInit, Buffered, Divided, Swept, SteadyListedOnce, SteadyListed, Offsets
<1>4. QED
  BY <1>1, <1>2, <1>3 DEF ListInv

(***************************************************************************)
(* Steps of a page.                                                         *)
(***************************************************************************)
LEMMA OpenPageKeeps ==
    ASSUME NBlocks = 1, ListInv, NEW r \in 1 .. MaxTake, OpenPage(r)
    PROVE  ListInv'
<1> USE DEF ListInv
<1>1. Typed'
  BY ExtReadDirAssumption, OneBlock DEF Typed, OpenPage, Offsets
<1>2. Placed'
  BY DEF Placed, OpenPage, Block
<1>3. Buffered'
  BY DEF Placed, Buffered, OpenPage, Block, Distinct
<1>4. Divided'
  BY DEF Divided, OpenPage, Block
<1>5. Swept'
  BY DEF Swept, OpenPage, Typed, Offsets
<1>6. (SteadyListedOnce /\ SteadyListed)'
  BY DEF SteadyListedOnce, SteadyListed, OpenPage
<1>7. QED
  BY <1>1, <1>2, <1>3, <1>4, <1>5, <1>6

LEMMA PassOverKeeps ==
    ASSUME NBlocks = 1, ListInv, PassOver
    PROVE  ListInv'
<1> USE DEF ListInv
<1>1. Typed'
  BY ExtReadDirAssumption DEF Typed, PassOver, Passed, AtEntry, Offsets
<1>2. Placed' /\ Buffered' /\ Divided'
  BY DEF Placed, Buffered, Divided, PassOver, Passed, Block
<1>3. Swept'
  <2>1. off < start \/ ~Visible(buffer[off])
    BY DEF PassOver, Visible
  <2>2. QED
    BY <2>1 DEF Swept, PassOver, Passed, AtEntry, Typed, Offsets
<1>4. (SteadyListedOnce /\ SteadyListed)'
  BY DEF SteadyListedOnce, SteadyListed, PassOver, Passed
<1>5. QED
  BY <1>1, <1>2, <1>3, <1>4

\* The entry taken lies at or behind the cookie; if it stays it is new.
LEMMA PackKeeps ==
    ASSUME NBlocks = 1, ListInv, Pack
    PROVE  ListInv'
<1> USE DEF ListInv
<1>1. PICK next \in Reaches : Packed(next)
  BY DEF Pack
<1>2. /\ off \in Offsets /\ start <= off /\ Visible(buffer[off]) /\ stage = "page"
      /\ next \in off + 1 .. NOffsets
      /\ \A s \in Offsets : (off < s /\ s < next) => buffer[s] = Vacant
  BY ExtReadDirAssumption DEF Pack, AtVisible, AtEntry, Visible, Typed, Offsets, Reaches
<1>3. resume <= off
  BY <1>2 DEF Swept, Visible, Typed, Offsets
<1>4. Typed'
  BY <1>1, <1>2, ExtReadDirAssumption DEF Typed, Packed, Offsets
<1>5. Placed' /\ Buffered'
  BY <1>1 DEF Placed, Buffered, Packed, Block
<1>6. \A s \in Offsets : Block[s] \in steady =>
          /\ Block[s] = buffer[off] => s = off
          /\ s < resume <=> (s < next /\ s # off)
  <2> SUFFICES ASSUME NEW s \in Offsets, Block[s] \in steady
               PROVE  /\ Block[s] = buffer[off] => s = off
                      /\ s < resume <=> (s < next /\ s # off)
    OBVIOUS
  <2>1. buffer[s] = Block[s] /\ Visible(buffer[s]) /\ Distinct(buffer)
    BY <1>2 DEF Buffered, Placed
  <2>2. Block[s] = buffer[off] => s = off
    BY <1>2, <2>1 DEF Distinct, Visible
  <2>3. s < off => s < resume
    BY <1>2, <2>1 DEF Swept, Typed, Offsets
  <2>4. ~(off < s /\ s < next)
    BY <1>2, <2>1 DEF Visible
  <2>5. QED
    BY <1>2, <1>3, <2>2, <2>3, <2>4 DEF Typed, Offsets
<1>7. buffer[off] \in steady => buffer[off] \notin seen
  <2> SUFFICES ASSUME buffer[off] \in steady PROVE buffer[off] \notin seen
    OBVIOUS
  <2>1. PICK s \in Offsets : Block[s] = buffer[off]
    BY DEF Placed
  <2>2. s = off
    BY <1>6, <2>1
  <2>3. QED
    BY <1>2, <1>3, <2>1, <2>2 DEF Divided, Typed, Offsets
<1>8. Divided'
  <2> SUFFICES ASSUME NEW s \in Offsets, Block[s] \in steady
               PROVE  Block[s] \in seen' <=> s < resume'
    BY <1>1 DEF Divided, Packed, Block
  <2>1. seen' = seen \cup {buffer[off]} /\ resume' = next
    BY <1>1 DEF Packed
  <2>2. CASE s = off
    <3>1. buffer[off] = Block[s]
      BY <1>2, <2>2 DEF Buffered
    <3>2. QED
      BY <1>2, <2>1, <2>2, <3>1 DEF Offsets
  <2>3. CASE s # off
    BY <1>6, <2>1, <2>3 DEF Divided
  <2>4. QED
    BY <2>2, <2>3
<1>9. Swept'
  BY <1>1, <1>2, <1>3 DEF Swept, Packed, Typed, Offsets
<1>10. (SteadyListedOnce /\ SteadyListed)'
  BY <1>1, <1>2, <1>7 DEF SteadyListedOnce, SteadyListed, Packed
<1>11. QED
  BY <1>4, <1>5, <1>8, <1>9, <1>10

LEMMA AbortKeeps ==
    ASSUME NBlocks = 1, ListInv, Abort
    PROVE  ListInv'
BY DEF ListInv, Typed, Placed, Buffered, Divided, Swept, SteadyListedOnce, SteadyListed,
       Abort, Block

\* At the end of its one block the directory ends, and all before it is listed.
LEMMA EndOfBlockKeeps ==
    ASSUME NBlocks = 1, ListInv, EndOfBlock
    PROVE  ListInv'
<1> USE DEF ListInv
<1>1. /\ stage = "page" /\ off = NOffsets /\ stage' = "ended"
      /\ UNCHANGED <<blk, off, buffer, blocks, start, resume, takes, seen, again, steady, edits>>
  BY DEF EndOfBlock, Typed
<1>2. steady \subseteq seen
  <2> SUFFICES ASSUME NEW e \in steady PROVE e \in seen
    OBVIOUS
  <2>1. PICK s \in Offsets : Block[s] = e
    BY DEF Placed
  <2>2. buffer[s] = e /\ Visible(buffer[s])
    BY <1>1, <2>1 DEF Buffered, Placed
  <2>3. s < resume
    BY <1>1, <2>2 DEF Swept, Typed, Offsets
  <2>4. QED
    BY <2>1, <2>3 DEF Divided
<1>3. QED
  BY <1>1, <1>2 DEF Typed, Placed, Buffered, Divided, Swept, SteadyListedOnce, SteadyListed,
     Block

(***************************************************************************)
(* Steps of others, and of the client.                                      *)
(***************************************************************************)
LEMMA EnterKeeps ==
    ASSUME NBlocks = 1, ListInv,
           NEW b \in BlockNos, NEW s \in Offsets, NEW e \in FileNames \ Dots, Enter(b, s, e)
    PROVE  ListInv'
<1> USE DEF ListInv
<1>1. /\ b = 1 /\ Block[s] = Vacant /\ UNCHANGED <<reading, steady>>
      /\ Block' = [Block EXCEPT ![s] = e]
      /\ Block \in [Offsets -> FileNames \cup {Vacant}]
  BY OneBlock DEF Enter, Typed, Block
<1>2. \A t \in Offsets : Block[t] # e
  <2> SUFFICES ASSUME NEW t \in Offsets, Block[t] = e PROVE FALSE
    OBVIOUS
  <2>1. e \in Present
    BY OneBlock, ExtReadDirAssumption DEF Present, InUse, Block
  <2>2. QED
    BY <2>1 DEF Enter
<1>3. e \notin steady
  BY <1>2 DEF Placed
<1>4. Typed'
  BY <1>1 DEF Typed, Enter, reading
<1>5. Distinct(Block)'
  BY <1>1, <1>2 DEF Placed, Distinct
<1>6. \A t \in Offsets : Block'[t] \in steady => t # s /\ Block'[t] = Block[t]
  BY <1>1, <1>3
<1>7. Vacant \notin steady
  BY DEF Placed, Visible
<1>8. \A t \in Offsets : Block[t] \in steady => Block'[t] = Block[t]
  BY <1>1, <1>7
<1>9. Placed'
  BY <1>1, <1>5, <1>8 DEF Placed
<1>10. Buffered'
  BY <1>1, <1>6 DEF Buffered, Distinct, reading
<1>11. Divided'
  BY <1>1, <1>6 DEF Divided, reading
<1>12. (Swept /\ SteadyListedOnce /\ SteadyListed)'
  BY <1>1 DEF Swept, SteadyListedOnce, SteadyListed, reading
<1>13. QED
  BY <1>4, <1>9, <1>10, <1>11, <1>12

LEMMA EraseKeeps ==
    ASSUME NBlocks = 1, ListInv,
           NEW b \in BlockNos, NEW s \in Offsets, Erase(b, s)
    PROVE  ListInv'
<1> USE DEF ListInv
<1>1. /\ b = 1 /\ UNCHANGED reading /\ steady' = steady \ {Block[s]}
      /\ Block' = [Block EXCEPT ![s] = Vacant]
      /\ Block \in [Offsets -> FileNames \cup {Vacant}]
  BY OneBlock DEF Erase, Typed, Block
<1>2. Typed'
  BY <1>1 DEF Typed, Erase, reading
<1>3. Distinct(Block)'
  BY <1>1 DEF Placed, Distinct
<1>4. \A e \in steady' : e \in steady /\ \E t \in Offsets : Block'[t] = e
  <2> SUFFICES ASSUME NEW e \in steady'
               PROVE  e \in steady /\ \E t \in Offsets : Block'[t] = e
    OBVIOUS
  <2>1. e \in steady /\ e # Block[s]
    BY <1>1
  <2>2. PICK t \in Offsets : Block[t] = e
    BY <2>1 DEF Placed
  <2>3. QED
    BY <1>1, <2>1, <2>2
<1>5. Vacant \notin steady'
  BY <1>4 DEF Placed, Visible
<1>6. \A t \in Offsets : Block'[t] \in steady' => Block'[t] = Block[t] /\ Block[t] \in steady
  BY <1>1, <1>5
<1>7. Placed'
  BY <1>3, <1>4 DEF Placed, Visible
<1>8. Buffered'
  BY <1>1, <1>6 DEF Buffered, Distinct, reading
<1>9. Divided'
  BY <1>1, <1>6 DEF Divided, reading
<1>10. (Swept /\ SteadyListedOnce /\ SteadyListed)'
  BY <1>1 DEF Swept, SteadyListedOnce, SteadyListed, reading
<1>11. QED
  BY <1>2, <1>7, <1>8, <1>9, <1>10

LEMMA RestartKeeps ==
    ASSUME NBlocks = 1, ListInv, Restart
    PROVE  ListInv'
<1> USE DEF ListInv
<1>1. Typed'
  BY DEF Typed, Restart
<1>2. Placed'
  BY PresentIsVisible DEF Placed, Restart, Block
<1>3. (Buffered /\ Divided /\ Swept /\ SteadyListedOnce /\ SteadyListed)'
  BY DEF Buffered, Divided, Swept, SteadyListedOnce, SteadyListed, Restart, Offsets
<1>4. QED
  BY <1>1, <1>2, <1>3

LEMMA StutterKeeps ==
    ASSUME ListInv, UNCHANGED extDirVars
    PROVE  ListInv'
BY DEF ListInv, Typed, Placed, Buffered, Divided, Swept, SteadyListedOnce, SteadyListed,
       extDirVars, reading, Block

(***************************************************************************)
(* The theorems.                                                            *)
(***************************************************************************)
LEMMA ListInductive ==
    ASSUME NBlocks = 1, ListInv, [ExtDirNext]_extDirVars
    PROVE  ListInv'
<1>1. CASE \E r \in 1 .. MaxTake : OpenPage(r)
  BY <1>1, OpenPageKeeps
<1>2. CASE ReadStep
  BY <1>2, PassOverKeeps, PackKeeps, AbortKeeps, EndOfBlockKeeps DEF ReadStep
<1>3. CASE Edit
  BY <1>3, EnterKeeps, EraseKeeps DEF Edit
<1>4. CASE Restart
  BY <1>4, RestartKeeps
<1>5. CASE UNCHANGED extDirVars
  BY <1>5, StutterKeeps
<1>6. QED
  BY <1>1, <1>2, <1>3, <1>4, <1>5 DEF ExtDirNext

\* An entry of a directory of one block that is there from the beginning of an
\* enumeration to its end is listed exactly once (extfsk_readdir).
THEOREM ListInvariant == NBlocks = 1 => (ExtDirSpec => []ListInv)
<1> SUFFICES ASSUME NBlocks = 1 PROVE ExtDirSpec => []ListInv
  OBVIOUS
<1>1. ExtDirInit => ListInv
  BY ListInit
<1>2. ListInv /\ [ExtDirNext]_extDirVars => ListInv'
  BY ListInductive
<1>3. QED
  BY <1>1, <1>2, PTL DEF ExtDirSpec

\* No entry that stays is listed twice.
THEOREM ListedOnceCorrect == NBlocks = 1 => (ExtDirSpec => []SteadyListedOnce)
<1>1. ListInv => SteadyListedOnce
  BY DEF ListInv
<1>2. QED
  BY <1>1, ListInvariant, PTL

\* No entry that stays is missing at the end.
THEOREM ListedCorrect == NBlocks = 1 => (ExtDirSpec => []SteadyListed)
<1>1. ListInv => SteadyListed
  BY DEF ListInv
<1>2. QED
  BY <1>1, ListInvariant, PTL

==============================================================================
