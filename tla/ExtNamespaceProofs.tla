-------------------------- MODULE ExtNamespaceProofs --------------------------
(***************************************************************************)
(* For any number of inodes and names: what one client at a time does to the   *)
(* names of an ext volume leaves its entries, its bitmap, its link counts and   *)
(* its tree agreeing, as long as no call of the library fails; and a rename    *)
(* never takes the last name of what it moves, whatever fails.                *)
(***************************************************************************)
EXTENDS ExtNamespace, FiniteSetTheorems, TLAPS

(***************************************************************************)
(* Volumes.  e, u, g, l and t stand for ents, used, dirs, links and dotdot.    *)
(***************************************************************************)
Places == All \X EntryNames \X Inos

\* An entry is there once, in a directory in use, and names an inode in use.
Entered(e, u, g) == \A d \in All, n \in EntryNames, i \in Inos :
    e[<<d, n, i>>] # 0 => e[<<d, n, i>>] = 1 /\ d \in u \cap g /\ i \in u

\* Only directories have a name in common.
Unique(e, g) == \A d \in All, n \in EntryNames, i, j \in Inos :
    (e[<<d, n, i>>] # 0 /\ e[<<d, n, j>>] # 0) => i = j \/ {i, j} \subseteq g

Vacant(e, d, n) == \A i \in Inos : e[<<d, n, i>>] = 0

\* A rename of i may link the name: it is free, or i and all that have it are directories.
Room(e, g, d, n, i) == \A j \in Inos : e[<<d, n, j>>] # 0 => j # i /\ {i, j} \subseteq g

Holding(e, i) == {p \in All \X EntryNames : e[<<p[1], p[2], i>>] > 0}
Subdirs(u, g, t, i) == {j \in Inos \cap u \cap g : t[j] = i}

Counted(e, u, g, l, t) == \A i \in u :
    l[i] = IF i \in g THEN 2 + Cardinality(Subdirs(u, g, t, i))
           ELSE Cardinality(Holding(e, i))

Placed(e, u, g, t) == \A i \in Inos \cap u \cap g :
    \E n \in EntryNames : Holding(e, i) = {<<t[i], n>>}

NoneLost(e, u) == \A i \in Inos \cap u : Holding(e, i) # {}

Volume(e, u, g, l, t) ==
    /\ e \in [Places -> Nat] /\ u \subseteq All /\ g \subseteq All
    /\ l \in [All -> Nat] /\ t \in [Inos -> All]
    /\ RootIno \in u \cap g

Fine(e, u, g, l, t) ==
    /\ Entered(e, u, g) /\ Unique(e, g) /\ Counted(e, u, g, l, t)
    /\ Placed(e, u, g, t) /\ NoneLost(e, u)

With(e, d, n, i) == [e EXCEPT ![<<d, n, i>>] = 1]
Without(e, d, n, i) == [e EXCEPT ![<<d, n, i>>] = 0]
Moved(e, d, n, i, b, m) == Without(With(e, b, m, i), d, n, i)
Less(l, d) == [l EXCEPT ![d] = IF @ > 1 THEN @ - 1 ELSE @]

(***************************************************************************)
(* The volume as the call of c will leave it if nothing fails any more.        *)
(***************************************************************************)
Removing == {"read", "free"}
Relinking == {"drop", "dotdot", "counts"}

Child(c) == Victim(c)[3]
Reparents(c) == op[c].pc \in Relinking /\ op[c].i \in dirs /\ op[c].d # op[c].d2

EntsDone(c) == IF At(c, "drop") THEN [ents EXCEPT ![<<op[c].d, op[c].n, op[c].i>>] = 0] ELSE ents

UsedDone(c) ==
    IF op[c].pc \in {"write", "mark"} THEN used \cup {op[c].i}
    ELSE IF op[c].pc \in Removing /\ (Child(c) \in dirs \/ links[Child(c)] = 1) THEN used \ {Child(c)}
    ELSE used

DirsDone(c) == IF op[c].pc \in {"write", "mark"} THEN dirs \ {op[c].i} ELSE dirs

LinksDone(c) ==
    IF op[c].pc \in {"write", "mark"} THEN [links EXCEPT ![op[c].i] = 1]
    ELSE IF op[c].pc \in Removing
    THEN IF Child(c) \in dirs THEN [Less(links, Victim(c)[1]) EXCEPT ![Child(c)] = 0]
         ELSE [links EXCEPT ![Child(c)] = @ - 1]
    ELSE IF At(c, "save") THEN [links EXCEPT ![Child(c)] = op[c].held]
    ELSE IF Reparents(c) THEN [Less(links, op[c].d) EXCEPT ![op[c].d2] = @ + 1]
    ELSE links

DotDotDone(c) ==
    IF Reparents(c) /\ ~At(c, "counts") THEN [dotdot EXCEPT ![op[c].i] = op[c].d2] ELSE dotdot

FineDone(c) == Fine(EntsDone(c), UsedDone(c), DirsDone(c), LinksDone(c), DotDotDone(c))

(***************************************************************************)
(* The inductive invariant.                                                 *)
(***************************************************************************)
Calls == [pc : Pcs, ok : BOOLEAN, rename : BOOLEAN, d : All, n : EntryNames \cup {None},
          i : Inos \cup {None}, d2 : All, n2 : EntryNames \cup {None}, j : Inos \cup {None},
          held : Nat]

\* What a call under way works on.
CallTyped(o) ==
    /\ o.pc # "idle" => o.n \in EntryNames /\ o.i \in Inos
    /\ o.pc = "idle" => ~o.rename
    /\ o.rename => o.n2 \in EntryNames
    /\ o.rename /\ o.pc \in {"unlink", "read", "free", "save"} => o.j \in Inos
    /\ o.pc \in {"link", "write", "mark"} => ~o.rename
    /\ o.pc \in Relinking \cup {"relink", "touch"} => o.rename

Typed ==
    /\ Volume(ents, used, dirs, links, dotdot)
    /\ op \in [Clients -> Calls] /\ \A c \in Clients : CallTyped(op[c])
    /\ failures \in Nat

\* What a rename moves has its old name until it has the new one, whatever has failed:
\* the file that goes is another one.
RenameInv(o) == o.rename =>
    /\ o.pc \in {"unlink", "read", "free", "save", "relink"} => ents[<<o.d, o.n, o.i>>] > 0
    /\ o.pc \in {"unlink", "read", "free", "save"} => o.i # o.j /\ o.j \notin dirs
    /\ o.pc \in {"unlink", "read", "free", "save", "relink", "drop"} =>
          <<o.d, o.n>> # <<o.d2, o.n2>>
    /\ o.pc \in Relinking \cup {"touch"} => ents[<<o.d2, o.n2, o.i>>] > 0

\* What each call relies on when none has failed.
CreateInv(c) == LET o == op[c] IN
    /\ o.pc \in {"link", "write", "mark"} => o.i \notin used
    /\ At(c, "link") => o.d \in used \cap dirs /\ Vacant(ents, o.d, o.n)
    /\ At(c, "mark") => o.i \notin dirs /\ links[o.i] = 1

RemoveInv(c) == LET o == op[c] IN
    /\ At(c, "unlink") => ents[Victim(c)] > 0
    /\ o.pc \in {"unlink", "read", "free"} /\ Child(c) \in dirs => Empty(Child(c))
    /\ o.pc \in Removing => links[Child(c)] > 0
    /\ At(c, "free") => o.held = links[Child(c)]

MoveInv(c) == LET o == op[c] IN
    /\ o.rename /\ o.pc \in {"unlink", "read", "free", "save", "relink"} => o.d2 \in used \cap dirs
    /\ o.rename /\ o.pc \in {"read", "free", "save", "relink"} => Room(ents, dirs, o.d2, o.n2, o.i)
    /\ At(c, "drop") => ents[<<o.d, o.n, o.i>>] = 1
    /\ At(c, "dotdot") \/ At(c, "counts") => o.i \in dirs /\ o.d # o.d2

CallInv(c) == FineDone(c) /\ Unique(ents, dirs) /\ CreateInv(c) /\ RemoveInv(c) /\ MoveInv(c)

\* What holds whatever fails.
KeptInv == Typed /\ \A c \in Clients : RenameInv(op[c])

NamesInv == KeptInv /\ (failures = 0 => \A c \in Clients : CallInv(c))

\* The bridge keeps no two calls apart: what two of them do is ext_unlocked.
OneClient == \A b, c \in Clients : b = c

(***************************************************************************)
(* What the changes do to a volume.                                         *)
(***************************************************************************)
\* The sets that are counted are finite.
LEMMA HoldingFinite == \A e, i : IsFiniteSet(Holding(e, i))
<1>1. IsFiniteSet(All \X EntryNames)
  BY ExtNamespaceAssumption, FS_Singleton, FS_Union, FS_Product DEF All
<1>2. \A e, i : Holding(e, i) \subseteq All \X EntryNames
  BY DEF Holding
<1>3. QED
  BY <1>1, <1>2, FS_Subset

LEMMA SubdirsFinite == \A u, g, t, i : IsFiniteSet(Subdirs(u, g, t, i))
<1>1. \A u, g, t, i : Subdirs(u, g, t, i) \subseteq Inos
  BY DEF Subdirs
<1>2. QED
  BY <1>1, ExtNamespaceAssumption, FS_Subset

\* What an entry more, or less, does to the entries an inode has.
LEMMA HoldingWith ==
    ASSUME NEW e \in [Places -> Nat], NEW d \in All, NEW n \in EntryNames, NEW i \in Inos, NEW q \in Inos
    PROVE  Holding(With(e, d, n, i), q) = IF q = i THEN Holding(e, i) \cup {<<d, n>>}
                                          ELSE Holding(e, q)
<1> DEFINE f == With(e, d, n, i)
<1>1. \A p \in All \X EntryNames :
         f[<<p[1], p[2], q>>] = IF p = <<d, n>> /\ q = i THEN 1 ELSE e[<<p[1], p[2], q>>]
  BY DEF Places, With
<1>2. <<d, n>> \in All \X EntryNames
  OBVIOUS
<1>3. QED
  BY <1>1, <1>2 DEF Holding

LEMMA HoldingWithout ==
    ASSUME NEW e \in [Places -> Nat], NEW d \in All, NEW n \in EntryNames, NEW i \in Inos, NEW q \in Inos
    PROVE  Holding(Without(e, d, n, i), q) = IF q = i THEN Holding(e, i) \ {<<d, n>>}
                                             ELSE Holding(e, q)
<1> DEFINE f == Without(e, d, n, i)
<1>1. \A p \in All \X EntryNames :
         f[<<p[1], p[2], q>>] = IF p = <<d, n>> /\ q = i THEN 0 ELSE e[<<p[1], p[2], q>>]
  BY DEF Places, Without
<1>2. <<d, n>> \in All \X EntryNames
  OBVIOUS
<1>3. QED
  BY <1>1, <1>2 DEF Holding

\* The directory that ".." names is in use.
LEMMA ParentInUse ==
    ASSUME NEW e, NEW u, NEW g, NEW l, NEW t, Volume(e, u, g, l, t), Fine(e, u, g, l, t),
           NEW j \in Inos \cap u \cap g
    PROVE  t[j] \in u \cap g
<1>1. PICK n \in EntryNames : Holding(e, j) = {<<t[j], n>>}
  BY DEF Fine, Placed
<1>2. e[<<t[j], n, j>>] > 0
  <2>1. <<t[j], n>> \in Holding(e, j)
    BY <1>1
  <2>2. QED
    BY <2>1 DEF Holding
<1>3. QED
  BY <1>2 DEF Fine, Entered, Volume

\* The entries of an inode that is free: none.
LEMMA FreeUnnamed ==
    ASSUME NEW e, NEW u, NEW g, NEW l, NEW t, Volume(e, u, g, l, t), Fine(e, u, g, l, t),
           NEW i \in Inos \ u
    PROVE  Holding(e, i) = {}
BY DEF Volume, Fine, Entered, Holding, Places

\* The inode of a file that was free gets its first name.
LEMMA FileAdded ==
    ASSUME NEW e, NEW u, NEW g, NEW l, NEW t, Volume(e, u, g, l, t), Fine(e, u, g, l, t),
           NEW d \in u \cap g, NEW n \in EntryNames, NEW i \in Inos \ u, Vacant(e, d, n)
    PROVE  Fine(With(e, d, n, i), u \cup {i}, g \ {i}, [l EXCEPT ![i] = 1], t)
<1> DEFINE f == With(e, d, n, i)  v == u \cup {i}  h == g \ {i}
           m == [l EXCEPT ![i] = 1]
<1> USE DEF Volume, Fine
<1>1. \A a \in All, b \in EntryNames, q \in Inos :
         f[<<a, b, q>>] = IF a = d /\ b = n /\ q = i THEN 1 ELSE e[<<a, b, q>>]
  BY DEF Places, With
<1>2. Entered(f, v, h)
  BY <1>1 DEF Entered
<1>3. Unique(f, h)
  BY <1>1 DEF Unique, Vacant, Entered
<1>4. \A q \in Inos : Holding(f, q) = IF q = i THEN {<<d, n>>} ELSE Holding(e, q)
  <2>1. \A q \in Inos : Holding(f, q) = IF q = i THEN Holding(e, i) \cup {<<d, n>>}
                                          ELSE Holding(e, q)
    BY HoldingWith
  <2>2. QED
    BY <2>1, FreeUnnamed
<1>5. Counted(f, v, h, m, t)
  <2> SUFFICES ASSUME NEW q \in v
               PROVE m[q] = IF q \in h THEN 2 + Cardinality(Subdirs(v, h, t, q))
                            ELSE Cardinality(Holding(f, q))
    BY DEF Counted
  <2>1. Subdirs(v, h, t, q) = Subdirs(u, g, t, q)
    BY DEF Subdirs
  <2>2. CASE q = i
    BY <2>2, <1>4, FS_Singleton DEF All
  <2>3. CASE q # i
    BY <1>4, <2>1, <2>3 DEF Counted, All
  <2>4. QED
    BY <2>2, <2>3
<1>6. Placed(f, v, h, t) /\ NoneLost(f, v)
  BY <1>4 DEF Placed, NoneLost
<1>7. QED
  BY <1>2, <1>3, <1>5, <1>6

\* A free inode becomes a directory.
LEMMA DirAdded ==
    ASSUME NEW e, NEW u, NEW g, NEW l, NEW t, Volume(e, u, g, l, t), Fine(e, u, g, l, t),
           NEW d \in u \cap g, NEW n \in EntryNames, NEW i \in Inos \ u, Vacant(e, d, n)
    PROVE  Fine(With(e, d, n, i), u \cup {i}, g \cup {i},
                [l EXCEPT ![i] = 2, ![d] = @ + 1], [t EXCEPT ![i] = d])
<1> DEFINE f == With(e, d, n, i)  v == u \cup {i}  h == g \cup {i}
           m == [l EXCEPT ![i] = 2, ![d] = @ + 1]  s == [t EXCEPT ![i] = d]
<1> USE DEF Volume, Fine
<1>1. \A a \in All, b \in EntryNames, q \in Inos :
         f[<<a, b, q>>] = IF a = d /\ b = n /\ q = i THEN 1 ELSE e[<<a, b, q>>]
  BY DEF Places, With
<1>2. Entered(f, v, h)
  BY <1>1 DEF Entered
<1>3. Unique(f, h)
  BY <1>1 DEF Unique, Vacant, Entered
<1>4. \A q \in Inos : Holding(f, q) = IF q = i THEN {<<d, n>>} ELSE Holding(e, q)
  <2>1. \A q \in Inos : Holding(f, q) = IF q = i THEN Holding(e, i) \cup {<<d, n>>}
                                          ELSE Holding(e, q)
    BY HoldingWith
  <2>2. QED
    BY <2>1, FreeUnnamed
<1>5. Counted(f, v, h, m, s)
  <2> SUFFICES ASSUME NEW q \in v
               PROVE m[q] = IF q \in h THEN 2 + Cardinality(Subdirs(v, h, s, q))
                            ELSE Cardinality(Holding(f, q))
    BY DEF Counted
  <2>1. CASE q = i
    <3>1. Subdirs(v, h, s, i) = {}
      BY ParentInUse DEF Subdirs
    <3>2. m[i] = 2
      BY DEF All
    <3>3. Cardinality(Subdirs(v, h, s, i)) = 0 /\ i \in h
      BY ONLY <3>1, FS_EmptySet
    <3>4. QED
      BY ONLY <2>1, <3>2, <3>3
  <2>2. CASE q = d
    <3>1. Subdirs(v, h, s, d) = Subdirs(u, g, t, d) \cup {i} /\ i \notin Subdirs(u, g, t, d)
      BY DEF Subdirs
    <3>2. Cardinality(Subdirs(v, h, s, d)) = Cardinality(Subdirs(u, g, t, d)) + 1
          /\ Cardinality(Subdirs(u, g, t, d)) \in Nat
      BY <3>1, SubdirsFinite, FS_AddElement, FS_CardinalityType
    <3>3. l[d] = 2 + Cardinality(Subdirs(u, g, t, d)) /\ d # i
      BY DEF Counted
    <3>4. QED
      BY <2>2, <3>2, <3>3 DEF All
  <2>3. CASE q # i /\ q # d
    <3>1. Subdirs(v, h, s, q) = Subdirs(u, g, t, q)
      BY <2>3 DEF Subdirs
    <3>2. QED
      BY <1>4, <2>3, <3>1 DEF Counted, All
  <2>4. QED
    BY <2>1, <2>2, <2>3
<1>6. Placed(f, v, h, s) /\ NoneLost(f, v)
  BY <1>4 DEF Placed, NoneLost
<1>7. QED
  BY <1>2, <1>3, <1>5, <1>6

\* A file loses a name, and its inode with the last one.
LEMMA FileRemoved ==
    ASSUME NEW e, NEW u, NEW g, NEW l, NEW t, Volume(e, u, g, l, t), Fine(e, u, g, l, t),
           NEW d \in All, NEW n \in EntryNames, NEW i \in Inos \ g, e[<<d, n, i>>] > 0
    PROVE  /\ l[i] > 0
           /\ Fine(Without(e, d, n, i), IF l[i] = 1 THEN u \ {i} ELSE u, g,
                   [l EXCEPT ![i] = @ - 1], t)
<1> DEFINE f == Without(e, d, n, i)  v == IF l[i] = 1 THEN u \ {i} ELSE u
           m == [l EXCEPT ![i] = @ - 1]
<1> USE DEF Volume, Fine
<1>1. \A a \in All, b \in EntryNames, q \in Inos :
         f[<<a, b, q>>] = IF a = d /\ b = n /\ q = i THEN 0 ELSE e[<<a, b, q>>]
  BY DEF Places, Without
<1>2. i \in u /\ d \in u \cap g
  BY DEF Entered
<1>3. \A q \in Inos : Holding(f, q) = IF q = i THEN Holding(e, i) \ {<<d, n>>}
                                        ELSE Holding(e, q)
  BY HoldingWithout
<1>4. /\ l[i] = Cardinality(Holding(e, i)) /\ l[i] > 0 /\ l[i] \in Nat
      /\ Cardinality(Holding(f, i)) = l[i] - 1
      /\ Holding(f, i) = {} <=> l[i] = 1
  <2>1. l[i] = Cardinality(Holding(e, i))
    BY <1>2 DEF Counted
  <2>2. <<d, n>> \in Holding(e, i)
    BY DEF Holding
  <2>3. Cardinality(Holding(f, i)) = l[i] - 1 /\ IsFiniteSet(Holding(f, i))
    BY <1>3, <2>1, <2>2, HoldingFinite, FS_RemoveElement
  <2>4. Cardinality(Holding(f, i)) \in Nat /\ l[i] \in Nat
    BY <2>3, FS_CardinalityType DEF All
  <2>5. Holding(f, i) = {} <=> Cardinality(Holding(f, i)) = 0
    BY <2>3, FS_EmptySet
  <2>6. QED
    BY <2>1, <2>3, <2>4, <2>5
<1>5. Entered(f, v, g)
  <2>1. \A a \in All, b \in EntryNames : f[<<a, b, i>>] # 0 => i \in v
    <3> SUFFICES ASSUME NEW a \in All, NEW b \in EntryNames, f[<<a, b, i>>] # 0 PROVE i \in v
      OBVIOUS
    <3>1. e[<<a, b, i>>] \in Nat
      BY DEF Places
    <3>2. <<a, b>> \in Holding(f, i)
      BY <1>1, <3>1 DEF Holding
    <3>3. QED
      BY <1>2, <1>4, <3>2
  <2>2. QED
    BY <1>1, <2>1 DEF Entered
<1>6. Unique(f, g)
  BY <1>1 DEF Unique
<1>7. Counted(f, v, g, m, t)
  <2> SUFFICES ASSUME NEW q \in v
               PROVE m[q] = IF q \in g THEN 2 + Cardinality(Subdirs(v, g, t, q))
                            ELSE Cardinality(Holding(f, q))
    BY DEF Counted
  <2>1. Subdirs(v, g, t, q) = Subdirs(u, g, t, q)
    BY DEF Subdirs
  <2>2. CASE q = i
    BY <2>2, <1>4 DEF All
  <2>3. CASE q # i
    BY <1>3, <2>1, <2>3 DEF Counted, All
  <2>4. QED
    BY <2>2, <2>3
<1>8. Placed(f, v, g, t) /\ NoneLost(f, v)
  BY <1>3, <1>4 DEF Placed, NoneLost
<1>9. QED
  BY <1>4, <1>5, <1>6, <1>7, <1>8

\* The one name a directory has.
LEMMA DirNamedOnce ==
    ASSUME NEW e, NEW u, NEW g, NEW l, NEW t, Volume(e, u, g, l, t), Fine(e, u, g, l, t),
           NEW d \in All, NEW n \in EntryNames, NEW i \in Inos \cap g, e[<<d, n, i>>] > 0
    PROVE  i \in u /\ t[i] = d /\ Holding(e, i) = {<<d, n>>}
<1>1. <<d, n>> \in Holding(e, i)
  BY DEF Holding
<1>2. i \in u
  BY DEF Fine, Entered, Volume, Places
<1>3. PICK m \in EntryNames : Holding(e, i) = {<<t[i], m>>}
  BY <1>2 DEF Fine, Placed
<1>4. QED
  BY <1>1, <1>2, <1>3

\* An empty directory goes, and its parent has a link less.
LEMMA DirRemoved ==
    ASSUME NEW e, NEW u, NEW g, NEW l, NEW t, Volume(e, u, g, l, t), Fine(e, u, g, l, t),
           NEW d \in All, NEW n \in EntryNames, NEW i \in Inos \cap g, e[<<d, n, i>>] > 0,
           \A m \in EntryNames : Vacant(e, i, m)
    PROVE  Fine(Without(e, d, n, i), u \ {i}, g, [Less(l, d) EXCEPT ![i] = 0], t)
<1> DEFINE f == Without(e, d, n, i)  v == u \ {i}  m == [Less(l, d) EXCEPT ![i] = 0]
<1> USE DEF Volume, Fine
<1>1. \A a \in All, b \in EntryNames, q \in Inos :
         f[<<a, b, q>>] = IF a = d /\ b = n /\ q = i THEN 0 ELSE e[<<a, b, q>>]
  BY DEF Places, Without
<1>2. i \in u /\ t[i] = d /\ Holding(e, i) = {<<d, n>>}
  BY DirNamedOnce
<1>3. \A q \in Inos : Holding(f, q) = IF q = i THEN {} ELSE Holding(e, q)
  <2>1. \A q \in Inos : Holding(f, q) = IF q = i THEN Holding(e, i) \ {<<d, n>>}
                                          ELSE Holding(e, q)
    BY HoldingWithout
  <2>2. QED
    BY <1>2, <2>1
<1>4. d \in u \cap g /\ d # i
  BY DEF Entered, Vacant
<1>5. Entered(f, v, g)
  <2>1. \A a \in All, b \in EntryNames : e[<<a, b, i>>] # 0 => a = d /\ b = n
    <3> SUFFICES ASSUME NEW a \in All, NEW b \in EntryNames, e[<<a, b, i>>] # 0 PROVE a = d /\ b = n
      OBVIOUS
    <3>1. e[<<a, b, i>>] \in Nat
      BY DEF Places
    <3>2. <<a, b>> \in Holding(e, i)
      BY <3>1 DEF Holding
    <3>3. QED
      BY <1>2, <3>2
  <2>2. \A b \in EntryNames, q \in Inos : f[<<i, b, q>>] = 0
    BY <1>1, <1>4 DEF Vacant, All
  <2>3. QED
    BY <1>1, <2>1, <2>2 DEF Entered
<1>6. Unique(f, g)
  BY <1>1 DEF Unique
<1>7. Counted(f, v, g, m, t)
  <2> SUFFICES ASSUME NEW q \in v
               PROVE m[q] = IF q \in g THEN 2 + Cardinality(Subdirs(v, g, t, q))
                            ELSE Cardinality(Holding(f, q))
    BY DEF Counted
  <2>1. CASE q = d
    <3>1. Subdirs(v, g, t, d) = Subdirs(u, g, t, d) \ {i} /\ i \in Subdirs(u, g, t, d)
      BY <1>2 DEF Subdirs
    <3>2. /\ Cardinality(Subdirs(v, g, t, d)) = Cardinality(Subdirs(u, g, t, d)) - 1
          /\ Cardinality(Subdirs(u, g, t, d)) \in Nat
      BY ONLY <3>1, SubdirsFinite, FS_RemoveElement, FS_CardinalityType
    <3>3. l[d] = 2 + Cardinality(Subdirs(u, g, t, d))
      BY <1>4 DEF Counted
    <3>4. Cardinality(Subdirs(v, g, t, d)) \in Nat
      BY SubdirsFinite, FS_CardinalityType
    <3>5. m[d] = l[d] - 1
      BY <1>4, <3>2, <3>3, <3>4 DEF Less
    <3>6. QED
      BY <1>4, <2>1, <3>2, <3>3, <3>5
  <2>2. CASE q # d
    <3>1. Subdirs(v, g, t, q) = Subdirs(u, g, t, q)
      BY <1>2, <2>2 DEF Subdirs
    <3>2. m[q] = l[q]
      BY <2>2 DEF Less
    <3>3. QED
      BY <1>3, <3>1, <3>2 DEF Counted, All
  <2>3. QED
    BY <2>1, <2>2
<1>8. Placed(f, v, g, t) /\ NoneLost(f, v)
  BY <1>3 DEF Placed, NoneLost
<1>9. QED
  BY <1>5, <1>6, <1>7, <1>8

\* An entry put in another place.
LEMMA Relinked ==
    ASSUME NEW e, NEW u, NEW g, NEW l, NEW t, Volume(e, u, g, l, t), Fine(e, u, g, l, t),
           NEW d \in All, NEW n \in EntryNames, NEW i \in Inos, e[<<d, n, i>>] > 0,
           NEW b \in u \cap g, NEW m \in EntryNames, Room(e, g, b, m, i)
    PROVE  /\ Entered(Moved(e, d, n, i, b, m), u, g) /\ Unique(Moved(e, d, n, i, b, m), g)
           /\ <<b, m>> # <<d, n>> /\ <<b, m>> \notin Holding(e, i) /\ <<d, n>> \in Holding(e, i)
           /\ \A q \in Inos : Holding(Moved(e, d, n, i, b, m), q) =
                 IF q = i THEN (Holding(e, i) \cup {<<b, m>>}) \ {<<d, n>>} ELSE Holding(e, q)
<1> DEFINE f == Moved(e, d, n, i, b, m)
<1> USE DEF Volume, Moved
<1>1. With(e, b, m, i) \in [Places -> Nat]
  BY DEF With
<1>2. /\ <<b, m>> # <<d, n>> /\ <<b, m>> \notin Holding(e, i) /\ <<d, n>> \in Holding(e, i)
  BY DEF Holding, Room
<1>3. \A x \in All, y \in EntryNames, q \in Inos :
         f[<<x, y, q>>] = IF x = d /\ y = n /\ q = i THEN 0
                          ELSE IF x = b /\ y = m /\ q = i THEN 1 ELSE e[<<x, y, q>>]
  BY DEF Places, With, Without
<1>4. Entered(f, u, g)
  BY <1>3 DEF Fine, Entered
<1>5. Unique(f, g)
  BY <1>3 DEF Fine, Unique, Room
<1>6. \A q \in Inos : Holding(f, q) = IF q = i THEN Holding(With(e, b, m, i), i) \ {<<d, n>>}
                                        ELSE Holding(With(e, b, m, i), q)
  BY <1>1, HoldingWithout
<1>7. \A q \in Inos : Holding(With(e, b, m, i), q) =
         IF q = i THEN Holding(e, i) \cup {<<b, m>>} ELSE Holding(e, q)
  BY HoldingWith
<1>8. QED
  BY <1>2, <1>4, <1>5, <1>6, <1>7

LEMMA FileMoved ==
    ASSUME NEW e, NEW u, NEW g, NEW l, NEW t, Volume(e, u, g, l, t), Fine(e, u, g, l, t),
           NEW d \in All, NEW n \in EntryNames, NEW i \in Inos \ g, e[<<d, n, i>>] > 0,
           NEW b \in u \cap g, NEW m \in EntryNames, Room(e, g, b, m, i)
    PROVE  Fine(Moved(e, d, n, i, b, m), u, g, l, t)
<1> DEFINE f == Moved(e, d, n, i, b, m)
<1>1. /\ Entered(f, u, g) /\ Unique(f, g)
      /\ <<b, m>> # <<d, n>> /\ <<b, m>> \notin Holding(e, i) /\ <<d, n>> \in Holding(e, i)
      /\ \A q \in Inos : Holding(f, q) = IF q = i THEN (Holding(e, i) \cup {<<b, m>>}) \ {<<d, n>>}
                                           ELSE Holding(e, q)
  BY Relinked
<1>2. Cardinality(Holding(f, i)) = Cardinality(Holding(e, i)) /\ Holding(f, i) # {}
  <2> DEFINE H == Holding(e, i) \cup {<<b, m>>}
  <2>1. IsFiniteSet(H) /\ Cardinality(H) = Cardinality(Holding(e, i)) + 1
    BY <1>1, HoldingFinite, FS_AddElement
  <2>2. Cardinality(H \ {<<d, n>>}) = Cardinality(H) - 1
    BY <1>1, <2>1, FS_RemoveElement
  <2>3. Cardinality(Holding(e, i)) \in Nat
    BY HoldingFinite, FS_CardinalityType
  <2>4. Holding(f, i) = H \ {<<d, n>>}
    BY <1>1
  <2>5. QED
    BY <1>1, <2>1, <2>2, <2>3, <2>4
<1>3. Counted(f, u, g, l, t)
  BY <1>1, <1>2 DEF Volume, Fine, Counted, All
<1>4. Placed(f, u, g, t) /\ NoneLost(f, u)
  BY <1>1, <1>2 DEF Fine, Placed, NoneLost
<1>5. QED
  BY <1>1, <1>3, <1>4 DEF Fine

\* A directory that comes to another parent takes the link of its ".." along.
LEMMA DirMoved ==
    ASSUME NEW e, NEW u, NEW g, NEW l, NEW t, Volume(e, u, g, l, t), Fine(e, u, g, l, t),
           NEW d \in All, NEW n \in EntryNames, NEW i \in Inos \cap g, e[<<d, n, i>>] > 0,
           NEW b \in u \cap g, NEW m \in EntryNames, Room(e, g, b, m, i)
    PROVE  Fine(Moved(e, d, n, i, b, m), u, g,
                IF b = d THEN l ELSE [Less(l, d) EXCEPT ![b] = @ + 1],
                IF b = d THEN t ELSE [t EXCEPT ![i] = b])
<1> DEFINE f == Moved(e, d, n, i, b, m)
           k == IF b = d THEN l ELSE [Less(l, d) EXCEPT ![b] = @ + 1]
           s == IF b = d THEN t ELSE [t EXCEPT ![i] = b]
<1>1. /\ Entered(f, u, g) /\ Unique(f, g)
      /\ <<b, m>> # <<d, n>> /\ <<b, m>> \notin Holding(e, i) /\ <<d, n>> \in Holding(e, i)
      /\ \A q \in Inos : Holding(f, q) = IF q = i THEN (Holding(e, i) \cup {<<b, m>>}) \ {<<d, n>>}
                                           ELSE Holding(e, q)
  BY Relinked
<1>2. i \in u /\ t[i] = d /\ Holding(e, i) = {<<d, n>>}
  BY DirNamedOnce
<1>3. Holding(f, i) = {<<b, m>>}
  BY <1>1, <1>2
<1>4. \A q \in Inos : s[q] = IF q = i THEN b ELSE t[q]
  BY <1>2 DEF Volume
<1>5. d \in u \cap g
  BY <1>2, ParentInUse
<1>6. Counted(f, u, g, k, s)
  <2> SUFFICES ASSUME NEW q \in u
               PROVE k[q] = IF q \in g THEN 2 + Cardinality(Subdirs(u, g, s, q))
                            ELSE Cardinality(Holding(f, q))
    BY DEF Counted
  <2>0. l[q] = IF q \in g THEN 2 + Cardinality(Subdirs(u, g, t, q)) ELSE Cardinality(Holding(e, q))
    BY DEF Fine, Counted
  <2>1. CASE b = d \/ q \notin {b, d}
    <3>1. k[q] = l[q]
      BY <2>1 DEF Volume, Less
    <3>2. Subdirs(u, g, s, q) = Subdirs(u, g, t, q)
      BY <1>2, <1>4, <2>1 DEF Subdirs
    <3>3. q \notin g => Holding(f, q) = Holding(e, q)
      BY <1>1 DEF Volume, All
    <3>4. QED
      BY <2>0, <3>1, <3>2, <3>3
  <2>2. CASE b # d /\ q = b
    <3>1. Subdirs(u, g, s, b) = Subdirs(u, g, t, b) \cup {i} /\ i \notin Subdirs(u, g, t, b)
      BY <1>2, <1>4, <2>2 DEF Subdirs
    <3>2. /\ Cardinality(Subdirs(u, g, s, b)) = Cardinality(Subdirs(u, g, t, b)) + 1
          /\ Cardinality(Subdirs(u, g, t, b)) \in Nat
      BY <3>1, SubdirsFinite, FS_AddElement, FS_CardinalityType
    <3>3. k[b] = l[b] + 1
      BY <2>2 DEF Volume, Less
    <3>4. QED
      BY <2>0, <2>2, <3>2, <3>3
  <2>3. CASE b # d /\ q = d
    <3>1. Subdirs(u, g, s, d) = Subdirs(u, g, t, d) \ {i} /\ i \in Subdirs(u, g, t, d)
      BY <1>2, <1>4, <2>3 DEF Subdirs
    <3>2. /\ Cardinality(Subdirs(u, g, s, d)) = Cardinality(Subdirs(u, g, t, d)) - 1
          /\ Cardinality(Subdirs(u, g, t, d)) \in Nat
          /\ Cardinality(Subdirs(u, g, s, d)) \in Nat
      BY <3>1, SubdirsFinite, FS_RemoveElement, FS_CardinalityType
    <3>3. l[d] > 1
      BY <1>5, <2>0, <2>3, <3>2
    <3>4. k[d] = l[d] - 1
      BY <2>3, <3>3 DEF Volume, Less
    <3>5. QED
      BY <1>5, <2>0, <2>3, <3>2, <3>4
  <2>4. QED
    BY <2>1, <2>2, <2>3
<1>7. Placed(f, u, g, s)
  BY <1>1, <1>3, <1>4 DEF Fine, Placed
<1>8. NoneLost(f, u)
  BY <1>1, <1>3 DEF Fine, NoneLost
<1>9. QED
  BY <1>1, <1>6, <1>7, <1>8 DEF Fine

(***************************************************************************)
(* Types, and the names of what a rename moves.                             *)
(***************************************************************************)
LEMMA KeptInit == ExtNamesInit => KeptInv
<1> SUFFICES ASSUME ExtNamesInit PROVE KeptInv
  OBVIOUS
<1> USE ExtNamespaceAssumption
<1>1. PICK f \in Inos, given \in SUBSET EntryNames :
         /\ ents = [e \in All \X EntryNames \X Inos |->
                       IF e[1] = RootIno /\ e[2] \in given /\ e[3] = f THEN 1 ELSE 0]
         /\ used = {RootIno} \cup {i \in {f} : given # {}}
         /\ links = [i \in All |-> IF i = RootIno THEN 2
                                  ELSE IF i = f THEN Cardinality(given) ELSE 0]
  BY DEF ExtNamesInit
<1>2. Cardinality(given) \in Nat
  BY FS_Subset, FS_CardinalityType
<1>3. Volume(ents, used, dirs, links, dotdot)
  BY <1>1, <1>2 DEF ExtNamesInit, Volume, All, Places
<1>4. Idle \in Calls /\ CallTyped(Idle) /\ RenameInv(Idle)
  BY DEF Idle, Calls, Pcs, CallTyped, RenameInv, All, Relinking
<1>5. QED
  BY <1>3, <1>4 DEF ExtNamesInit, KeptInv, Typed

\* One client's step.
LEMMA KeptBy ==
    ASSUME OneClient, KeptInv, NEW c \in Clients, op' \in [Clients -> Calls],
           CallTyped(op[c])', RenameInv(op[c])',
           Volume(ents, used, dirs, links, dotdot)', failures' \in Nat
    PROVE  KeptInv'
BY DEF OneClient, KeptInv, Typed

\* A call that begins.
LEMMA KeptByStart ==
    ASSUME OneClient, KeptInv, NEW c \in Clients, NEW o \in Calls, CallTyped(o), RenameInv(o)',
           op' = [op EXCEPT ![c] = o], Volume(ents, used, dirs, links, dotdot)', failures' \in Nat
    PROVE  KeptInv'
<1>1. op' \in [Clients -> Calls] /\ op'[c] = o
  BY DEF KeptInv, Typed
<1>2. QED
  BY <1>1, KeptBy

\* The call is over.
LEMMA KeptByReply ==
    ASSUME OneClient, KeptInv, NEW c \in Clients, NEW ok \in BOOLEAN, Reply(c, ok),
           Volume(ents, used, dirs, links, dotdot)', failures' \in Nat
    PROVE  KeptInv'
<1> DEFINE o == [Idle EXCEPT !.ok = ok]
<1>1. o \in Calls /\ CallTyped(o) /\ RenameInv(o)'
  BY DEF Idle, Calls, Pcs, CallTyped, RenameInv, All, Relinking
<1>2. op' = [op EXCEPT ![c] = o]
  BY DEF Reply
<1> HIDE DEF o
<1>3. QED
  BY <1>1, <1>2, KeptByStart

LEMMA StartsKeep ==
    ASSUME OneClient, KeptInv, NEW c \in Clients, NEW d \in All, NEW n \in EntryNames,
           NEW i \in Inos, NEW b \in All, NEW m \in EntryNames,
           StartCreate(c, d, n) \/ StartRemove(c, d, n, i) \/ StartRename(c, d, n, i, b, m)
    PROVE  KeptInv'
<1>1. UNCHANGED disk /\ failures' \in Nat
  <2>1. failures \in Nat
    BY DEF KeptInv, Typed
  <2>2. UNCHANGED disk
    BY DEF StartCreate, StartRemove, StartRename
  <2>3. UNCHANGED failures \/ failures' = failures + 1
    BY DEF StartCreate, StartRemove, StartRename, Fault
  <2>4. QED
    BY <2>1, <2>2, <2>3
<1>2. Volume(ents, used, dirs, links, dotdot)'
  BY <1>1 DEF disk, KeptInv, Typed
<1>3. CASE StartCreate(c, d, n)
  <2>1. PICK q \in Inos : op' = [op EXCEPT ![c] =
                [Idle EXCEPT !.pc = "link", !.d = d, !.n = n, !.i = q]]
    BY <1>3 DEF StartCreate
  <2> DEFINE o == [Idle EXCEPT !.pc = "link", !.d = d, !.n = n, !.i = q]
  <2>2. o \in Calls /\ CallTyped(o) /\ RenameInv(o)'
    BY DEF Idle, Calls, Pcs, CallTyped, RenameInv, All, Relinking
  <2> HIDE DEF o
  <2>3. QED
    BY <1>1, <1>2, <2>1, <2>2, KeptByStart DEF o
<1>4. CASE StartRemove(c, d, n, i)
  <2> DEFINE o == [Idle EXCEPT !.pc = "unlink", !.d = d, !.n = n, !.i = i]
  <2>1. op' = [op EXCEPT ![c] = o]
    BY <1>4 DEF StartRemove
  <2>2. o \in Calls /\ CallTyped(o) /\ RenameInv(o)'
    BY DEF Idle, Calls, Pcs, CallTyped, RenameInv, All, Relinking
  <2> HIDE DEF o
  <2>3. QED
    BY <1>1, <1>2, <2>1, <2>2, KeptByStart
<1>5. CASE StartRename(c, d, n, i, b, m)
  <2> DEFINE o == [Idle EXCEPT !.pc = "relink", !.rename = TRUE,
                          !.d = d, !.n = n, !.i = i, !.d2 = b, !.n2 = m]
             r(j) == [Idle EXCEPT !.pc = "unlink", !.rename = TRUE,
                          !.d = d, !.n = n, !.i = i, !.d2 = b, !.n2 = m, !.j = j]
  <2>1. ents[<<d, n, i>>] > 0 /\ i \notin NamedIn(b, m)
    BY <1>5 DEF StartRename, NamedIn
  <2>2. <<d, n>> # <<b, m>>
    BY <2>1 DEF NamedIn
  <2>3. UNCHANGED <<ents, dirs>>
    BY <1>1 DEF disk
  <2>4. CASE op' = [op EXCEPT ![c] = o]
    <3>1. o \in Calls /\ CallTyped(o) /\ RenameInv(o)'
      BY <2>1, <2>2, <2>3 DEF Idle, Calls, Pcs, CallTyped, RenameInv, All, Relinking
    <3> HIDE DEF o
    <3>2. QED
      BY <1>1, <1>2, <2>4, <3>1, KeptByStart
  <2>5. CASE i \notin dirs /\ \E j \in NamedIn(b, m) : op' = [op EXCEPT ![c] = r(j)]
    <3>1. PICK j \in NamedIn(b, m) : op' = [op EXCEPT ![c] = r(j)]
      BY <2>5
    <3>2. j \in Inos /\ j # i /\ j \notin dirs
      BY <1>5, <2>1, <2>5 DEF StartRename, NamedIn
    <3>3. r(j) \in Calls /\ CallTyped(r(j)) /\ RenameInv(r(j))'
      BY <2>1, <2>2, <2>3, <3>2 DEF Idle, Calls, Pcs, CallTyped, RenameInv, All, Relinking
    <3> HIDE DEF r
    <3>4. QED
      BY <1>1, <1>2, <3>1, <3>3, KeptByStart
  <2>6. QED
    BY <1>5, <2>4, <2>5 DEF StartRename
<1>6. QED
  BY <1>3, <1>4, <1>5

\* A call goes on with what it works on.
GoesOn(c, pc) ==
    /\ op' \in [Clients -> Calls] /\ op'[c].pc = pc /\ op'[c].rename = op[c].rename
    /\ op'[c].d = op[c].d /\ op'[c].n = op[c].n /\ op'[c].i = op[c].i
    /\ op'[c].d2 = op[c].d2 /\ op'[c].n2 = op[c].n2 /\ op'[c].j = op[c].j

LEMMA GotoGoesOn ==
    ASSUME KeptInv, NEW c \in Clients, NEW pc \in Pcs, GoOn(c, pc)
    PROVE  GoesOn(c, pc) /\ op'[c].held = op[c].held /\ failures' \in Nat
BY DEF GoOn, GoesOn, KeptInv, Typed, Calls

LEMMA KeptByGoto ==
    ASSUME OneClient, KeptInv, NEW c \in Clients, NEW pc \in Pcs, GoOn(c, pc),
           pc # "idle", ~At(c, "idle"), RenameInv(op[c])',
           pc \in {"link", "write", "mark"} => ~op[c].rename,
           pc \in Relinking \cup {"relink", "touch"} => op[c].rename,
           pc \in {"unlink", "read", "free", "save"} => op[c].pc \in {"unlink", "read", "free", "save"},
           Volume(ents, used, dirs, links, dotdot)'
    PROVE  KeptInv'
<1>1. GoesOn(c, pc) /\ failures' \in Nat
  BY GotoGoesOn
<1>2. CallTyped(op[c])
  BY DEF KeptInv, Typed
<1>3. CallTyped(op[c])'
  BY <1>1, <1>2 DEF CallTyped, GoesOn, At
<1>4. QED
  BY <1>1, <1>3, KeptBy DEF GoesOn

LEMMA EntryTyped ==
    ASSUME Volume(ents, used, dirs, links, dotdot), NEW d, NEW n, NEW i,
           \/ AddEntry(d, n, i)
           \/ ents[<<d, n, i>>] > 0 /\ <<d, n, i>> \in Places /\ DropEntry(d, n, i)
           \/ UNCHANGED ents
    PROVE  ents' \in [Places -> Nat]
BY DEF AddEntry, DropEntry, Volume

LEMMA CreateKeeps ==
    ASSUME OneClient, KeptInv, NEW c \in Clients, CreateFile(c)
    PROVE  KeptInv'
<1> DEFINE o == op[c]
<1>1. /\ o \in Calls /\ CallTyped(o) /\ RenameInv(o) /\ failures \in Nat
      /\ Volume(ents, used, dirs, links, dotdot)
  BY DEF KeptInv, Typed
<1>2. CASE CreateLink(c)
  <2>1. o.pc = "link" /\ ~o.rename /\ o.n \in EntryNames /\ o.i \in Inos /\ o.d \in All
    BY <1>1, <1>2 DEF CreateLink, At, CallTyped, Calls
  <2>2. ents' \in [Places -> Nat] /\ UNCHANGED <<used, dirs, links, dotdot>>
    BY <1>1, <1>2, EntryTyped DEF CreateLink
  <2>3. Volume(ents, used, dirs, links, dotdot)'
    BY <1>1, <2>2 DEF Volume
  <2>4. CASE GoOn(c, "write")
    <3>1. GoesOn(c, "write")
      BY <2>4, GotoGoesOn DEF Pcs
    <3>2. RenameInv(o)'
      BY <2>1, <3>1 DEF RenameInv, GoesOn
    <3>3. QED
      BY <2>1, <2>3, <2>4, <3>2, KeptByGoto DEF At, Pcs, Relinking
  <2>5. CASE Return(c, FALSE)
    BY <1>1, <2>3, <2>5, KeptByReply DEF Return
  <2>6. QED
    BY <1>2, <2>4, <2>5 DEF CreateLink
<1>3. CASE CreateWrite(c)
  <2>1. o.pc = "write" /\ ~o.rename /\ o.i \in Inos
    BY <1>1, <1>3 DEF CreateWrite, At, CallTyped
  <2>2. Volume(ents, used, dirs, links, dotdot)'
    BY <1>1, <1>3, <2>1, ExtNamespaceAssumption DEF CreateWrite, Volume, All
  <2>3. GoOn(c, "mark")
    BY <1>3 DEF CreateWrite
  <2>4. RenameInv(o)'
    BY <2>1, <2>3, GotoGoesOn DEF RenameInv, GoesOn, Pcs
  <2>5. QED
    BY <2>1, <2>2, <2>3, <2>4, KeptByGoto DEF At, Pcs, Relinking
<1>4. CASE CreateMark(c)
  <2>1. o.i \in Inos
    BY <1>1, <1>4 DEF CreateMark, At, CallTyped
  <2>2. Volume(ents, used, dirs, links, dotdot)' /\ failures' \in Nat
    BY <1>1, <1>4, <2>1 DEF CreateMark, Return, Volume, All
  <2>3. QED
    BY <1>4, <2>2, KeptByReply DEF CreateMark, Return
<1>5. QED
  BY <1>2, <1>3, <1>4 DEF CreateFile

LEMMA MakeKeeps ==
    ASSUME OneClient, KeptInv, NEW c \in Clients, NEW d \in All, NEW n \in EntryNames,
           NEW isdir \in BOOLEAN, Make(c, d, n, isdir)
    PROVE  KeptInv'
<1>1. Volume(ents, used, dirs, links, dotdot)
  BY DEF KeptInv, Typed
<1>2. PICK i \in Inos \ used :
          /\ AddEntry(d, n, i)
          /\ used' = used \cup {i}
          /\ IF isdir
             THEN /\ dirs' = dirs \cup {i}
                  /\ links' = [links EXCEPT ![i] = 2, ![d] = @ + 1]
                  /\ dotdot' = [dotdot EXCEPT ![i] = d]
             ELSE /\ dirs' = dirs \ {i}
                  /\ links' = [links EXCEPT ![i] = 1]
                  /\ UNCHANGED dotdot
  BY DEF Make
<1>3. Volume(ents, used, dirs, links, dotdot)'
  BY <1>1, <1>2, ExtNamespaceAssumption DEF AddEntry, Volume, Places, All
<1>4. failures' \in Nat /\ (Reply(c, TRUE) \/ Reply(c, FALSE))
  <2>1. failures \in Nat
    BY DEF KeptInv, Typed
  <2>2. Return(c, TRUE) \/ (Fault /\ Reply(c, FALSE))
    BY DEF Make
  <2>3. CASE Return(c, TRUE)
    BY <2>1, <2>3 DEF Return
  <2>4. CASE Fault /\ Reply(c, FALSE)
    <3>1. failures' \in Nat
      BY <2>1, <2>4 DEF Fault
    <3>2. QED
      BY <2>4, <3>1
  <2>5. QED
    BY <2>2, <2>3, <2>4
<1>5. QED
  BY <1>3, <1>4, KeptByReply

\* The entry that a removal is about.
LEMMA VictimIs ==
    ASSUME KeptInv, NEW c \in Clients, op[c].pc \in {"unlink", "read", "free", "save"}
    PROVE  /\ Victim(c)[1] \in All /\ Victim(c)[2] \in EntryNames /\ Victim(c)[3] \in Inos
           /\ Victim(c) = <<Victim(c)[1], Victim(c)[2], Victim(c)[3]>>
BY DEF KeptInv, Typed, CallTyped, Calls, Victim

LEMMA RemoveKeeps ==
    ASSUME OneClient, KeptInv, NEW c \in Clients, Remove(c)
    PROVE  KeptInv'
<1> DEFINE o == op[c]  v == Victim(c)
<1>1. /\ o \in Calls /\ CallTyped(o) /\ RenameInv(o) /\ failures \in Nat
      /\ Volume(ents, used, dirs, links, dotdot)
  BY DEF KeptInv, Typed
<1>2. o.pc \in {"unlink", "read", "free", "save"}
  BY DEF Remove, UnlinkEntry, ReadInode, FreeDir, FreeFile, Save, At
<1>3. /\ v[1] \in All /\ v[2] \in EntryNames /\ v[3] \in Inos
      /\ v = <<v[1], v[2], v[3]>>
  BY <1>2, VictimIs
<1>4. CASE UnlinkEntry(c)
  <2>1. o.pc = "unlink"
    BY <1>4 DEF UnlinkEntry, At
  <2>2. ents' \in [Places -> Nat] /\ UNCHANGED <<used, dirs, links, dotdot>>
    <3>1. v \in Places
      BY <1>3 DEF Places
    <3>2. QED
      BY <1>1, <1>3, <1>4, <3>1, EntryTyped DEF UnlinkEntry
  <2>3. Volume(ents, used, dirs, links, dotdot)'
    BY <1>1, <2>2 DEF Volume
  <2>4. CASE ents[v] > 0 /\ DropEntry(v[1], v[2], v[3]) /\ GoOn(c, "read")
    <3>1. GoesOn(c, "read")
      BY <2>4, GotoGoesOn DEF Pcs
    <3>2. o.rename => v = <<o.d2, o.n2, o.j>>
      BY DEF Victim
    <3>3. RenameInv(o)'
      BY <1>1, <1>3, <2>1, <2>2, <2>4, <3>1, <3>2 DEF RenameInv, GoesOn, DropEntry, Volume, Relinking
    <3>4. QED
      BY <2>1, <2>3, <2>4, <3>3, KeptByGoto DEF At, Pcs, Relinking
  <2>5. CASE Return(c, FALSE)
    BY <1>1, <2>3, <2>5, KeptByReply DEF Return
  <2>6. QED
    BY <1>4, <2>4, <2>5 DEF UnlinkEntry
<1>5. ASSUME NEW pc \in {"free", "save"}, NEW held \in Nat,
             op' = [op EXCEPT ![c].pc = pc, ![c].held = held],
             Volume(ents, used, dirs, links, dotdot)', UNCHANGED <<dirs, failures>>,
             o.rename => UNCHANGED ents
      PROVE  KeptInv'
  <2>1. GoesOn(c, pc)
    BY <1>1, <1>5 DEF GoesOn, KeptInv, Typed, Calls, Pcs
  <2>2. CallTyped(o)'
    BY <1>1, <1>2, <2>1 DEF CallTyped, GoesOn, Relinking
  <2>3. RenameInv(o)'
    BY <1>1, <1>2, <1>5, <2>1 DEF RenameInv, GoesOn, Relinking
  <2>4. QED
    BY <1>1, <1>5, <2>1, <2>2, <2>3, KeptBy DEF GoesOn
<1>6. ASSUME AfterRemove(c), Volume(ents, used, dirs, links, dotdot)', UNCHANGED <<dirs, ents>>
      PROVE  KeptInv'
  <2>1. CASE o.rename
    <3>1. GoOn(c, "relink")
      BY <1>6, <2>1 DEF AfterRemove
    <3>2. GoesOn(c, "relink")
      BY <3>1, GotoGoesOn DEF Pcs
    <3>3. RenameInv(o)'
      BY <1>1, <1>2, <1>6, <3>2 DEF RenameInv, GoesOn, Relinking
    <3>4. QED
      BY <1>2, <1>6, <2>1, <3>1, <3>3, KeptByGoto DEF At, Pcs, Relinking
  <2>2. CASE ~o.rename
    BY <1>1, <1>6, <2>2, KeptByReply DEF AfterRemove, Return
  <2>3. QED
    BY <2>1, <2>2
<1>7. CASE ReadInode(c)
  <2>1. links[v[3]] \in Nat
    BY <1>1, <1>3 DEF Volume, All
  <2>2. op' = [op EXCEPT ![c].pc = "free", ![c].held = links[v[3]]] /\ UNCHANGED <<disk, failures>>
    BY <1>7 DEF ReadInode
  <2>3. QED
    BY <1>1, <1>5, <2>1, <2>2 DEF disk
<1>8. CASE FreeDir(c)
  <2>1. ~o.rename
    BY <1>1, <1>8 DEF FreeDir, At, Victim, RenameInv
  <2>2. /\ op' = [op EXCEPT ![c].pc = "save", ![c].held = 0] /\ UNCHANGED <<dirs, failures>>
        /\ links' = OneLess(v[1]) /\ ents' = Erased(v[3]) /\ used' = used \ {v[3]} /\ UNCHANGED dotdot
    BY <1>8 DEF FreeDir
  <2>3. Volume(ents, used, dirs, links, dotdot)'
    BY <1>1, <1>3, <2>2, ExtNamespaceAssumption DEF Volume, OneLess, Erased
  <2>4. QED
    BY <1>5, <2>1, <2>2, <2>3
<1>9. CASE FreeFile(c)
  <2>1. UNCHANGED <<ents, dirs, links, dotdot>> /\ used' \in {used, used \ {v[3]}}
    BY <1>9 DEF FreeFile
  <2>2. Volume(ents, used, dirs, links, dotdot)'
    BY <1>1, <1>3, <2>1, ExtNamespaceAssumption DEF Volume
  <2>3. CASE AfterRemove(c)
    BY <1>6, <2>1, <2>2, <2>3
  <2>4. CASE /\ o.held > 0 /\ UNCHANGED failures
             /\ op' = [op EXCEPT ![c].pc = "save", ![c].held = @ - 1]
    <3>1. o.held - 1 \in Nat /\ op' = [op EXCEPT ![c].pc = "save", ![c].held = o.held - 1]
      BY <1>1, <2>4 DEF Calls, KeptInv, Typed
    <3>2. QED
      BY <1>5, <2>1, <2>2, <2>4, <3>1
  <2>5. QED
    BY <1>9, <2>3, <2>4 DEF FreeFile
<1>10. CASE Save(c)
  <2>1. links' = [links EXCEPT ![v[3]] = o.held] /\ UNCHANGED <<ents, used, dirs, dotdot>>
        /\ AfterRemove(c)
    BY <1>10 DEF Save
  <2>2. Volume(ents, used, dirs, links, dotdot)'
    BY <1>1, <2>1 DEF Volume, Calls
  <2>3. QED
    BY <1>6, <2>1, <2>2
<1>11. QED
  BY <1>4, <1>7, <1>8, <1>9, <1>10 DEF Remove

LEMMA RenameKeeps ==
    ASSUME OneClient, KeptInv, NEW c \in Clients, Rename(c)
    PROVE  KeptInv'
<1> DEFINE o == op[c]
<1>1. /\ o \in Calls /\ CallTyped(o) /\ RenameInv(o) /\ failures \in Nat
      /\ Volume(ents, used, dirs, links, dotdot)
  BY DEF KeptInv, Typed
<1>2. /\ o.pc \in {"relink", "touch"} \cup Relinking /\ o.rename
      /\ o.d \in All /\ o.n \in EntryNames /\ o.i \in Inos /\ o.d2 \in All /\ o.n2 \in EntryNames
  BY <1>1 DEF Rename, RenameLink, RenameDrop, DotDot, Counts, Touch, At, CallTyped, Calls, Relinking
<1>3. ASSUME NEW pc \in {"touch"} \cup Relinking, GoOn(c, pc),
             Volume(ents, used, dirs, links, dotdot)',
             ents'[<<o.d2, o.n2, o.i>>] > 0,
             pc = "drop" => <<o.d, o.n>> # <<o.d2, o.n2>>
      PROVE  KeptInv'
  <2>1. GoesOn(c, pc)
    BY <1>1, <1>3, GotoGoesOn DEF Pcs, Relinking
  <2>2. RenameInv(o)'
    BY <1>3, <2>1 DEF RenameInv, GoesOn, Relinking
  <2>3. QED
    BY <1>2, <1>3, <2>2, KeptByGoto DEF At, Pcs, Relinking
<1>4. ASSUME NEW ok \in BOOLEAN, Return(c, ok), Volume(ents, used, dirs, links, dotdot)'
      PROVE  KeptInv'
  BY <1>1, <1>4, KeptByReply DEF Return
<1>5. CASE RenameLink(c)
  <2>1. o.pc = "relink" /\ UNCHANGED <<used, dirs, links, dotdot>>
    BY <1>5 DEF RenameLink, At
  <2>2. ents' \in [Places -> Nat]
    BY <1>1, <1>5, EntryTyped DEF RenameLink
  <2>3. Volume(ents, used, dirs, links, dotdot)'
    BY <1>1, <2>1, <2>2 DEF Volume
  <2>4. CASE AddEntry(o.d2, o.n2, o.i) /\ GoOn(c, "drop")
    <3>1. ents'[<<o.d2, o.n2, o.i>>] > 0
      BY <1>1, <1>2, <2>4 DEF AddEntry, Volume, Places
    <3>2. <<o.d, o.n>> # <<o.d2, o.n2>>
      BY <1>1, <1>2, <2>1 DEF RenameInv
    <3>3. QED
      BY <1>3, <2>3, <2>4, <3>1, <3>2 DEF Relinking
  <2>5. QED
    BY <1>4, <1>5, <2>3, <2>4 DEF RenameLink
<1>6. CASE RenameDrop(c)
  <2>1. o.pc = "drop" /\ UNCHANGED <<used, dirs, links, dotdot>>
    BY <1>6 DEF RenameDrop, At
  <2>2. <<o.d, o.n, o.i>> \in Places
    BY <1>2 DEF Places
  <2>3. ents' \in [Places -> Nat]
    BY <1>1, <1>6, <2>2, EntryTyped DEF RenameDrop
  <2>4. Volume(ents, used, dirs, links, dotdot)'
    BY <1>1, <2>1, <2>3 DEF Volume
  <2>5. CASE DropEntry(o.d, o.n, o.i) /\ (GoOn(c, "touch") \/ GoOn(c, "dotdot"))
    <3>1. ents'[<<o.d2, o.n2, o.i>>] > 0
      BY <1>1, <1>2, <2>1, <2>5 DEF DropEntry, Volume, Places, RenameInv, Relinking
    <3>2. QED
      BY <1>3, <2>4, <2>5, <3>1 DEF Relinking
  <2>6. QED
    BY <1>4, <1>6, <2>4, <2>5 DEF RenameDrop
<1>7. CASE DotDot(c)
  <2>1. /\ o.pc = "dotdot" /\ UNCHANGED <<ents, used, dirs, links>> /\ GoOn(c, "counts")
        /\ dotdot' = [dotdot EXCEPT ![o.i] = o.d2]
    BY <1>7 DEF DotDot, At
  <2>2. Volume(ents, used, dirs, links, dotdot)' /\ ents'[<<o.d2, o.n2, o.i>>] > 0
    BY <1>1, <1>2, <2>1 DEF Volume, RenameInv, Relinking
  <2>3. QED
    BY <1>3, <2>1, <2>2 DEF Relinking
<1>8. CASE Counts(c)
  <2>1. Volume(ents, used, dirs, links, dotdot)'
    BY <1>1, <1>2, <1>8 DEF Counts, Volume, OneLess
  <2>2. QED
    BY <1>4, <1>8, <2>1 DEF Counts
<1>9. CASE Touch(c)
  BY <1>1, <1>4, <1>9 DEF Touch, disk, Volume
<1>10. QED
  BY <1>5, <1>6, <1>7, <1>8, <1>9 DEF Rename

LEMMA FailsKeep ==
    ASSUME OneClient, KeptInv, NEW c \in Clients, CallFails(c) \/ CountMissed(c)
    PROVE  KeptInv'
<1> DEFINE o == op[c]  v == Victim(c)
<1>1. /\ o \in Calls /\ CallTyped(o) /\ RenameInv(o) /\ failures \in Nat
      /\ Volume(ents, used, dirs, links, dotdot)
  BY DEF KeptInv, Typed
<1>2. failures' \in Nat
  <2>1. Fault
    BY DEF CallFails, CountMissed
  <2>2. QED
    BY <1>1, <2>1 DEF Fault
<1>3. o.pc = "free" => v[1] \in All /\ v[2] \in EntryNames /\ v[3] \in Inos
  BY VictimIs
<1>4. CASE CallFails(c)
  <2>1. UNCHANGED <<ents, used, dirs, dotdot>> /\ links' \in {links, OneLess(v[1])} /\ Reply(c, FALSE)
    BY <1>4 DEF CallFails
  <2>2. Volume(ents, used, dirs, links, dotdot)'
    BY <1>1, <2>1 DEF Volume, OneLess
  <2>3. QED
    BY <1>2, <2>1, <2>2, KeptByReply
<1>5. CASE CountMissed(c) /\ o.pc = "counts"
  <2>1. /\ UNCHANGED <<ents, used, dirs, dotdot>> /\ Reply(c, TRUE)
        /\ links' \in {OneLess(o.d), [links EXCEPT ![o.d2] = @ + 1]}
    BY <1>5 DEF CountMissed, At
  <2>2. Volume(ents, used, dirs, links, dotdot)'
    BY <1>1, <2>1 DEF Volume, OneLess
  <2>3. QED
    BY <1>2, <2>1, <2>2, KeptByReply
<1>6. CASE CountMissed(c) /\ o.pc = "free"
  <2>1. /\ v[3] \in dirs /\ UNCHANGED <<dirs, links, dotdot>>
        /\ ents' = Erased(v[3]) /\ used' = used \ {v[3]}
        /\ op' = [op EXCEPT ![c].pc = "save", ![c].held = 0]
    BY <1>6 DEF CountMissed, At
  <2>2. ~o.rename
    BY <1>1, <1>6, <2>1 DEF Victim, RenameInv
  <2>3. Volume(ents, used, dirs, links, dotdot)'
    BY <1>1, <1>3, <1>6, <2>1, ExtNamespaceAssumption DEF Volume, Erased
  <2>4. GoesOn(c, "save")
    BY <1>1, <2>1 DEF GoesOn, KeptInv, Typed, Calls, Pcs
  <2>5. CallTyped(o)' /\ RenameInv(o)'
    BY <1>1, <1>6, <2>2, <2>4 DEF CallTyped, RenameInv, GoesOn, Relinking
  <2>6. QED
    BY <1>2, <2>3, <2>4, <2>5, KeptBy DEF GoesOn
<1>7. QED
  BY <1>4, <1>5, <1>6 DEF CountMissed, At

LEMMA KeptStep == OneClient /\ KeptInv /\ [ExtNamesNext]_extNamesVars => KeptInv'
<1> SUFFICES ASSUME OneClient, KeptInv, [ExtNamesNext]_extNamesVars PROVE KeptInv'
  OBVIOUS
<1>1. CASE UNCHANGED extNamesVars
  BY <1>1 DEF extNamesVars, disk, KeptInv, Typed, CallTyped, RenameInv, Volume
<1>2. ASSUME NEW c \in Clients, BoundReached(c) PROVE KeptInv'
  BY <1>1, <1>2 DEF BoundReached
<1>3. ASSUME NEW c \in Clients, CreateFile(c) \/ Remove(c) \/ Rename(c) \/ CallFails(c) \/ CountMissed(c)
      PROVE  KeptInv'
  BY <1>3, CreateKeeps, RemoveKeeps, RenameKeeps, FailsKeep
<1>4. ASSUME NEW c \in Clients, NEW d \in All, NEW n \in EntryNames, NEW isdir \in BOOLEAN,
             Make(c, d, n, isdir)
      PROVE  KeptInv'
  BY <1>4, MakeKeeps
<1>5. ASSUME NEW c \in Clients, NEW d \in All, NEW n \in EntryNames, StartCreate(c, d, n)
      PROVE  KeptInv'
  <2>1. \E i \in Inos, b \in All, m \in EntryNames : TRUE
    BY <1>5 DEF StartCreate
  <2>2. QED
    BY <1>5, <2>1, StartsKeep
<1>6. ASSUME NEW c \in Clients, NEW d \in All, NEW n \in EntryNames, NEW i \in Inos,
             StartRemove(c, d, n, i)
      PROVE  KeptInv'
  BY <1>6, StartsKeep
<1>7. ASSUME NEW c \in Clients, NEW d \in All, NEW n \in EntryNames, NEW i \in Inos,
             NEW d2 \in All, NEW n2 \in EntryNames, StartRename(c, d, n, i, d2, n2)
      PROVE  KeptInv'
  BY <1>7, StartsKeep
<1>8. QED
  BY <1>1, <1>2, <1>3, <1>4, <1>5, <1>6, <1>7 DEF ExtNamesNext, Starts

(***************************************************************************)
(* The volume while no call fails.                                          *)
(***************************************************************************)
Whole == {"idle", "link", "unlink", "relink", "touch"}

\* A call that has changed nothing yet, or is done, leaves the volume as it is.
LEMMA NothingHalfDone ==
    ASSUME NEW c \in Clients, op[c].pc \in Whole
    PROVE  FineDone(c) <=> Fine(ents, used, dirs, links, dotdot)
BY DEF FineDone, EntsDone, UsedDone, DirsDone, LinksDone, DotDotDone, Whole, At, Removing,
       Relinking, Reparents

LEMMA NothingHalfDoneNext ==
    ASSUME NEW c \in Clients, op'[c].pc \in Whole
    PROVE  FineDone(c)' <=> Fine(ents, used, dirs, links, dotdot)'
BY DEF FineDone, EntsDone, UsedDone, DirsDone, LinksDone, DotDotDone, Whole, At, Removing,
       Relinking, Reparents

LEMMA AgreesAtReply ==
    ASSUME NEW c \in Clients, op'[c].pc = "idle", ~op'[c].rename,
           Fine(ents, used, dirs, links, dotdot)'
    PROVE  CallInv(c)'
<1>1. FineDone(c)'
  BY NothingHalfDoneNext DEF Whole
<1>2. QED
  BY <1>1 DEF CallInv, CreateInv, RemoveInv, MoveInv, Fine, At, Removing

LEMMA AgreesInit == ExtNamesInit => \A c \in Clients : CallInv(c)
<1> SUFFICES ASSUME ExtNamesInit, NEW c \in Clients PROVE CallInv(c)
  OBVIOUS
<1> USE ExtNamespaceAssumption
<1>1. PICK f \in Inos, given \in SUBSET EntryNames :
         /\ ents = [e \in All \X EntryNames \X Inos |->
                       IF e[1] = RootIno /\ e[2] \in given /\ e[3] = f THEN 1 ELSE 0]
         /\ used = {RootIno} \cup {i \in {f} : given # {}}
         /\ links = [i \in All |-> IF i = RootIno THEN 2
                                  ELSE IF i = f THEN Cardinality(given) ELSE 0]
  BY DEF ExtNamesInit
<1>2. dirs = {RootIno} /\ op[c] = Idle
  BY DEF ExtNamesInit
<1>3. \A d \in All, n \in EntryNames, i \in Inos :
         ents[<<d, n, i>>] = IF d = RootIno /\ n \in given /\ i = f THEN 1 ELSE 0
  BY <1>1
<1>4. Entered(ents, used, dirs) /\ Unique(ents, dirs)
  BY <1>1, <1>2, <1>3 DEF Entered, Unique
<1>5. Holding(ents, f) = {RootIno} \X given
  <2>1. \A p \in All \X EntryNames : ents[<<p[1], p[2], f>>] > 0 <=> p[1] = RootIno /\ p[2] \in given
    BY <1>1
  <2>2. QED
    BY <2>1 DEF Holding, All
<1>6. Cardinality(Holding(ents, f)) = Cardinality(given)
  <2>1. IsFiniteSet(given) /\ IsFiniteSet({RootIno}) /\ Cardinality({RootIno}) = 1
    BY FS_Subset, FS_Singleton
  <2>2. Cardinality({RootIno} \X given) = Cardinality({RootIno}) * Cardinality(given)
    BY <2>1, FS_Product
  <2>3. Cardinality(given) \in Nat
    BY <2>1, FS_CardinalityType
  <2>4. QED
    BY <1>5, <2>1, <2>2, <2>3
<1>7. Counted(ents, used, dirs, links, dotdot)
  <2> SUFFICES ASSUME NEW i \in used
               PROVE links[i] = IF i \in dirs THEN 2 + Cardinality(Subdirs(used, dirs, dotdot, i))
                                ELSE Cardinality(Holding(ents, i))
    BY DEF Counted
  <2>1. CASE i = RootIno
    <3>1. Subdirs(used, dirs, dotdot, i) = {}
      BY <1>2 DEF Subdirs
    <3>2. Cardinality(Subdirs(used, dirs, dotdot, i)) = 0
      BY <3>1, FS_EmptySet
    <3>3. links[i] = 2 /\ i \in dirs
      BY <1>1, <1>2, <2>1 DEF All
    <3>4. QED
      BY <3>2, <3>3
  <2>2. CASE i # RootIno
    BY <1>1, <1>2, <1>6, <2>2 DEF All
  <2>3. QED
    BY <2>1, <2>2
<1>8. Placed(ents, used, dirs, dotdot)
  BY <1>2 DEF Placed
<1>9. NoneLost(ents, used)
  <2>1. \A i \in Inos \cap used : i = f /\ given # {}
    BY <1>1
  <2>2. \A n \in given : <<RootIno, n>> \in {RootIno} \X given
    OBVIOUS
  <2>3. QED
    BY <1>5, <2>1, <2>2 DEF NoneLost
<1>10. QED
  <2>1. Fine(ents, used, dirs, links, dotdot)
    BY <1>4, <1>7, <1>8, <1>9 DEF Fine
  <2>2. FineDone(c)
    <3>1. op[c].pc \in Whole
      BY <1>2 DEF Whole, Idle
    <3>2. QED
      BY <2>1, <3>1, NothingHalfDone
  <2>3. QED
    BY <1>2, <1>4, <2>2 DEF CallInv, CreateInv, RemoveInv, MoveInv, Idle, At, Removing

\* A directory a client can be in is in use.
LEMMA ReachedInUse ==
    ASSUME KeptInv, Fine(ents, used, dirs, links, dotdot), NEW d \in Reached
    PROVE  d \in used \cap dirs
<1>1. Volume(ents, used, dirs, links, dotdot)
  BY DEF KeptInv, Typed
<1>2. CASE d = RootIno
  BY <1>1, <1>2 DEF Volume
<1>3. CASE d # RootIno
  <2>1. d \in Inos /\ d \in dirs /\ Holders(d) # {}
    BY <1>1, <1>3 DEF Reached, Volume, All
  <2>2. PICK p \in All \X EntryNames : ents[<<p[1], p[2], d>>] > 0
    BY <2>1 DEF Holders
  <2>3. QED
    BY <1>1, <2>1, <2>2 DEF Fine, Entered, Volume
<1>4. QED
  BY <1>2, <1>3

LEMMA NamedVacant ==
    ASSUME KeptInv, NEW d \in All, NEW n \in EntryNames
    PROVE  NamedIn(d, n) = {} <=> Vacant(ents, d, n)
BY DEF KeptInv, Typed, Volume, Places, NamedIn, Vacant

LEMMA StartCreateAgrees ==
    ASSUME KeptInv, NEW c \in Clients, CallInv(c), NEW d \in All, NEW n \in EntryNames, StartCreate(c, d, n)
    PROVE  CallInv(c)'
<1>1. PICK i \in Inos \ used :
         op' = [op EXCEPT ![c] = [Idle EXCEPT !.pc = "link", !.d = d, !.n = n, !.i = i]]
  BY DEF StartCreate
<1>2. op'[c] = [Idle EXCEPT !.pc = "link", !.d = d, !.n = n, !.i = i]
  BY <1>1 DEF KeptInv, Typed
<1>3. UNCHANGED <<ents, used, dirs, links, dotdot>> /\ op[c].pc = "idle" /\ d \in Reached /\ NamedIn(d, n) = {}
  BY DEF StartCreate, disk, Begins, At
<1>4. Fine(ents, used, dirs, links, dotdot)
  BY <1>3, NothingHalfDone DEF CallInv, Whole
<1>5. FineDone(c)'
  BY <1>2, <1>3, <1>4, NothingHalfDoneNext DEF Whole, Idle
<1>6. d \in used \cap dirs /\ Vacant(ents, d, n)
  BY <1>3, <1>4, ReachedInUse, NamedVacant
<1>7. CreateInv(c)'
  BY <1>2, <1>3, <1>6 DEF CreateInv, At, Idle
<1>8. RemoveInv(c)' /\ MoveInv(c)'
  BY <1>2 DEF RemoveInv, MoveInv, At, Idle, Removing
<1>9. QED
  BY <1>3, <1>4, <1>5, <1>7, <1>8 DEF CallInv, Fine

\* What an entry more is in terms of the lemmas above.
LEMMA AddIsWith ==
    ASSUME KeptInv, NEW d \in All, NEW n \in EntryNames, NEW i \in Inos, AddEntry(d, n, i),
           ents[<<d, n, i>>] = 0
    PROVE  ents' = With(ents, d, n, i)
<1>1. ents \in [Places -> Nat]
  BY DEF KeptInv, Typed, Volume
<1>2. ents' = [ents EXCEPT ![<<d, n, i>>] = ents[<<d, n, i>>] + 1]
  BY DEF AddEntry
<1>3. QED
  BY <1>1, <1>2 DEF With

LEMMA MakeAgrees ==
    ASSUME KeptInv, NEW c \in Clients, CallInv(c), NEW d \in All, NEW n \in EntryNames, NEW isdir \in BOOLEAN,
           Make(c, d, n, isdir), failures = 0, failures' = 0
    PROVE  CallInv(c)'
<1>1. op[c].pc = "idle" /\ d \in Reached /\ NamedIn(d, n) = {}
  BY DEF Make, Begins, At
<1>2. PICK i \in Inos \ used :
          /\ AddEntry(d, n, i)
          /\ used' = used \cup {i}
          /\ IF isdir
             THEN /\ dirs' = dirs \cup {i}
                  /\ links' = [links EXCEPT ![i] = 2, ![d] = @ + 1]
                  /\ dotdot' = [dotdot EXCEPT ![i] = d]
             ELSE /\ dirs' = dirs \ {i}
                  /\ links' = [links EXCEPT ![i] = 1]
                  /\ UNCHANGED dotdot
  BY DEF Make
<1>3. Fine(ents, used, dirs, links, dotdot)
  BY <1>1, NothingHalfDone DEF CallInv, Whole
<1>4. d \in used \cap dirs /\ Vacant(ents, d, n)
  BY <1>1, <1>3, ReachedInUse, NamedVacant
<1>5. ents' = With(ents, d, n, i)
  BY <1>2, <1>4, AddIsWith DEF Vacant
<1>6. Volume(ents, used, dirs, links, dotdot)
  BY DEF KeptInv, Typed
<1>7. CASE isdir
  <2>1. Fine(ents, used, dirs, links, dotdot)'
    BY <1>2, <1>3, <1>4, <1>5, <1>6, <1>7, DirAdded
  <2>2. QED
    <3>1. op'[c].pc = "idle" /\ ~op'[c].rename
      BY DEF Make, Return, Reply, Idle, KeptInv, Typed
    <3>2. QED
      BY <2>1, <3>1, AgreesAtReply
<1>8. CASE ~isdir
  <2>1. Fine(ents, used, dirs, links, dotdot)'
    BY <1>2, <1>3, <1>4, <1>5, <1>6, <1>8, FileAdded
  <2>2. QED
    <3>1. op'[c].pc = "idle" /\ ~op'[c].rename
      BY DEF Make, Return, Reply, Idle, KeptInv, Typed
    <3>2. QED
      BY <2>1, <3>1, AgreesAtReply
<1>9. QED
  BY <1>7, <1>8

LEMMA CreateAgrees ==
    ASSUME KeptInv, NEW c \in Clients, CallInv(c), CreateFile(c), failures = 0, failures' = 0
    PROVE  CallInv(c)'
<1> DEFINE o == op[c]
<1>1. /\ o \in Calls /\ CallTyped(o) /\ Volume(ents, used, dirs, links, dotdot)
      /\ CreateInv(c) /\ FineDone(c) /\ Unique(ents, dirs)
  BY DEF KeptInv, Typed, CallInv
<1>2. o.pc \in {"link", "write", "mark"}
  BY DEF CreateFile, CreateLink, CreateWrite, CreateMark, At
<1>3. ~o.rename /\ o.n \in EntryNames /\ o.i \in Inos \ used /\ o.d \in All
  BY <1>1, <1>2 DEF CallTyped, Calls, CreateInv
<1>4. CASE CreateLink(c)
  <2>1. o.pc = "link" /\ UNCHANGED <<used, dirs, links, dotdot>>
    BY <1>4 DEF CreateLink, At
  <2>2. o.d \in used \cap dirs /\ Vacant(ents, o.d, o.n)
    BY <1>1, <2>1 DEF CreateInv, At
  <2>3. AddEntry(o.d, o.n, o.i) /\ GoOn(c, "write")
    BY <1>4, <2>2 DEF CreateLink
  <2>4. ents' = With(ents, o.d, o.n, o.i)
    BY <1>3, <2>2, <2>3, AddIsWith DEF Vacant
  <2>5. GoesOn(c, "write")
    BY <2>3, GotoGoesOn DEF Pcs
  <2>6. Fine(ents, used, dirs, links, dotdot)
    BY <1>1, <2>1, NothingHalfDone DEF Whole
  <2>7. Fine(ents', used \cup {o.i}, dirs \ {o.i}, [links EXCEPT ![o.i] = 1], dotdot)
    BY <1>1, <1>3, <2>2, <2>4, <2>6, FileAdded
  <2>8. FineDone(c)'
    BY <2>1, <2>5, <2>7 DEF FineDone, EntsDone, UsedDone, DirsDone, LinksDone, DotDotDone, GoesOn,
       At, Removing, Relinking, Reparents
  <2>9. Unique(ents, dirs)'
    <3>1. \A a \in All, b \in EntryNames, q \in Inos :
             ents'[<<a, b, q>>] = IF a = o.d /\ b = o.n /\ q = o.i THEN 1 ELSE ents[<<a, b, q>>]
      BY <1>1, <2>4 DEF With, Volume, Places
    <3>2. QED
      BY <1>1, <2>1, <2>2, <3>1 DEF Unique, Vacant
  <2>10. QED
    BY <1>3, <2>1, <2>5, <2>8, <2>9 DEF CallInv, CreateInv, RemoveInv, MoveInv, GoesOn, At, Removing
<1>5. CASE CreateWrite(c)
  <2>1. /\ o.pc = "write" /\ UNCHANGED <<ents, used, dotdot>> /\ GoOn(c, "mark")
        /\ dirs' = dirs \ {o.i} /\ links' = [links EXCEPT ![o.i] = 1]
    BY <1>5 DEF CreateWrite, At
  <2>2. GoesOn(c, "mark")
    BY <2>1, GotoGoesOn DEF Pcs
  <2>3. Fine(ents, used \cup {o.i}, dirs \ {o.i}, [links EXCEPT ![o.i] = 1], dotdot)
    BY <1>1, <2>1 DEF FineDone, EntsDone, UsedDone, DirsDone, LinksDone, DotDotDone, At, Removing,
       Relinking, Reparents
  <2>4. dirs' \ {o.i} = dirs \ {o.i} /\ [links' EXCEPT ![o.i] = 1] = [links EXCEPT ![o.i] = 1]
        /\ links'[o.i] = 1
    BY <1>1, <1>3, <2>1 DEF Volume, All
  <2>5. FineDone(c)'
    BY <2>1, <2>2, <2>3, <2>4 DEF FineDone, EntsDone, UsedDone, DirsDone, LinksDone, DotDotDone,
       GoesOn, At, Removing, Relinking, Reparents
  <2>6. Unique(ents, dirs)'
    BY <2>1, <2>3 DEF Fine
  <2>7. QED
    BY <1>1, <1>3, <2>1, <2>2, <2>4, <2>5, <2>6 DEF CallInv, CreateInv, RemoveInv, MoveInv, GoesOn, At,
       Removing
<1>6. CASE CreateMark(c)
  <2>1. /\ o.pc = "mark" /\ UNCHANGED <<ents, dirs, links, dotdot>> /\ Return(c, TRUE)
        /\ used' = used \cup {o.i}
    BY <1>6 DEF CreateMark, At
  <2>2. Fine(ents, used \cup {o.i}, dirs \ {o.i}, [links EXCEPT ![o.i] = 1], dotdot)
    BY <1>1, <2>1 DEF FineDone, EntsDone, UsedDone, DirsDone, LinksDone, DotDotDone, At, Removing,
       Relinking, Reparents
  <2>3. dirs \ {o.i} = dirs /\ [links EXCEPT ![o.i] = 1] = links
    BY <1>1, <2>1 DEF CreateInv, At, Volume
  <2>4. op'[c].pc = "idle" /\ ~op'[c].rename
    BY <2>1 DEF Return, Reply, Idle, KeptInv, Typed
  <2>5. QED
    BY <2>1, <2>2, <2>3, <2>4, AgreesAtReply
<1>7. QED
  BY <1>4, <1>5, <1>6 DEF CreateFile

LEMMA StartRemoveAgrees ==
    ASSUME KeptInv, Careful, NEW c \in Clients, CallInv(c), NEW d \in All, NEW n \in EntryNames,
           NEW i \in Inos, StartRemove(c, d, n, i)
    PROVE  CallInv(c)'
<1> DEFINE r == [Idle EXCEPT !.pc = "unlink", !.d = d, !.n = n, !.i = i]
<1>1. op'[c] = r
  BY DEF StartRemove, KeptInv, Typed
<1>2. /\ UNCHANGED <<ents, used, dirs, links, dotdot>> /\ op[c].pc = "idle"
      /\ i \in NamedIn(d, n) /\ (i \in dirs => Empty(i))
  BY DEF StartRemove, disk, Begins, At
<1>3. Fine(ents, used, dirs, links, dotdot)
  BY <1>2, NothingHalfDone DEF CallInv, Whole
<1>4. FineDone(c)'
  BY <1>1, <1>2, <1>3, NothingHalfDoneNext DEF Whole, Idle
<1>5. Victim(c)' = <<d, n, i>>
  BY <1>1 DEF Victim, Idle
<1>6. RemoveInv(c)'
  <2>1. Empty(i)' <=> Empty(i)
    BY <1>2 DEF Empty, NamedIn
  <2>2. QED
    BY <1>1, <1>2, <1>5, <2>1 DEF RemoveInv, At, Idle, NamedIn, Child, Removing
<1>7. CreateInv(c)' /\ MoveInv(c)'
  BY <1>1 DEF CreateInv, MoveInv, At, Idle
<1>8. QED
  BY <1>2, <1>3, <1>4, <1>6, <1>7 DEF CallInv, Fine

\* An empty directory holds no name.
LEMMA EmptyVacant ==
    ASSUME KeptInv, NEW i \in All
    PROVE  Empty(i) <=> \A m \in EntryNames : Vacant(ents, i, m)
BY NamedVacant DEF Empty

\* What the removal of an entry does in terms of the lemmas above.
LEMMA UnlinkAgrees ==
    ASSUME KeptInv, NEW c \in Clients, CallInv(c), UnlinkEntry(c), failures = 0, failures' = 0
    PROVE  CallInv(c)'
<1> DEFINE o == op[c]  d == Victim(c)[1]  n == Victim(c)[2]  i == Child(c)
<1>1. /\ o \in Calls /\ CallTyped(o) /\ RenameInv(o) /\ Volume(ents, used, dirs, links, dotdot)
      /\ RemoveInv(c) /\ MoveInv(c) /\ FineDone(c) /\ Unique(ents, dirs)
  BY DEF KeptInv, Typed, CallInv
<1>2. o.pc = "unlink" /\ UNCHANGED <<used, dirs, links, dotdot>>
  BY DEF UnlinkEntry, At
<1>3. /\ d \in All /\ n \in EntryNames /\ i \in Inos
      /\ Victim(c) = <<d, n, i>>
  BY <1>2, VictimIs DEF Child
<1>4. ents[<<d, n, i>>] > 0 /\ (i \in dirs => Empty(i))
  BY <1>1, <1>2, <1>3 DEF RemoveInv, At
<1>5. DropEntry(d, n, i) /\ GoOn(c, "read")
  <2>1. ents[Victim(c)] # 0 /\ i = Victim(c)[3]
    BY <1>3, <1>4 DEF Child
  <2>2. QED
    BY <2>1 DEF UnlinkEntry
<1>6. GoesOn(c, "read") /\ Victim(c)' = Victim(c) /\ Child(c)' = i
  BY <1>5, GotoGoesOn DEF Pcs, GoesOn, Victim, Child
<1>7. Fine(ents, used, dirs, links, dotdot)
  BY <1>1, <1>2, NothingHalfDone DEF Whole
<1>8. ents' = Without(ents, d, n, i)
  <2>1. ents[<<d, n, i>>] = 1 /\ ents \in [Places -> Nat]
    BY <1>1, <1>3, <1>4, <1>7 DEF Fine, Entered, Volume
  <2>2. ents' = [ents EXCEPT ![<<d, n, i>>] = ents[<<d, n, i>>] - 1]
    BY <1>5 DEF DropEntry
  <2>3. QED
    BY <2>1, <2>2 DEF Without
<1>9. \A a \in All, b \in EntryNames, q \in Inos :
         ents'[<<a, b, q>>] = IF a = d /\ b = n /\ q = i THEN 0 ELSE ents[<<a, b, q>>]
  BY <1>1, <1>8 DEF Without, Volume, Places
<1>10. links[i] > 0 /\ FineDone(c)'
  <2>1. CASE i \in dirs
    <3>1. \A m \in EntryNames : Vacant(ents, i, m)
      BY <1>3, <1>4, <2>1, EmptyVacant DEF All
    <3>2. Fine(ents', used \ {i}, dirs, [Less(links, d) EXCEPT ![i] = 0], dotdot)
      BY <1>1, <1>3, <1>4, <1>7, <1>8, <2>1, <3>1, DirRemoved
    <3>3. links[i] > 0
      <4>1. i \in used
        BY <1>1, <1>3, <1>4, <1>7, <2>1, DirNamedOnce
      <4>2. links[i] = 2 + Cardinality(Subdirs(used, dirs, dotdot, i))
        BY <1>7, <2>1, <4>1 DEF Fine, Counted
      <4>3. QED
        BY <4>2, SubdirsFinite, FS_CardinalityType
    <3>4. QED
      BY <1>2, <1>6, <2>1, <3>2, <3>3 DEF FineDone, EntsDone, UsedDone, DirsDone, LinksDone,
         DotDotDone, GoesOn, At, Removing, Relinking, Reparents
  <2>2. CASE i \notin dirs
    <3>1. links[i] > 0 /\ Fine(ents', IF links[i] = 1 THEN used \ {i} ELSE used, dirs,
                              [links EXCEPT ![i] = @ - 1], dotdot)
      BY <1>1, <1>3, <1>4, <1>7, <1>8, <2>2, FileRemoved
    <3>2. QED
      BY <1>2, <1>6, <2>2, <3>1 DEF FineDone, EntsDone, UsedDone, DirsDone, LinksDone,
         DotDotDone, GoesOn, At, Removing, Relinking, Reparents
  <2>3. QED
    BY <2>1, <2>2
<1>11. Unique(ents, dirs)'
  BY <1>1, <1>2, <1>9 DEF Unique
<1>12. RemoveInv(c)'
  <2>1. Empty(i) => Empty(i)'
    <3>1. SUFFICES ASSUME Empty(i), NEW m \in EntryNames, NEW q \in Inos
                   PROVE  ~(ents'[<<i, m, q>>] > 0)
      BY <1>6 DEF Empty, NamedIn
    <3>2. ~(ents[<<i, m, q>>] > 0)
      BY <3>1 DEF Empty, NamedIn
    <3>3. QED
      BY <1>3, <1>9, <3>2 DEF All
  <2>2. QED
    BY <1>2, <1>4, <1>6, <1>10, <2>1 DEF RemoveInv, GoesOn, At, Removing
<1>13. MoveInv(c)'
  <2>1. o.rename => <<d, n, i>> = <<o.d2, o.n2, o.j>>
    BY <1>3 DEF Victim, Child
  <2>2. o.rename => Room(ents', dirs, o.d2, o.n2, o.i)
    <3>1. o.rename => i \notin dirs
      BY <1>1, <1>2, <2>1 DEF RenameInv
    <3>2. QED
      BY <1>1, <1>3, <1>4, <1>9, <2>1, <3>1 DEF Room, Unique, Calls
  <2>3. QED
    BY <1>1, <1>2, <1>6, <2>2 DEF MoveInv, GoesOn, At
<1>14. QED
  BY <1>2, <1>6, <1>10, <1>11, <1>12, <1>13 DEF CallInv, CreateInv, GoesOn, At

\* The rest of a removal: what UnlinkEntry began comes to its end.
LEMMA RemoveAgrees ==
    ASSUME KeptInv, NEW c \in Clients, CallInv(c), Remove(c), failures = 0, failures' = 0
    PROVE  CallInv(c)'
<1> DEFINE o == op[c]  d == Victim(c)[1]  n == Victim(c)[2]  i == Child(c)
<1>1. /\ o \in Calls /\ CallTyped(o) /\ RenameInv(o) /\ Volume(ents, used, dirs, links, dotdot)
      /\ RemoveInv(c) /\ MoveInv(c) /\ FineDone(c) /\ Unique(ents, dirs)
  BY DEF KeptInv, Typed, CallInv
<1>2. o.pc \in {"unlink", "read", "free", "save"}
  BY DEF Remove, UnlinkEntry, ReadInode, FreeDir, FreeFile, Save, At
<1>3. d \in All /\ n \in EntryNames /\ i \in Inos /\ i = Victim(c)[3]
  BY <1>2, VictimIs DEF Child
<1>4. ASSUME AfterRemove(c), UNCHANGED <<ents, dirs>>, Fine(ents, used, dirs, links, dotdot)',
             o.pc \in {"free", "save"}, o.rename => o.d2 \in used' \cap dirs
      PROVE  CallInv(c)'
  <2>1. CASE o.rename
    <3>1. GoesOn(c, "relink")
      BY <1>4, <2>1, GotoGoesOn DEF AfterRemove, Pcs
    <3>2. FineDone(c)'
      BY <1>4, <3>1, NothingHalfDoneNext DEF GoesOn, Whole
    <3>3. Room(ents', dirs', o.d2, o.n2, o.i)
      BY <1>1, <1>4, <2>1 DEF MoveInv, Room
    <3>4. QED
      BY <1>1, <1>4, <2>1, <3>1, <3>2, <3>3 DEF CallInv, CreateInv, RemoveInv, MoveInv, GoesOn, At, Removing
  <2>2. CASE ~o.rename
    <3>1. op'[c].pc = "idle" /\ ~op'[c].rename
      BY <1>4, <2>2 DEF AfterRemove, Return, Reply, Idle, KeptInv, Typed
    <3>2. QED
      BY <1>4, <3>1, AgreesAtReply
  <2>3. QED
    BY <2>1, <2>2
<1>5. CASE ReadInode(c)
  <2>1. /\ o.pc = "read" /\ UNCHANGED <<ents, used, dirs, links, dotdot>>
        /\ op' = [op EXCEPT ![c].pc = "free", ![c].held = links[i]]
    BY <1>3, <1>5 DEF ReadInode, At, disk
  <2>2. /\ GoesOn(c, "free") /\ op'[c].held = links[i]
        /\ Victim(c)' = Victim(c) /\ Child(c)' = i
    <3>1. links[i] \in Nat
      BY <1>1, <1>3 DEF Volume, All
    <3>2. GoesOn(c, "free") /\ op'[c].held = links[i]
      BY <1>1, <2>1, <3>1 DEF GoesOn, KeptInv, Typed, Calls, Pcs
    <3>3. QED
      BY <3>2 DEF GoesOn, Victim, Child
  <2>3. FineDone(c)'
    BY <1>1, <2>1, <2>2 DEF FineDone, EntsDone, UsedDone, DirsDone, LinksDone, DotDotDone, GoesOn, At,
       Removing, Relinking, Reparents
  <2>4. RemoveInv(c)'
    BY <1>1, <2>1, <2>2 DEF RemoveInv, GoesOn, At, Removing, Empty, NamedIn
  <2>5. MoveInv(c)' /\ CreateInv(c)'
    BY <1>1, <2>1, <2>2 DEF MoveInv, CreateInv, GoesOn, At, Room
  <2>6. QED
    BY <1>1, <2>1, <2>3, <2>4, <2>5 DEF CallInv, Unique
<1>6. CASE FreeDir(c)
  <2>1. /\ o.pc = "free" /\ i \in dirs /\ UNCHANGED <<dirs, dotdot>> /\ Victim(c)[1] = d
        /\ links' = OneLess(d) /\ ents' = Erased(i) /\ used' = used \ {i}
        /\ op' = [op EXCEPT ![c].pc = "save", ![c].held = 0]
    BY <1>3, <1>6 DEF FreeDir, At
  <2>2. ~o.rename
    BY <1>1, <2>1 DEF RenameInv, Child, Victim
  <2>3. /\ GoesOn(c, "save") /\ op'[c].held = 0
        /\ Victim(c)' = Victim(c) /\ Child(c)' = i
    BY <1>1, <2>1 DEF GoesOn, KeptInv, Typed, Calls, Pcs, Victim, Child
  <2>4. ents' = ents
    <3>1. \A m \in EntryNames : Vacant(ents, i, m)
      BY <1>1, <1>3, <2>1, EmptyVacant DEF RemoveInv, All
    <3>2. \A e \in Places : e[1] = i => ents[e] = 0
      BY <3>1 DEF Vacant, Places
    <3>3. ents' = [e \in Places |-> IF e[1] = i THEN 0 ELSE ents[e]]
      BY <1>1, <2>1 DEF Erased, Volume
    <3>4. QED
      BY <1>1, <3>2, <3>3 DEF Volume
  <2>5. Fine(ents, used \ {i}, dirs, [Less(links, d) EXCEPT ![i] = 0], dotdot)
    BY <1>1, <2>1 DEF FineDone, EntsDone, UsedDone, DirsDone, LinksDone, DotDotDone, At, Removing,
       Relinking, Reparents
  <2>6. links' = Less(links, d)
    BY <2>1 DEF OneLess, Less
  <2>7. FineDone(c)'
    BY <2>1, <2>3, <2>4, <2>5, <2>6 DEF FineDone, EntsDone, UsedDone, DirsDone, LinksDone, DotDotDone,
       GoesOn, At, Removing, Relinking, Reparents
  <2>8. Unique(ents, dirs)'
    BY <1>1, <2>1, <2>4 DEF Unique
  <2>9. QED
    BY <1>1, <2>2, <2>3, <2>4, <2>7, <2>8 DEF CallInv, CreateInv, RemoveInv, MoveInv, GoesOn, At, Removing
<1>7. CASE FreeFile(c)
  <2>1. /\ o.pc = "free" /\ i \notin dirs /\ UNCHANGED <<ents, dirs, links, dotdot>>
        /\ o.held = links[i] /\ o.held > 0
    BY <1>1, <1>3, <1>7 DEF FreeFile, At, RemoveInv, Removing
  <2>2. /\ used' = IF links[i] = 1 THEN used \ {i} ELSE used
        /\ op' = [op EXCEPT ![c].pc = "save", ![c].held = links[i] - 1]
    BY <1>3, <1>7, <2>1 DEF FreeFile
  <2>3. links[i] - 1 \in Nat
    BY <1>1, <1>3, <2>1 DEF Volume, All
  <2>4. /\ GoesOn(c, "save") /\ op'[c].held = links[i] - 1
        /\ Victim(c)' = Victim(c) /\ Child(c)' = i
    BY <1>1, <2>2, <2>3 DEF GoesOn, KeptInv, Typed, Calls, Pcs, Victim, Child
  <2>5. Fine(ents, IF links[i] = 1 THEN used \ {i} ELSE used, dirs, [links EXCEPT ![i] = links[i] - 1], dotdot)
    BY <1>1, <2>1 DEF FineDone, EntsDone, UsedDone, DirsDone, LinksDone, DotDotDone, At, Removing,
       Relinking, Reparents
  <2>6. FineDone(c)'
    BY <2>1, <2>2, <2>4, <2>5 DEF FineDone, EntsDone, UsedDone, DirsDone, LinksDone, DotDotDone,
       GoesOn, At, Removing, Relinking, Reparents
  <2>7. MoveInv(c)'
    BY <1>1, <2>1, <2>2, <2>4 DEF MoveInv, GoesOn, At, Room
  <2>8. QED
    BY <1>1, <2>1, <2>4, <2>6, <2>7 DEF CallInv, CreateInv, RemoveInv, GoesOn, At, Removing, Unique
<1>8. CASE Save(c)
  <2>1. /\ o.pc = "save" /\ links' = [links EXCEPT ![i] = o.held]
        /\ UNCHANGED <<ents, used, dirs, dotdot>> /\ AfterRemove(c)
    BY <1>3, <1>8 DEF Save, At
  <2>2. Fine(ents, used, dirs, links, dotdot)'
    BY <1>1, <2>1 DEF FineDone, EntsDone, UsedDone, DirsDone, LinksDone, DotDotDone, At, Removing,
       Relinking, Reparents
  <2>3. o.rename => o.d2 \in used' \cap dirs
    BY <1>1, <2>1 DEF MoveInv
  <2>4. QED
    BY <1>4, <2>1, <2>2, <2>3
<1>9. QED
  BY <1>5, <1>6, <1>7, <1>8, UnlinkAgrees DEF Remove

LEMMA StartRenameAgrees ==
    ASSUME KeptInv, Careful, NEW c \in Clients, CallInv(c), NEW d \in All, NEW n \in EntryNames,
           NEW i \in Inos, NEW b \in All, NEW m \in EntryNames, StartRename(c, d, n, i, b, m),
           failures = 0, failures' = 0
    PROVE  CallInv(c)'
<1> DEFINE r == [Idle EXCEPT !.pc = "relink", !.rename = TRUE,
                        !.d = d, !.n = n, !.i = i, !.d2 = b, !.n2 = m]
           q(j) == [Idle EXCEPT !.pc = "unlink", !.rename = TRUE,
                        !.d = d, !.n = n, !.i = i, !.d2 = b, !.n2 = m, !.j = j]
<1>1. /\ UNCHANGED <<ents, used, dirs, links, dotdot>> /\ op[c].pc = "idle"
      /\ {d, b} \subseteq Reached /\ i \in NamedIn(d, n)
      /\ i \notin NamedIn(b, m) /\ (i \in dirs => NamedIn(b, m) \subseteq dirs)
  BY DEF StartRename, disk, Begins, At
<1>2. Fine(ents, used, dirs, links, dotdot)
  BY <1>1, NothingHalfDone DEF CallInv, Whole
<1>3. b \in used \cap dirs
  BY <1>1, <1>2, ReachedInUse
<1>4. CASE op' = [op EXCEPT ![c] = r] /\ (i \in dirs \/ NamedIn(b, m) = {})
  <2>1. op'[c] = r
    BY <1>4 DEF KeptInv, Typed
  <2>2. FineDone(c)'
    BY <1>1, <1>2, <2>1, NothingHalfDoneNext DEF Whole, Idle
  <2>3. Room(ents, dirs, b, m, i)
    BY <1>1, <1>4 DEF Room, NamedIn, KeptInv, Typed, Volume, Places
  <2>4. MoveInv(c)'
    BY <1>1, <1>3, <2>1, <2>3 DEF MoveInv, At, Idle, Room
  <2>5. CreateInv(c)' /\ RemoveInv(c)'
    BY <2>1 DEF CreateInv, RemoveInv, At, Idle, Removing
  <2>6. QED
    BY <1>1, <1>2, <2>2, <2>4, <2>5 DEF CallInv, Fine
<1>5. CASE \E j \in NamedIn(b, m) : op' = [op EXCEPT ![c] = q(j)] /\ i \notin dirs
  <2>1. PICK j \in NamedIn(b, m) : op' = [op EXCEPT ![c] = q(j)]
    BY <1>5
  <2>2. op'[c] = q(j)
    BY <2>1 DEF KeptInv, Typed
  <2>3. FineDone(c)'
    BY <1>1, <1>2, <2>2, NothingHalfDoneNext DEF Whole, Idle
  <2>4. j \notin dirs /\ j \in Inos /\ ents[<<b, m, j>>] > 0
    BY <1>5 DEF StartRename, NamedIn
  <2>5. Victim(c)' = <<b, m, j>>
    BY <2>2 DEF Victim, Idle
  <2>6. RemoveInv(c)'
    BY <1>1, <2>2, <2>4, <2>5 DEF RemoveInv, At, Idle, Child, Removing
  <2>7. CreateInv(c)' /\ MoveInv(c)'
    BY <1>1, <1>3, <2>2 DEF CreateInv, MoveInv, At, Idle
  <2>8. QED
    BY <1>1, <1>2, <2>3, <2>6, <2>7 DEF CallInv, Fine
<1>6. QED
  <2>1. CASE /\ \/ (i \in dirs \/ NamedIn(b, m) = {}) /\ UNCHANGED failures
                \/ i \notin dirs /\ NamedIn(b, m) # {} /\ Fault
             /\ op' = [op EXCEPT ![c] = r]
    <3>1. ~Fault
      BY DEF Fault
    <3>2. QED
      BY <1>1, <1>4, <2>1, <3>1
  <2>2. QED
    BY <1>5, <2>1 DEF StartRename

\* The entry a rename adds and the one it drops, in terms of the lemmas above.
LEMMA LinkAgrees ==
    ASSUME KeptInv, NEW c \in Clients, CallInv(c), RenameLink(c), failures = 0, failures' = 0
    PROVE  CallInv(c)'
<1> DEFINE o == op[c]  f == Moved(ents, o.d, o.n, o.i, o.d2, o.n2)
<1>1. /\ o \in Calls /\ CallTyped(o) /\ RenameInv(o) /\ Volume(ents, used, dirs, links, dotdot)
      /\ MoveInv(c) /\ FineDone(c)
  BY DEF KeptInv, Typed, CallInv
<1>2. o.pc = "relink" /\ UNCHANGED <<used, dirs, links, dotdot>>
  BY DEF RenameLink, At
<1>3. /\ o.rename /\ o.d \in All /\ o.n \in EntryNames /\ o.i \in Inos /\ o.d2 \in All /\ o.n2 \in EntryNames
      /\ <<o.d, o.n>> # <<o.d2, o.n2>> /\ ents[<<o.d, o.n, o.i>>] > 0
      /\ o.d2 \in used \cap dirs /\ Room(ents, dirs, o.d2, o.n2, o.i)
  BY <1>1, <1>2 DEF CallTyped, Calls, RenameInv, MoveInv
<1>4. AddEntry(o.d2, o.n2, o.i) /\ GoOn(c, "drop")
  BY <1>3 DEF RenameLink
<1>5. ents' = With(ents, o.d2, o.n2, o.i)
  BY <1>3, <1>4, AddIsWith DEF Room
<1>6. GoesOn(c, "drop")
  BY <1>4, GotoGoesOn DEF Pcs
<1>7. Fine(ents, used, dirs, links, dotdot)
  BY <1>1, <1>2, NothingHalfDone DEF Whole
<1>8. EntsDone(c)' = f
  BY <1>5, <1>6 DEF EntsDone, At, GoesOn, Moved, Without
<1>9. FineDone(c)'
  <2>1. CASE o.i \in dirs
    <3>1. Fine(f, used, dirs, IF o.d2 = o.d THEN links ELSE [Less(links, o.d) EXCEPT ![o.d2] = @ + 1],
               IF o.d2 = o.d THEN dotdot ELSE [dotdot EXCEPT ![o.i] = o.d2])
      BY <1>1, <1>3, <1>7, <2>1, DirMoved
    <3>2. /\ UsedDone(c)' = used /\ DirsDone(c)' = dirs
          /\ LinksDone(c)' = IF o.d2 = o.d THEN links ELSE [Less(links, o.d) EXCEPT ![o.d2] = @ + 1]
          /\ DotDotDone(c)' = IF o.d2 = o.d THEN dotdot ELSE [dotdot EXCEPT ![o.i] = o.d2]
      BY <1>2, <1>6, <2>1 DEF UsedDone, DirsDone, LinksDone, DotDotDone, GoesOn, At, Removing,
         Relinking, Reparents
    <3>3. QED
      BY <1>8, <3>1, <3>2 DEF FineDone
  <2>2. CASE o.i \notin dirs
    <3>1. Fine(f, used, dirs, links, dotdot)
      BY <1>1, <1>3, <1>7, <2>2, FileMoved
    <3>2. UsedDone(c)' = used /\ DirsDone(c)' = dirs /\ LinksDone(c)' = links /\ DotDotDone(c)' = dotdot
      BY <1>2, <1>6, <2>2 DEF UsedDone, DirsDone, LinksDone, DotDotDone, GoesOn, At, Removing,
         Relinking, Reparents
    <3>3. QED
      BY <1>8, <3>1, <3>2 DEF FineDone
  <2>3. QED
    BY <2>1, <2>2
<1>10. /\ \A a \in All, b \in EntryNames, q \in Inos :
             ents'[<<a, b, q>>] = IF a = o.d2 /\ b = o.n2 /\ q = o.i THEN 1 ELSE ents[<<a, b, q>>]
       /\ Unique(ents, dirs)
  BY <1>1, <1>5, <1>7 DEF With, Volume, Places, Fine
<1>11. Unique(ents, dirs)'
  BY <1>2, <1>3, <1>10 DEF Unique, Room
<1>12. MoveInv(c)'
  <2>1. ents[<<o.d, o.n, o.i>>] = 1
    BY <1>1, <1>3, <1>7 DEF Fine, Entered, Volume, Places
  <2>2. QED
    BY <1>2, <1>3, <1>6, <1>10, <2>1 DEF MoveInv, GoesOn, At
<1>13. QED
  BY <1>6, <1>9, <1>11, <1>12 DEF CallInv, CreateInv, RemoveInv, GoesOn, At, Removing

LEMMA RenameAgrees ==
    ASSUME KeptInv, NEW c \in Clients, CallInv(c), Rename(c), failures = 0, failures' = 0
    PROVE  CallInv(c)'
<1> DEFINE o == op[c]
<1>1. /\ o \in Calls /\ CallTyped(o) /\ RenameInv(o) /\ Volume(ents, used, dirs, links, dotdot)
      /\ MoveInv(c) /\ FineDone(c) /\ Unique(ents, dirs)
  BY DEF KeptInv, Typed, CallInv
<1>2. /\ o.pc \in {"relink", "touch"} \cup Relinking /\ o.rename
      /\ o.d \in All /\ o.n \in EntryNames /\ o.i \in Inos /\ o.d2 \in All /\ o.n2 \in EntryNames
  BY <1>1 DEF Rename, RenameLink, RenameDrop, DotDot, Counts, Touch, At, CallTyped, Calls, Relinking
<1>3. ASSUME NEW ok \in BOOLEAN, Return(c, ok), Fine(ents, used, dirs, links, dotdot)' PROVE CallInv(c)'
  <2>1. op'[c].pc = "idle" /\ ~op'[c].rename
    BY <1>3 DEF Return, Reply, Idle, KeptInv, Typed
  <2>2. QED
    BY <1>3, <2>1, AgreesAtReply
<1>4. CASE RenameDrop(c)
  <2>1. o.pc = "drop" /\ UNCHANGED <<used, dirs, links, dotdot>> /\ ents[<<o.d, o.n, o.i>>] = 1
    BY <1>1, <1>4 DEF RenameDrop, At, MoveInv
  <2>2. /\ DropEntry(o.d, o.n, o.i)
        /\ \/ o.i \notin dirs /\ GoOn(c, "touch")
           \/ o.i \in dirs /\ o.d = o.d2 /\ Return(c, TRUE)
           \/ o.i \in dirs /\ o.d # o.d2 /\ GoOn(c, "dotdot")
    <3>1. ents[<<o.d, o.n, o.i>>] # 0
      BY <2>1
    <3>2. QED
      BY <1>4, <3>1 DEF RenameDrop
  <2>3. ents' = EntsDone(c)
    BY <1>1, <1>2, <2>1, <2>2 DEF EntsDone, At, DropEntry
  <2>4. Unique(ents, dirs)'
    BY <1>1, <2>1, <2>3 DEF FineDone, Fine, DirsDone, At
  <2>5. /\ UsedDone(c) = used /\ DirsDone(c) = dirs
        /\ o.i \notin dirs \/ o.d = o.d2 => LinksDone(c) = links /\ DotDotDone(c) = dotdot
    BY <2>1 DEF UsedDone, DirsDone, LinksDone, DotDotDone, At, Removing, Relinking, Reparents
  <2>6. CASE o.i \notin dirs /\ GoOn(c, "touch")
    <3>1. GoesOn(c, "touch")
      BY <2>6, GotoGoesOn DEF Pcs
    <3>2. FineDone(c)'
      BY <1>1, <2>1, <2>3, <2>5, <2>6, <3>1, NothingHalfDoneNext DEF FineDone, GoesOn, Whole
    <3>3. QED
      BY <2>4, <3>1, <3>2 DEF CallInv, CreateInv, RemoveInv, MoveInv, GoesOn, At, Removing
  <2>7. CASE o.i \in dirs /\ o.d = o.d2 /\ Return(c, TRUE)
    BY <1>1, <1>3, <2>1, <2>3, <2>5, <2>7 DEF FineDone
  <2>8. CASE o.i \in dirs /\ o.d # o.d2 /\ GoOn(c, "dotdot")
    <3>1. GoesOn(c, "dotdot")
      BY <2>8, GotoGoesOn DEF Pcs
    <3>2. /\ EntsDone(c)' = ents' /\ UsedDone(c)' = used /\ DirsDone(c)' = dirs
          /\ LinksDone(c)' = LinksDone(c) /\ DotDotDone(c)' = DotDotDone(c)
      BY <2>1, <3>1 DEF EntsDone, UsedDone, DirsDone, LinksDone, DotDotDone, GoesOn, At, Removing,
         Relinking, Reparents
    <3>3. FineDone(c)'
      BY <1>1, <2>3, <2>5, <3>2 DEF FineDone
    <3>4. QED
      BY <2>1, <2>4, <2>8, <3>1, <3>3 DEF CallInv, CreateInv, RemoveInv, MoveInv, GoesOn, At, Removing
  <2>9. QED
    BY <2>2, <2>6, <2>7, <2>8
<1>5. CASE DotDot(c)
  <2>1. /\ o.pc = "dotdot" /\ UNCHANGED <<ents, used, dirs, links>> /\ GoOn(c, "counts")
        /\ dotdot' = [dotdot EXCEPT ![o.i] = o.d2] /\ o.i \in dirs /\ o.d # o.d2
    BY <1>1, <1>5 DEF DotDot, At, MoveInv
  <2>2. GoesOn(c, "counts")
    BY <2>1, GotoGoesOn DEF Pcs
  <2>3. /\ EntsDone(c)' = EntsDone(c) /\ UsedDone(c)' = UsedDone(c) /\ DirsDone(c)' = DirsDone(c)
        /\ LinksDone(c)' = LinksDone(c) /\ DotDotDone(c)' = DotDotDone(c)
    BY <2>1, <2>2 DEF EntsDone, UsedDone, DirsDone, LinksDone, DotDotDone, GoesOn, At, Removing,
       Relinking, Reparents
  <2>4. FineDone(c)'
    BY <1>1, <2>3 DEF FineDone
  <2>5. QED
    BY <1>1, <2>1, <2>2, <2>4 DEF CallInv, CreateInv, RemoveInv, MoveInv, GoesOn, At, Removing, Unique
<1>6. CASE Counts(c)
  <2>1. /\ o.pc = "counts" /\ UNCHANGED <<ents, used, dirs, dotdot>> /\ Return(c, TRUE)
        /\ links' = [OneLess(o.d) EXCEPT ![o.d2] = @ + 1] /\ o.i \in dirs /\ o.d # o.d2
    BY <1>1, <1>6 DEF Counts, At, MoveInv
  <2>2. OneLess(o.d) = Less(links, o.d)
    BY DEF OneLess, Less
  <2>3. Fine(ents, used, dirs, links, dotdot)'
    BY <1>1, <2>1, <2>2 DEF FineDone, EntsDone, UsedDone, DirsDone, LinksDone, DotDotDone, At, Removing,
       Relinking, Reparents
  <2>4. QED
    BY <1>3, <2>1, <2>3
<1>7. CASE Touch(c)
  <2>1. o.pc = "touch" /\ Return(c, TRUE) /\ UNCHANGED <<ents, used, dirs, links, dotdot>>
    BY <1>7 DEF Touch, At, disk
  <2>2. Fine(ents, used, dirs, links, dotdot)
    BY <1>1, <2>1, NothingHalfDone DEF Whole
  <2>3. QED
    BY <1>3, <2>1, <2>2
<1>8. QED
  BY <1>4, <1>5, <1>6, <1>7, LinkAgrees DEF Rename

\* While no call fails and one careful client runs, its call keeps the volume on its way to
\* one that agrees.
LEMMA NamesStep == OneClient /\ Careful /\ NamesInv /\ [ExtNamesNext]_extNamesVars => NamesInv'
<1> SUFFICES ASSUME OneClient, Careful, NamesInv, [ExtNamesNext]_extNamesVars PROVE NamesInv'
  OBVIOUS
<1>1. KeptInv /\ KeptInv'
  BY KeptStep DEF NamesInv
<1>2. SUFFICES ASSUME failures' = 0, NEW c \in Clients PROVE CallInv(c)'
  BY <1>1 DEF NamesInv
<1>3. failures = 0 /\ CallInv(c)
  <2>1. failures \in Nat
    BY <1>1 DEF KeptInv, Typed
  <2>2. failures' = failures \/ failures' = failures + 1
    <3>1. ASSUME NEW b \in Clients, CreateFile(b) \/ Remove(b) \/ Rename(b) PROVE UNCHANGED failures
      BY <3>1 DEF CreateFile, CreateLink, CreateWrite, CreateMark, Remove, UnlinkEntry, ReadInode, FreeDir,
         FreeFile, Save, Rename, RenameLink, RenameDrop, DotDot, Counts, Touch, AfterRemove, GoOn, Return
    <3>2. ASSUME NEW b \in Clients, CallFails(b) \/ CountMissed(b) PROVE failures' = failures + 1
      BY <3>2 DEF CallFails, CountMissed, Fault
    <3>3. ASSUME NEW b \in Clients, NEW d \in All, NEW n \in EntryNames, NEW i \in Inos, StartRemove(b, d, n, i)
          PROVE  UNCHANGED failures
      BY <3>3 DEF StartRemove
    <3>4. ASSUME NEW b \in Clients, NEW d \in All, NEW n \in EntryNames, StartCreate(b, d, n)
          PROVE  UNCHANGED failures
      BY <3>4 DEF StartCreate
    <3>5. ASSUME NEW b \in Clients, NEW d \in All, NEW n \in EntryNames, NEW isdir \in BOOLEAN, Make(b, d, n, isdir)
          PROVE  failures' = failures \/ failures' = failures + 1
      BY <3>5 DEF Make, Return, Fault
    <3>6. ASSUME NEW b \in Clients, NEW d \in All, NEW n \in EntryNames, NEW i \in Inos, NEW d2 \in All,
                 NEW n2 \in EntryNames, StartRename(b, d, n, i, d2, n2)
          PROVE  failures' = failures \/ failures' = failures + 1
      BY <3>6 DEF StartRename, Fault
    <3>7. ASSUME NEW b \in Clients, BoundReached(b) PROVE UNCHANGED failures
      BY <3>7 DEF BoundReached, extNamesVars
    <3>8. QED
      BY <3>1, <3>2, <3>3, <3>4, <3>5, <3>6, <3>7 DEF ExtNamesNext, Starts, extNamesVars
  <2>3. QED
    BY <1>2, <2>1, <2>2 DEF NamesInv
<1>4. CASE UNCHANGED extNamesVars
  <2>1. UNCHANGED <<ents, used, dirs, links, dotdot, op>>
    BY <1>4 DEF extNamesVars, disk
  <2>2. Victim(c)' = Victim(c)
    BY <2>1 DEF Victim
  <2>3. FineDone(c)'
    BY <1>3, <2>1, <2>2 DEF CallInv, FineDone, EntsDone, UsedDone, DirsDone, LinksDone, DotDotDone,
       At, Child, Reparents
  <2>4. CreateInv(c)' /\ RemoveInv(c)' /\ MoveInv(c)' /\ Unique(ents, dirs)'
    BY <1>3, <2>1, <2>2 DEF CallInv, CreateInv, RemoveInv, MoveInv, At, Child, Empty, NamedIn, Vacant, Room
  <2>5. QED
    BY <2>3, <2>4 DEF CallInv
<1>5. \A b \in Clients : b = c
  BY DEF OneClient
<1>6. ASSUME BoundReached(c) PROVE CallInv(c)'
  BY <1>4, <1>6 DEF BoundReached
<1>7. ASSUME CreateFile(c) \/ Remove(c) \/ Rename(c) PROVE CallInv(c)'
  BY <1>1, <1>2, <1>3, <1>7, CreateAgrees, RemoveAgrees, RenameAgrees
<1>8. ~CallFails(c) /\ ~CountMissed(c)
  BY <1>2, <1>3 DEF CallFails, CountMissed, Fault
<1>9. ASSUME NEW d \in All, NEW n \in EntryNames, NEW isdir \in BOOLEAN, Make(c, d, n, isdir)
      PROVE  CallInv(c)'
  BY <1>1, <1>2, <1>3, <1>9, MakeAgrees
<1>10. ASSUME NEW d \in All, NEW n \in EntryNames, StartCreate(c, d, n) PROVE CallInv(c)'
  BY <1>1, <1>3, <1>10, StartCreateAgrees
<1>11. ASSUME NEW d \in All, NEW n \in EntryNames, NEW i \in Inos, StartRemove(c, d, n, i)
       PROVE  CallInv(c)'
  BY <1>1, <1>3, <1>11, StartRemoveAgrees
<1>12. ASSUME NEW d \in All, NEW n \in EntryNames, NEW i \in Inos, NEW d2 \in All, NEW n2 \in EntryNames,
              StartRename(c, d, n, i, d2, n2)
       PROVE  CallInv(c)'
  BY <1>1, <1>2, <1>3, <1>12, StartRenameAgrees
<1>13. QED
  BY <1>4, <1>5, <1>6, <1>7, <1>8, <1>9, <1>10, <1>11, <1>12 DEF ExtNamesNext, Starts

(***************************************************************************)
(* The theorems.                                                            *)
(***************************************************************************)
\* A volume on which no call is under way is one that agrees.
LEMMA SettledFine ==
    ASSUME NamesInv, Settled, NEW c \in Clients
    PROVE  /\ Fine(ents, used, dirs, links, dotdot) /\ Volume(ents, used, dirs, links, dotdot)
           /\ \A i \in Inos : Holders(i) = Holding(ents, i)
<1>1. FineDone(c) /\ op[c].pc \in Whole
  BY DEF NamesInv, Settled, CallInv, At, Whole
<1>2. QED
  BY <1>1, NothingHalfDone DEF NamesInv, KeptInv, Typed, Holders, Holding

LEMMA NamesInvAlways == ASSUME OneClient, Careful PROVE ExtNamesSpec => []NamesInv
<1>1. ExtNamesInit => NamesInv
  BY KeptInit, AgreesInit DEF NamesInv
<1>2. NamesInv /\ [ExtNamesNext]_extNamesVars => NamesInv'
  BY NamesStep
<1>3. QED
  BY <1>1, <1>2, PTL DEF ExtNamesSpec

\* Whatever call of the library fails, a rename never leaves what it moves without a name.
THEOREM RenamedKeptCorrect == ASSUME OneClient PROVE ExtNamesSpec => []RenamedKept
<1>1. ExtNamesInit => KeptInv
  BY KeptInit
<1>2. KeptInv /\ [ExtNamesNext]_extNamesVars => KeptInv'
  BY KeptStep
<1>3. KeptInv => RenamedKept
  <2> SUFFICES ASSUME KeptInv, NEW c \in Clients, op[c].rename PROVE Holders(op[c].i) # {}
    BY DEF RenamedKept
  <2> DEFINE o == op[c]
  <2>1. /\ o \in Calls /\ CallTyped(o) /\ RenameInv(o)
    BY DEF KeptInv, Typed
  <2>2. o.n \in EntryNames /\ o.n2 \in EntryNames /\ o.d \in All /\ o.d2 \in All /\ o.i \in Inos
    BY <2>1 DEF CallTyped, Calls
  <2>3. o.pc \in {"unlink", "read", "free", "save", "relink", "touch"} \cup Relinking
    BY <2>1 DEF CallTyped, Calls, Pcs, Relinking
  <2>4. ents[<<o.d, o.n, o.i>>] > 0 \/ ents[<<o.d2, o.n2, o.i>>] > 0
    BY <2>1, <2>3 DEF RenameInv
  <2>5. <<o.d, o.n>> \in Holders(o.i) \/ <<o.d2, o.n2>> \in Holders(o.i)
    BY <2>2, <2>4 DEF Holders
  <2>6. QED
    BY <2>5
<1>4. QED
  BY <1>1, <1>2, <1>3, PTL DEF ExtNamesSpec

\* Between the calls of one careful client every entry names an inode in use.
THEOREM NoDanglingCorrect ==
    ASSUME OneClient, Careful, Clients # {} PROVE ExtNamesSpec => []NoDangling
<1>1. NamesInv => NoDangling
  <2> SUFFICES ASSUME NamesInv, Settled, NEW i \in Inos, Holders(i) # {} PROVE i \in used
    BY DEF NoDangling
  <2>1. /\ Fine(ents, used, dirs, links, dotdot) /\ Volume(ents, used, dirs, links, dotdot)
        /\ Holders(i) = Holding(ents, i)
    BY SettledFine
  <2>2. PICK p \in All \X EntryNames : ents[<<p[1], p[2], i>>] > 0
    BY <2>1 DEF Holding
  <2>3. QED
    BY <2>1, <2>2 DEF Fine, Entered, Volume
<1>2. QED
  BY <1>1, NamesInvAlways, PTL

\* ... the link counts are the numbers of entries and subdirectories,
THEOREM LinksAgreeCorrect ==
    ASSUME OneClient, Careful, Clients # {} PROVE ExtNamesSpec => []LinksAgree
<1>1. NamesInv => LinksAgree
  <2> SUFFICES ASSUME NamesInv, Settled, NEW i \in used
               PROVE  links[i] = IF i \in dirs
                       THEN 2 + Cardinality({j \in Inos \cap used \cap dirs : dotdot[j] = i})
                       ELSE Cardinality(Holders(i))
    BY DEF LinksAgree
  <2>1. /\ Counted(ents, used, dirs, links, dotdot) /\ Volume(ents, used, dirs, links, dotdot)
        /\ \A q \in Inos : Holders(q) = Holding(ents, q)
    BY SettledFine DEF Fine
  <2>2. i \notin dirs => i \in Inos
    BY <2>1 DEF Volume, All
  <2>3. QED
    BY <2>1, <2>2 DEF Counted, Subdirs
<1>2. QED
  BY <1>1, NamesInvAlways, PTL

\* ... every directory has one entry, in the directory that its ".." names,
THEOREM TreeAgreesCorrect ==
    ASSUME OneClient, Careful, Clients # {} PROVE ExtNamesSpec => []TreeAgrees
<1>1. NamesInv => TreeAgrees
  <2> SUFFICES ASSUME NamesInv, Settled, NEW i \in Inos \cap used \cap dirs
               PROVE  \E n \in EntryNames : /\ Holders(i) = {<<dotdot[i], n>>}
                                       /\ ents[<<dotdot[i], n, i>>] = 1
    BY DEF TreeAgrees
  <2>1. /\ Fine(ents, used, dirs, links, dotdot) /\ Volume(ents, used, dirs, links, dotdot)
        /\ Holders(i) = Holding(ents, i)
    BY SettledFine
  <2>2. PICK n \in EntryNames : Holding(ents, i) = {<<dotdot[i], n>>}
    BY <2>1 DEF Fine, Placed
  <2>3. <<dotdot[i], n>> \in Holding(ents, i)
    BY <2>2
  <2>4. ents[<<dotdot[i], n, i>>] = 1
    BY <2>1, <2>3 DEF Holding, Fine, Entered, Volume
  <2>5. QED
    BY <2>1, <2>2, <2>4
<1>2. QED
  BY <1>1, NamesInvAlways, PTL

\* ... and nothing in use is without a name.
THEOREM NothingLostCorrect ==
    ASSUME OneClient, Careful, Clients # {} PROVE ExtNamesSpec => []NothingLost
<1>1. NamesInv => NothingLost
  BY SettledFine DEF NothingLost, Fine, NoneLost
<1>2. QED
  BY <1>1, NamesInvAlways, PTL

\* Within a call of such a client either, no file shares its name: only directories
\* do, which extfsk_rename does not replace.
THEOREM FilesNamedAloneCorrect ==
    ASSUME OneClient, Careful, Clients # {} PROVE ExtNamesSpec => []FilesNamedAlone
<1>1. NamesInv => FilesNamedAlone
  <2> SUFFICES ASSUME NamesInv, failures = 0, NEW d \in All, NEW n \in EntryNames, ~(NamedIn(d, n) \subseteq dirs)
               PROVE  Cardinality(NamedIn(d, n)) <= 1
    BY DEF FilesNamedAlone
  <2>1. PICK i \in NamedIn(d, n) : i \notin dirs
    OBVIOUS
  <2>2. \A j \in NamedIn(d, n) : i = j
    BY <2>1 DEF NamesInv, CallInv, Unique, NamedIn
  <2>3. NamedIn(d, n) = {i}
    BY <2>1, <2>2
  <2>4. Cardinality({i}) = 1
    BY FS_Singleton
  <2>5. QED
    BY <2>3, <2>4
<1>2. QED
  BY <1>1, NamesInvAlways, PTL

===============================================================================
