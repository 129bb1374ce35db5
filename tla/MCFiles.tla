------------------------------- MODULE MCFiles -------------------------------
(***************************************************************************)
(* What a mounted volume is read and written by, in two parts that keep no     *)
(* state in common and are looked at one at a time: the pages of a directory   *)
(* (ReadDir, ExtReadDir) and the bytes of a file (NtfsFile, ExtFileData); each *)
(* for the two engines, of which the extension that FSKit starts has one.      *)
(*                                                                         *)
(* Pages of an NTFS directory: four entries, of five names with one hidden and  *)
(* one that does not convert, and pages of one or two: a page ends at the       *)
(* first, a middle, a hidden, an unnamed and the last entry.  ext: four places  *)
(* in all for three names and ".".                                            *)
(*                                                                         *)
(* Bytes of an ext file: up to three blocks of two bytes; offsets below 8 can   *)
(* be said, and a file of more than that has far ones.  NTFS: up to three       *)
(* bytes, written one or two at a time, and a stream with values of one or two  *)
(* parts, of which the caller has room for one.                               *)
(***************************************************************************)
EXTENDS ReadDir, ExtReadDir, ExtFileData, NtfsFile

CONSTANTS n1, n2, n3, n4, n5, none, s1, err, gone,
    Parts,      \* the parts considered, "pages" or "bytes"
    Engines     \* the engines considered, "ntfs" or "ext"

FiveNames == {n1, n2, n3, n4, n5}
TwoHidden == {n4, n5}
OneMute   == {n4}
FourNames == {n1, n2, n3, n4}
OneDot    == {n4}

OneValue  == {1}
TwoValues == {1, 2}
TwoBufs   == {<<1>>, <<1, 2>>}
OneStream == {s1}
TwoXattrs == {<<1>>, <<2, 1>>}

VARIABLES part, engine

allVars == <<part, engine, vars, extDirVars, fileVars, extFileVars>>

\* What is not considered stays in one of its initial states.
AllInit ==
    /\ part \in Parts /\ engine \in Engines
    /\ (part = "pages" /\ engine = "ntfs") \/ dir = <<>>
    /\ (part = "pages" /\ engine = "ext") \/ blocks = [b \in BlockNos |-> [s \in Offsets |-> Vacant]]
    /\ (part = "bytes" /\ engine = "ntfs") \/ kind = "plain"
    /\ Init /\ ExtDirInit /\ FileInit /\ ExtFileInit

Runs(p, e) == part = p /\ engine = e /\ UNCHANGED <<part, engine>>

NtfsPages(A) == Runs("pages", "ntfs") /\ A /\ UNCHANGED <<extDirVars, fileVars, extFileVars>>
ExtPages(A)  == Runs("pages", "ext") /\ A /\ UNCHANGED <<vars, fileVars, extFileVars>>
NtfsBytes(A) == Runs("bytes", "ntfs") /\ A /\ UNCHANGED <<vars, extDirVars, extFileVars>>
ExtBytes(A)  == Runs("bytes", "ext") /\ A /\ UNCHANGED <<vars, extDirVars, fileVars>>

AllNext == NtfsPages(Next) \/ ExtPages(ExtDirNext) \/ NtfsBytes(FileNext) \/ ExtBytes(ExtFileNext)

AllFairness ==
    /\ WF_allVars(NtfsPages(PageStep))
    /\ WF_allVars(NtfsPages(\E r \in 1 .. MaxRoom : StartPage(r)))
    /\ WF_allVars(ExtPages(ReadStep))
    /\ WF_allVars(ExtPages(\E r \in 1 .. MaxTake : OpenPage(r)))

AllSpec == AllInit /\ [][AllNext]_allVars /\ AllFairness

\* An enumeration comes to its end with either engine, whatever changes meanwhile:
\* no page starts where the last one did.
EnumerationsEnd ==
    part = "pages" => /\ engine = "ntfs" => EnumerationEnds
                      /\ engine = "ext" => PagesEnd
=============================================================================
