------------------------------- MODULE MCNames -------------------------------
(***************************************************************************)
(* The two engines that keep names, each on a volume of its own.  The          *)
(* extension that FSKit starts has one of them.                               *)
(***************************************************************************)
EXTENDS MCNtfsNamespace, MCExtNamespace, TLC

CONSTANT Engines    \* the engines considered, "ntfs" or "ext"

VARIABLE engine

bothVars == <<engine, vars, extNamesVars>>

\* The engine that does not run has a volume without files.
BothInit ==
    /\ engine \in Engines
    /\ Init /\ ExtNamesInit
    /\ engine # "ntfs" => \A e \in Entries : index[e] = NoInode \/ e[2] = a
    /\ engine # "ext" => used = {RootIno}

NtfsStep(A) == engine = "ntfs" /\ A /\ UNCHANGED <<engine, extNamesVars>>
ExtStep(A) == engine = "ext" /\ A /\ UNCHANGED <<engine, vars>>

BothNext == NtfsStep(Next) \/ ExtStep(ExtNamesNext)

BothSpec == BothInit /\ [][BothNext]_bothVars

\* The records of NTFS files are alike; so are the inodes of ext, of which two are
\* exchanged and not three, since every permutation costs time.
FilesAlike == Permutations({f1, f2}) \cup Permutations({i1, i2})
=============================================================================
