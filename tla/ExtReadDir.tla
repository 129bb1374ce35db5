------------------------------ MODULE ExtReadDir ------------------------------
(***************************************************************************)
(* The enumeration of an ext directory in pages: extfsk_readdir and rd_proc   *)
(* (bridge/ext_fskit.c) below enumerateDirectory (EXTVolume.swift).           *)
(*                                                                         *)
(* libext2fs reads one block of the directory after the other and calls       *)
(* rd_proc for each entry in use, with the entry's offset in ITS BLOCK.  The   *)
(* cookie of an entry is that offset plus rec_len, which reaches to the next    *)
(* record of the block.  No lock keeps the pages and the changes of the        *)
(* directory apart: a change may fall between two pages, or into one, after    *)
(* its block has been read.                                                  *)
(***************************************************************************)
EXTENDS Naturals

CONSTANTS
    FileNames,  \* names of entries
    Dots,       \* those not reported, "." and ".."
    Vacant,     \* no entry in use
    NBlocks,    \* blocks of the directory
    NOffsets,   \* offsets in a block at which an entry may begin
    MaxTake,    \* bound: entries a packer takes
    MaxEdits    \* bound: creations and removals in a behaviour

ASSUME ExtReadDirAssumption ==
    /\ Vacant \notin FileNames /\ Dots \subseteq FileNames
    /\ NBlocks \in Nat \ {0} /\ NOffsets \in Nat \ {0}
    /\ MaxTake \in Nat \ {0} /\ MaxEdits \in Nat

Offsets == 0 .. NOffsets - 1
BlockNos == 1 .. NBlocks

VARIABLES
    blocks,     \* the directory: the name at each offset of each block
    stage,      \* "between" pages, in a "page", or "ended"
    start,      \* rc.start, the cookie the page was asked for
    resume,     \* the cookie of the last entry taken
    blk, off,   \* where libext2fs is
    buffer,     \* the block as it was read
    takes,      \* entries the packer still takes
    seen,       \* the entries taken in this enumeration
    again,      \* for the properties: those taken more than once
    steady,     \* for the properties: entries there since the enumeration began
    edits       \* creations and removals so far

reading == <<stage, start, resume, blk, off, buffer, takes, seen, again>>
extDirVars == <<blocks, reading, steady, edits>>

InUse(b) == {b[s] : s \in Offsets} \ {Vacant}
Present == (UNION {InUse(blocks[b]) : b \in BlockNos}) \ Dots

\* FSKit asks for a page; libext2fs reads the first block.
OpenPage(r) ==
    /\ stage = "between"
    /\ stage' = "page" /\ start' = resume /\ takes' = r
    /\ blk' = 1 /\ off' = 0 /\ buffer' = blocks[1]
    /\ UNCHANGED <<blocks, resume, seen, again, steady, edits>>

AtEntry == stage = "page" /\ off < NOffsets

Passed ==
    /\ off' = off + 1
    /\ UNCHANGED <<blocks, stage, start, resume, blk, buffer, takes, seen, again,
                   steady, edits>>

\* Offsets without an entry; rd_proc returns 0 before the cookie, and for . and ...
PassOver ==
    /\ AtEntry
    /\ off < start \/ buffer[off] \in Dots \cup {Vacant}
    /\ Passed

\* Where the record of the entry at off may end: at the next one of the block.
Reaches == {n \in off + 1 .. NOffsets :
               \A s \in Offsets : (off < s /\ s < n) => buffer[s] = Vacant}

\* The packer takes the entry, with next as its cookie.
Packed(next) ==
    /\ takes > 0 /\ takes' = takes - 1
    /\ resume' = next
    /\ seen' = seen \cup {buffer[off]}
    /\ again' = IF buffer[off] \in seen THEN again \cup {buffer[off]} ELSE again
    /\ off' = off + 1
    /\ UNCHANGED <<blocks, stage, start, blk, buffer, steady, edits>>

AtVisible == AtEntry /\ off >= start /\ buffer[off] \notin Dots \cup {Vacant}

\* Pack with the offset of the entry itself for its cookie.
PackOwn == AtVisible /\ Packed(off)

\* Pack that counts one record too many.
PackBeyond == AtVisible /\ \E next \in Reaches : Packed(next + 1)

Pack == AtVisible /\ \E next \in Reaches : Packed(next)

\* The packer is full: DIRENT_ABORT.
Abort ==
    /\ AtVisible /\ takes = 0
    /\ stage' = "between"
    /\ UNCHANGED <<blocks, start, resume, blk, off, buffer, takes, seen, again, steady,
                   edits>>

\* The next block, or the end of the directory, after which FSKit asks no more.
EndOfBlock ==
    /\ stage = "page" /\ off = NOffsets
    /\ \/ /\ blk < NBlocks /\ blk' = blk + 1 /\ off' = 0 /\ buffer' = blocks[blk + 1]
          /\ UNCHANGED stage
       \/ /\ blk = NBlocks /\ stage' = "ended" /\ UNCHANGED <<blk, off, buffer>>
    /\ UNCHANGED <<blocks, start, resume, takes, seen, again, steady, edits>>

\* ext2fs_link puts a name where there is room; ext2fs_unlink frees the record.
\* Neither moves an entry.
Enter(b, s, e) ==
    /\ edits < MaxEdits /\ edits' = edits + 1
    /\ blocks[b][s] = Vacant /\ e \notin Present
    /\ blocks' = [blocks EXCEPT ![b][s] = e]
    /\ UNCHANGED <<reading, steady>>

Erase(b, s) ==
    /\ edits < MaxEdits /\ edits' = edits + 1
    /\ blocks[b][s] \notin Dots \cup {Vacant}
    /\ blocks' = [blocks EXCEPT ![b][s] = Vacant]
    /\ steady' = steady \ {blocks[b][s]}
    /\ UNCHANGED reading

\* The directory is enumerated anew.
Restart ==
    /\ stage = "ended"
    /\ stage' = "between" /\ resume' = 0 /\ seen' = {} /\ again' = {}
    /\ steady' = Present
    /\ UNCHANGED <<blocks, start, blk, off, buffer, takes, edits>>

ExtDirInit ==
    /\ blocks \in [BlockNos -> [Offsets -> FileNames \cup {Vacant}]]
    /\ \A b, c \in BlockNos : \A s, t \in Offsets :
          (blocks[b][s] = blocks[c][t] /\ blocks[b][s] # Vacant) => b = c /\ s = t
    /\ stage = "between" /\ start = 0 /\ resume = 0
    /\ blk = 1 /\ off = 0 /\ buffer = [s \in Offsets |-> Vacant]
    /\ takes = 0 /\ seen = {} /\ again = {}
    /\ steady = Present /\ edits = 0

ReadStep == PassOver \/ Pack \/ Abort \/ EndOfBlock

Edit ==
    \/ \E b \in BlockNos, s \in Offsets, e \in FileNames \ Dots : Enter(b, s, e)
    \/ \E b \in BlockNos, s \in Offsets : Erase(b, s)

ExtDirNext ==
    \/ \E r \in 1 .. MaxTake : OpenPage(r)
    \/ ReadStep
    \/ Edit
    \/ Restart

\* A page runs to its end in one call, and the client asks for the next.
ExtDirFairness == WF_extDirVars(ReadStep) /\ WF_extDirVars(\E r \in 1 .. MaxTake : OpenPage(r))

ExtDirSpec == ExtDirInit /\ [][ExtDirNext]_extDirVars /\ ExtDirFairness

(***************************************************************************)
(* Properties.                                                              *)
(***************************************************************************)
\* No entry that stays is listed twice in one enumeration, wherever the packer
\* cuts the pages and whatever else is created or removed meanwhile.
SteadyListedOnce == again \cap steady = {}

\* Every entry that stays has been listed at the end, although the cookie the
\* next page starts at may by then lie within a record or on one that is gone.
SteadyListed == stage = "ended" => steady \subseteq seen

\* The enumeration comes to its end: the cookies of its pages grow.
PagesEnd == (stage = "between") ~> (stage = "ended")

==============================================================================
