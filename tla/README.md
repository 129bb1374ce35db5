# Formal models of the USBRW file system extension

USBRW is a macOS FSKit extension that mounts NTFS volumes (through libntfs-3g)
and ext2/3/4 volumes (through libext2fs) read-write.  This directory holds TLA+
models of its own code, the Swift volume objects and the C bridges, the TLC
runs that check them, and proofs checked by TLAPS.  The two libraries and FSKit
are external: the models state what the bridge relies on.

Paths below are relative to `src/src/ntfs3g/` of the repository.

    tlc -config names.cfg MCNames                  # one run
    tlapm NtfsNamespaceProofs.tla                  # one proof module

`PROJECT.json` lists components, runs, mutants, the line map, hazards, findings
and theorems.

## The system

| component | state it keeps | operations | talks to |
|---|---|---|---|
| FSKit (external) | vnodes, its buffer cache | dispatches volume operations from several threads | `NTFSVolume`, `EXTVolume` |
| `NTFSVolume.swift` | item cache (MFT record -> item) with an `NSLock`, `statfsCache` | one async method per FSKit operation | NTFS bridge |
| NTFS bridge, `bridge/ntfs_fskit.c` | recursive mutex `g_nfsk_mu`, `rename_seq`, `g_last_error` | `nfsk_*`: lock, `nfsk_*_impl`, unlock | libntfs-3g |
| NTFS device layer, `bridge/ntfs_device_fskit.c` | `nfsk_volume`, device position | `nfsk_open_ex`, `nfsk_close`; `fskit_pread`, `fskit_pwrite`, `fskit_sync` called by libntfs | callbacks of `nfsk_blockio` |
| `NTFSBlockDevice.swift`, `FSKCompat.m` | `cacheDirty` | `blockIO`, `sync`, mounting | `FSBlockDeviceResource` |
| `EXTVolume.swift` | nothing beside the raw volume | one method per FSKit operation | ext bridge |
| ext bridge, `bridge/ext_fskit.c` | `g_io_channel_src`, `g_byte_buf`, `g_last_error`; no lock | `extfsk_*`, the I/O manager of libext2fs | libext2fs, `nfsk_blockio` |
| `EXTFileSystem.swift`, `BlockIOHolder` | one shared block resource | probe, load, block I/O | `FSBlockDeviceResource` |
| `NTFSFileSystem.swift` | - | probe, load, volume identity | `NTFSBlockDevice` |
| `../SharedSettings.swift` | app group defaults and mirrors | read-only policy, options, rescue flag | `NTFSBlockDevice`, `EXTFileSystem` |

What is hard in it:

* *Several calls to one promise.*  An NTFS rename over a file is five library
  calls with rollbacks; an ext create is link, write, mark; a directory rename
  on ext is four writes.  Any call can fail, and the process can die.
* *Threads.*  FSKit calls from several; the NTFS bridge has one big recursive
  lock, the ext bridge none.
* *Two ways to one block.*  `blockIO` sends small requests through the kernel's
  buffer cache and large ones past it.
* *Bytes over blocks.*  libntfs asks for bytes, the device takes whole blocks.
* *Pages.*  A directory is enumerated in pages that the packer cuts anywhere,
  and changes between them.
* *Disks and settings.*  Volumes of several disks live in one process; the ext
  engine has one global channel source and one device holder.  The user changes
  settings while loads run, and a removed Windows session cannot be brought back.
* *Objects.*  The kernel knows a file by its item object; lookups of one record
  on several threads must give one object, after the bridge lock is back.

What makes each part correct: a rename keeps what it moves and replaces, and
undoes itself on failure; the lock serialises and is given back; a record has one
item; a read returns what was written last and a sync lasts; partial blocks keep
their neighbours; a failed write, setattr or setxattr has changed what its answer
says and nothing else; every entry is listed once; a disk is written only if the
user lets it, by its own volume and when it is sound; on ext the entries, the inode
bitmap, the link counts and `..` agree; a file has the contents POSIX says.

## Modules

| module | models | state and actions against the code |
|---|---|---|
| `NtfsNamespace` | `nfsk_create`, `nfsk_symlink`, `nfsk_link`, `nfsk_unlink`, `nfsk_rename` | `index` is the directory indexes; `pc` the next of the calls of `nfsk_rename_impl`, one action each (`LinkNew` ... `DropTmp`), with the code's continuation after success and failure; `seq` is `rename_seq`; `Crash` ends the process |
| `AtomicNamespace` | abstract: names are bound, unbound or moved in one step | `NtfsNamespace` implements it (`AtomicSpec`) under the mapping `visible`: inside a rename clients, shut out by the lock, still see the state before it |
| `BridgeLock` | `nfsk_lock`/`nfsk_unlock` round every public function, `itemCacheLock` | `owner`, `depth`; `pc` of each thread; four shapes of operation: simple, nested (`nfsk_truncate`, the rescue in `nfsk_open_ex`), open, lookup |
| `ItemCache` | `item(forMFT:parent:)` and what lookups, creations, links, removals and renames do to records | extends `BridgeLock`: `found` is the answer of the bridge a thread carries from one lock to the other, `cache` is `itemCache`; a record number is given to another file after its last name is gone |
| `NtfsFile` | `nfsk_read`, `nfsk_write`, `nfsk_setattr`, `nfsk_getxattr`, `nfsk_setxattr`, `nfsk_removexattr`, `nfsk_listxattr` and the Swift methods over them | `rq` is the request and how far it is; one action per libntfs call, which may fail or fall short; `inode` is the open inode, written to `disk` at its close; `Die` ends the process |
| `PosixFile` | abstract: what an answer says of the file | `NtfsFile` implements it (`PosixSpec`): an answer and the change of the file are one step, and only an unsaved record or a death may leave a torn one |
| `AlignedIO` | `fskit_pread`, `fskit_pwrite` | one action per transfer: partial block read (`ReadPart`), fetch and write back (`WritePartFetch`, `WritePartPut`), whole blocks; each may fail, a write in part |
| `BlockCache` | `blockIO`, `sync` | one action per branch; the kernel may write back, evict, lose power |
| `DurableStore` | abstract: a store with a volatile buffer | `BlockCache` implements it (`StoreSpec`) with `mem <- acked` |
| `VolumeLoad` | `NTFSBlockDevice.init`, `mountVolume`, `nfsk_open_ex`, `EXTFileSystem.loadResource`, `extfsk_open`, unmount and close, `SharedSettings` | `step[d]` is where the load of disk `d` is, one action per stage; `src` is `g_io_channel_src`, `holder` is `BlockIOHolder.shared`; `MakeDevice`, `ReadSerial` and `ReadChoice` are the reads of the settings, one after the other; settings, rescue requests, other computers and deaths interleave |
| `ReadDir` | `nfsk_readdir_impl`, `nfsk_rd_filldir`, `EnumerationContext.add` | `prev` is the entry held back; `Hold` hands it over with the position of the one that follows; `Refuse` is a full packer |
| `ExtReadDir` | `extfsk_readdir`, `rd_proc`, `enumerateDirectory` of `EXTVolume` | `blocks` is the directory, `buffer` the block libext2fs has read, `off` the offset in it; `start` is `rc.start`, `resume` the cookie of the last entry taken |
| `ExtNamespace` | `extfsk_create`, `extfsk_symlink`, `extfsk_unlink`, `extfsk_rename`, `ext_after_unlink` | `ents`, `used`, `links`, `dotdot` on the disk; `op[c]` the call of client `c`, one libext2fs call a step; `CallFails` ends a call where it stands, as the code does |
| `ExtFileData` | `extfsk_write`, `extfsk_read`, `extfsk_truncate` | `data`, `size` beside `want`, `wantSize`, the file POSIX would have; the write of the data and the write of the size are two steps |

`MC*` modules give model values; `*Proofs` modules hold theorems.  Three of the
former also put parts side by side that share no state, and look at one at a time
(constants `Parts` and `Engines`): `MCVolumeIO` the load of disks, byte I/O and
block I/O; `MCFiles` the pages of a directory and the bytes of a file, for either
engine; `MCNames` the names of either engine, over `MCNtfsNamespace` and
`MCExtNamespace`.  Modules that meet in this way have different names for the same
idea (`Next` of `NtfsNamespace`, `ExtNamesNext` of `ExtNamespace`).  In each
component module the definitions whose comment says "X that ..." or "X without
..." are the faulty variants of `X` that the mutants put in its place.

How they compose.  `ItemCache` runs on `BridgeLock` in one state space, and
`ItemsRunOnLocks` proves that its behaviours are the lock's.  The others compose by
contract: `NtfsNamespace`, `NtfsFile` and `ReadDir` take an operation or a page as
undisturbed because `BridgeLock` shows one thread inside; `AlignedIO` asks of the
device what `BlockCache` (`StoreSpec`) promises; the device of a volume is its own
because `VolumeLoad` shows it (`OwnDisk`).

## Runs

Four runs pass; eight exhibit a disagreement between the code and what the
repository says.

| run | question | bounds |
|---|---|---|
| `names` | can a name, or what it leads to, be lost or doubled? | NTFS: root, 1 directory, 2 files, 1 system file, 2 names (one too long for a suffix), 2 temporary names, 1 failing call per operation, 1 death; ext: 1 careful client, 3 inodes, 2 names, a file with any number of hard links to begin with, 1 failing call, 1 call after it |
| `volume_io` | is a disk written only as allowed, on its own medium, with the right bytes? | load: 1 NTFS disk, 2 ext disks, one of these at a time, two of the three at once, at most one write-protected, settings of earlier sessions, 2 events (a change of settings, a rescue request, a use elsewhere), any failure and death; bytes: 3 blocks of 4 bytes, requests of up to 9 bytes, 2 requests; blocks: 2, each a small request and the pair a large one, 2 values, every fault |
| `lock_serial` | is the bridge serialised and live, and has a record one item? | 3 threads, every shape of call, a thread that holds the lock calls again at most once; 1 record, 2 directories |
| `files` | is every entry listed once, and does a file hold and read what the answers say? | pages, NTFS: up to 4 of 5 names (1 hidden, 1 that does not convert), pages of 1 or 2, one change; ext: 4 offsets in one block, 3 names and `.`, pages of up to 2, one creation or removal, also inside a page.  Bytes, NTFS: 3 bytes, writes of 1 or 2, a stream with values of 1 or 2 parts and room for 1, any call failing or short, a death anywhere; ext: up to 6 bytes in blocks of 2, writes of up to 3 bytes that reach the end, cuts between blocks, 1 failing call |
| `lock_leak` | does the volume go on after a failed open? (violation) | 2 threads |
| `choice_torn` | and the choice of read-only if it changes while it is read? (violation) | 1 NTFS disk, 1 event, boot sectors can be read |
| `ext_unlocked` | do counts agree with two clients on ext? (violation) | 2 careful clients, 2 inodes, no failure |
| `ext_twins` | and if a directory is renamed over one? (violation) | 1 careful client, 2 inodes, no failure |
| `ext_lost` | and if a directory is not empty? (violation) | 1 client, 2 inodes |
| `ext_overwrite` | and the ext data if a write ends before the end? (violation) | as the bytes of `files`, no failure |
| `ext_blocks` | and the listing of an ext directory of two blocks? (violation) | 2 blocks of 2 offsets, no change |
| `ext_devices` | and the ext disks if two are there at once? (violation) | 2 ext disks, no events |

Why the bounds are enough to be interesting.  *Names:* with two names in two
directories a file replaces a file, a directory replaces an empty or a
full directory, and a rename leaves its directory; two temporary names let a
name left by a dead process be met again.  *Blocks:* three blocks give a partial
block at either end with whole ones between.  *Loads:* two events are a request
and a change that overtakes it, or a hibernation between request and load; the
second ext disk finds the holder as the first one left it; two events are also what
it takes for the exception of a disk to come and the default to go between the reads
of one load.  *Directories:* four
entries and pages of one or two put the end of a page before, at and after hidden
entries, and a vacant offset between two records makes a record longer than its
entry.  *Files:* two bytes of three make a write of several pieces, a write past
the end and a cut below it.  *ext:* three inodes are a directory, a file in it and
one beside it.

Bounds on behaviours, each in a guard and commented at its declaration: `MaxSeq`,
`MaxFaults`, `MaxFailures`, `MaxCrashes`, `MaxDepth`, `MaxRequests`, `MaxEvents`,
`MaxChanges`, `MaxEdits` and `MaxAfter`.  `MaxRoom`, `MaxTake`, `MaxEnd`, `MaxXattr`,
`MaxSize`, `MaxLen`, `MaxBytes` and `MaxCount` bound the sizes of what is asked for.

Switches that leave a behaviour of the code out of a passing run, where it is
known to break the property: `LateErrors = FALSE`, `Coherent = TRUE`,
`Alone = TRUE`, `SerialFaults = FALSE`, `InPlace = FALSE`, `Far = FALSE`,
`Ragged = FALSE`, `Prepared = FALSE`, `NBlocks = 1`, `Careful = TRUE`.  Each of them
is either the other side of a violation run or listed under Findings as an observation.
`Careful = TRUE` takes two things from the client and nothing else: it empties a
directory before it removes it, and it does not move one below itself.  The bridge
asks neither; that the kernel does is an assumption of the runs that set it.  A
directory may be renamed over another, empty or not, in every run.

Two properties say in their own words what they leave out.  `ReadOnlyKept` speaks of
the settings *all the while a load reads them*, one after the other, and passes over
the loads in the middle of whose reads the exception of the disk came or went
(`allowed` is then `"torn"`); `ReadOnlyThroughout` is the same without this proviso,
and `choice_torn` shows that the code does not keep it.  `FilesNamedAlone` speaks of
files: that a name leads to two directories is `NamesUnique` and `ext_twins`.

Symmetry: in `names` the files of NTFS and two of the inodes of ext, in `volume_io`
the values and the two ext disks are interchangeable.  No run with
a liveness property uses it.

Deadlock is checked everywhere but in the two lock runs, where a leaked lock
really stops the volume.  Where a run ends at a bound, a stuttering step says so:
`BoundReached` in `ExtNamespace`, `NoMoreRequests` in `AlignedIO`.

Each property of a passing run has a mutant: a plausible slip in one mapped
definition under which TLC finds the property violated.

## Fairness

* `BridgeLock`, and `ItemCache` on it: weak fairness of the steps of a thread
  inside the bridge, of giving the item lock back, and of "some waiting thread
  enters".  A running thread goes on, and a free mutex is taken by somebody;
  nothing is assumed about which thread, since a pthread mutex is not fair.  So
  what is shown is that the volume goes on, never that a given thread is served.
* `ReadDir` and `ExtReadDir`: weak fairness of the steps of a page (one call that
  runs to its end) and of the next page (the kernel goes on until the end is told).
  With it an enumeration ends although the directory changes.

The other modules claim safety only.

## What is proved

All with no bound on the constants beyond the assumptions named.

* `NtfsNamespaceProofs`: every property of NTFS names that `names` checks.  `TypeCorrect` always;
  `RenameKeepsData`, `FailedRenamesRestore`, `OneNameEach` and `RenamesAtomic` if at
  most one call of an operation fails and none fails after it has linked
  (`SingleFault`: `MaxFaults <= 1`, `LateErrors = FALSE`).  `DataKept` is not
  inductive: the strengthening `Inv` says, for each call of a rename, which
  entries hold which record at that point (the temporary name of the record that
  makes way until it has its own again, the old name of the moved record until the
  new one holds) and how many faults have been used up on the rollback paths.
  `RestoreInv` ties these to what the new name was at the start, `ReplaceInv` says
  that the record that makes way is empty and a user's, and `OneNameInv` that only
  the two names of a running rename (`Twins`) ever give a directory two.  A
  rollback cannot fail a second time because the record has two names
  (`RollbackCan`) and the one fault has been used.  The refinement then goes call
  by call: a call that links the new name or rolls back is unseen, the one that
  takes the old name off is the move (`MoveDone`).
* `BlockCacheProofs`, under `Coherent = TRUE`: `CacheTypes`, `CoherentReads`,
  `SyncIsDurable` and the refinement `StoreImplemented`.  The invariant says that the cached
  view equals what was acknowledged, that a clean cached block equals the medium,
  and that a dirty block has not been synced since it was written.
* `VolumeLoadProofs`, for any disks, events, failures and deaths: `SessionsKept`
  always (a session is removed only by a mount that holds a request nobody else
  has: removals and requests under way never exceed the requests made);
  `MountedSound` and `DisksApart` if the ext engine has one disk at a time (`Alone`;
  from the first access of a load to its end the holder is then that disk's);
  `ChoicesKept` if moreover boot sectors can be read (`~SerialFaults`) and only
  NTFS disks have a choice of their own (`Keyed \cap Ext = {}`).  The proof of the
  last goes read by read: at each of them either the value read is one the settings
  had while the load was under way, or the exception has changed since the read
  before, which `allowed` has noted.
* `ItemCacheProofs`, for any number of threads, records, directories and any depth.
  Of the lock: `LockTypes`, `Serialised`, `Returned`; the invariant counts: the depth
  of the lock is the places the owner's program counter accounts for and the locks
  it left behind.  Of the cache: `OneItemCorrect`; `DirectoryCorrect` (what a thread
  carries from one lock to the other is a record and a directory that were in
  agreement, and stay so until the record is moved); `ItemsRunOnLocks`, that lookups
  through the cache are steps of the lock's specification, and from it
  `SerialisedWithItems`.
* `ReadDirProofs`.  NTFS: `PageTypes`, `ListedOnce`, `AllListed`, for directories of any
  length, any hidden names and any pages.  The invariant: what was taken is
  exactly the visible entries before the cookie, and inside a page the position
  is ahead of that by the entry held back.  ext, for directories of one block
  (`NBlocks = 1`) of any length and any creations and removals: `ListedOnceCorrect`,
  `ListedCorrect`.  The invariant separates the entries below the cookie, which were
  all listed, from those at or above it, of which the steady ones were not, and says
  where the steady entries stand in the block that is being read.
* `ExtNamespaceProofs`, for any inodes and names.  `RenamedKeptCorrect` if calls do not
  overlap (`OneClient`), whatever fails; if moreover the client is careful
  (`Careful`, and there is a client), `NoDanglingCorrect`, `LinksAgreeCorrect`,
  `TreeAgreesCorrect`, `NothingLostCorrect`, `FilesNamedAloneCorrect`, with directories
  renamed over directories among the calls.
  The invariant `NamesInv` keeps a picture of the volume as it would be if the call
  under way were not (`Fine`: every entry leads to an inode in use, counts are numbers
  of entries and subdirectories, every directory has one entry, where its `..`
  leads, a file shares its name with nothing), and says for each place of each call by which entry, bit or count the disk
  is ahead of or behind that picture.  The rest is counting: what one entry more or
  less does to the cardinalities.  Without `OneClient` and `Careful` the properties
  are false, as `ext_unlocked` and `ext_lost` show, and for directories so is the
  last, as `ext_twins` shows.
* `AlignedIOProofs`, for devices, blocks and requests of any size, any transfer
  failing or, if it writes, falling short: `NeighboursKeptCorrect`,
  `WrittenInOrderCorrect` and `ReadIsExactCorrect` with no assumption,
  `TransfersAlignedCorrect` if the block is a power of two the code knows as a quantum
  (`Supported`).  The invariant: what is done ends where the next transfer begins;
  before the first whole block that is at the edge of a block, and the buffer
  between fetch and write back is the block on the device with the bytes of the
  request over it.
* `FileDataProofs`, for files, blocks, buffers, streams and values of any size.
  ext: `ContentsExactCorrect` and `SurroundingsKeptCorrect` if every write ends at the
  end of the file or beyond it, every cut is at the edge of a block and every offset
  fits `ext2_off_t` (`Tame`).  The invariant adds that nothing is left behind the end
  of the file, without which a later growth would show it.  NTFS:
  `ReadsExactCorrect` and the refinement `PosixSpecCorrect`, with every call failing
  or falling short and a death anywhere, unless another system left a compressed
  file half initialised (`Prepared`).  The invariant `FileInv` says at each place of a
  request how far the open inode is from the disk, in the terms of the promise (a
  write after n bytes is `Written` of n, a stream after n parts is a beginning of the
  value, attributes after the size are `WithAttrs` of the size alone), that an inode
  that may yet be lost is a `Torn` one, and that one about to be closed is `Kept`.
  Two facts it needs are easily overlooked: nothing is left behind the end of a file,
  and a compressed file is initialised up to its end, or its growth by one byte
  would be no growth.

So every safety property of a passing run, and both refinements of files and of
blocks as well as that of names, holds beyond the bounds of the runs.

Model-checked only: liveness (`LockIsReleased`, `GoesOnUntilLeft`, `EnumerationsEnd`),
which is out of the prover's reach, and what the violation runs show.

The models are written for the provers where it costs nothing: entries of an ext
volume are indexed by one tuple, and the first offset that `ext2_off_t` cannot hold is
a constant (`OffLimit`) and not a power, of which the provers know nothing.

## Findings

1. `lock_leak`: two early returns of `nfsk_open_ex`
   (`bridge/ntfs_device_fskit.c:274`, `:278`) keep the bridge lock.
2. `ext_unlocked`: the ext bridge has no lock.  A creation picks a free inode
   (`bridge/ext_fskit.c:524`), links and writes it, and marks it at line 550; in
   between another client's symlink or directory is given the same inode, which
   then has two names and the count of one.
3. `ext_lost`: removing a directory does not ask whether it is empty
   (`bridge/ext_fskit.c:578`).
4. `ext_overwrite`: every write makes its own end the end of the file
   (`bridge/ext_fskit.c:493`).
5. `ext_blocks`: the cookie of an ext entry is taken for a position in the
   directory (`bridge/ext_fskit.c:390`, `:409`), but libext2fs counts offsets from
   the start of each block (`:410`): entries of later blocks are lost.
6. `ext_devices`: the one device holder of the ext engine is given to the next disk
   (`EXTFileSystem.swift:155`); the volume that was there first then writes to it.
7. `ext_twins`: a directory renamed over a directory is linked under the new name
   without a look (`bridge/ext_fskit.c:669`, `:679`; `renameItem` ignores `overItem`),
   while the comment at line 709 promises to delete the target first.  Both entries
   stay, and one name leads to two inodes.
8. `choice_torn`: `roOverride` asks whether a disk has an exception and then reads its
   value (`../SharedSettings.swift:53`, `:54`).  An exception "read-only" that the app
   takes away in between reads as false, "read-write", although the default is
   read-only as well.  Likewise a default that is changed after `roOverride` has missed
   an exception made in between.

Seen while modelling and not given a run, because no text of the repository says
otherwise, because the outcome hangs on a library, or for want of a clear promise:

* *Block cache.*  The comment that correctness does not depend on the routing by
  size (`NTFSBlockDevice.swift:181`) and the one that plain I/O goes straight to the
  device (`bridge/FSKCompat.m:16`) cannot both be right: with `Coherent = FALSE`
  `ReadYourWrites` fails.
* *Mounting.*  The rescue request is cleared before the mount it is for, while
  `SharedSettings.swift` (lines 112-113) speaks of clearing it afterwards; the
  Swift side does not look at the text that says a session could not be removed;
  a boot sector that cannot be read passes over the choice for the disk
  (`SerialFaults`); the ext engine does not look at the choice for the disk at all;
  the channel keeps a pointer to a struct on the stack of a load that has returned;
  an ext volume is closed when its object goes, some time after the unmount.
* *Errors that are dropped.*  `io_flush`, `fsync` and `BlockIOHolder.sync` of the
  ext engine; short transfers of `BlockIOHolder`; the failure of `ntfs_inode_close`
  after a read or write of some bytes; an error of that close after a link, which makes
  `nfsk_do_link` report failure although the name is there (`LateErrors`).
* *NTFS.*  A rename over a system file leaves a temporary name on it; a compressed
  file whose data is initialised up to a place before its end is not cut
  (`Prepared`, `bridge/ntfs_fskit.c:331`); the policy of setxattr (create, replace)
  is ignored; `xattr` has a buffer of 64 KiB for values of up to 1 MiB; an item keeps the directory it
  was made with (`ItemsDirectory` speaks of records that were never moved).
* *ext.*  A removal and a rename of one file at once: the rename links the new name,
  the removal frees the inode, and the rename cannot take off the old name that is
  gone; an entry then leads to a free inode (`NoDangling` fails with two clients too).
  A failed rename leaves two names and a count of one; a cut within a block
  keeps the bytes behind it (`Ragged`); offsets from 2 GB on do not fit a 32-bit
  `ext2_off_t` (`Far`); directory renames are carried out although the head of
  `EXTVolume.swift` says they are refused; the volume UUID is read 1024 bytes
  before the superblock; `g_byte_buf` is shared by all volumes without a lock.

## Assumptions about what is outside

* libntfs-3g: `ntfs_link` refuses a name that is taken, `ntfs_delete` frees a
  record with its last name and refuses a directory with entries, a call either
  happens or does not.  `ntfs_readdir`'s positions are stable while the directory
  does not change, and it can resume at any of them (the repository's patch).
  `ntfs_attr_pwrite` may write a beginning of what it was given; the streams of
  extended attributes are resident, so that they reach the disk with the record.
  `ntfs_device_mount` refuses a hibernated volume for writing unless told to go on,
  and an unclean one if told not to recover; it takes any volume read-only.
* libext2fs: `ext2fs_link` does not look for duplicates, `ext2fs_unlink` matches
  name and inode, `ext2fs_new_inode` does not mark; `ext2fs_mkdir` and
  `ext2fs_symlink` refuse a name that is taken; `ext2fs_file_write` extends the
  size itself; `ext2fs_dir_iterate2` hands over offsets that begin at 0 in every
  block, and reads a block before it calls back for its entries.
* FSKit: the kernel has looked names up before a create, remove or rename (so a
  create is asked for free names), settles a rename between two names of one
  inode itself, and lets a file replace files and a directory directories only.  A
  *careful* client also empties directories before it removes them and moves none
  below itself.  FSKit loads a disk once at a time.
* The device takes whole blocks within its bounds and may fail any transfer.

## Not modelled, and why

Contents of symlinks, modes and the statistics of a volume (data, no control);
which ext bitmaps and counts are in memory until `ext2fs_flush`, and what a loss
of power does to them (the sources of libext2fs are not in the repository; planned
below); the byte buffer `g_byte_buf` (the same); probing and UUIDs (pure functions
of a sector); the steps inside the journal replay, libntfs-3g and e2fsprogs (external); the
extension's entry point (no state); the read of `g_last_error` without the lock
(text for the log); devices that report no size (`block_count` 0) in `AlignedIO`;
I/O errors in the middle of a page in `ReadDir` and `ExtReadDir`; the atomicity of
the read and the write back of one inode in `Counts` and `Touch` of `ExtNamespace`,
which are one step each; the mirrors of the settings in two stores, which are one
value in `VolumeLoad`.

## Plan

Done: the namespace, the lock, the item cache, block I/O, byte I/O, loading and
mounting, file data and extended attributes, enumeration for both engines, the ext
namespace and ext file data; proofs of every safety property the runs check, with
the refinements of `AtomicNamespace`, `DurableStore` and `PosixFile`.

Next, by importance:

1. An abstract specification of ext names, as `AtomicNamespace` is for NTFS, and that
   `ExtNamespace` implements it for one careful client as long as no call fails: the
   invariant `NamesInv` already names the volume a client sees.
2. `ExtDurability`: bitmaps and counts in memory until `ext2fs_flush`, loss of
   power, `extfsk_fsync` and reopening; an abstract durable namespace.
3. `ExtIoChannel`: `g_byte_buf` with two volumes and two threads.
