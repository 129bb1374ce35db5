----------------------------- MODULE VolumeLoad -----------------------------
(***************************************************************************)
(* From a disk to a mounted volume: what the user has allowed                *)
(* (SharedSettings.swift), the device object of every load                   *)
(* (NTFSBlockDevice), the NTFS mount with the rescue of a hibernated volume  *)
(* (mountVolume, nfsk_open_ex), and the ext mount with its one global        *)
(* channel source, its one device holder, the replay of the journal and the  *)
(* check of the bitmaps (EXTFileSystem.swift, extfsk_open).                  *)
(*                                                                         *)
(* FSKit loads any number of disks, one load of a disk at a time; the steps  *)
(* of different loads interleave, the user changes settings in between, and  *)
(* the process may die.  What a channel keeps of the struct it was opened    *)
(* with lies on the stack of a load that has returned: a transfer after that *)
(* goes on as before, or the process dies (Die).                             *)
(***************************************************************************)
EXTENDS Integers

CONSTANTS
    Disks,
    Ext,            \* the disks that hold ext; the others hold NTFS
    Keyed,          \* the disks whose serial number the app keeps a choice for
    None,
    Alone,          \* TRUE: the ext engine has one disk at a time
    SerialFaults,   \* TRUE: bootSerial may fail to read the boot sector
    MaxEvents       \* bound: changes of settings, requests, uses elsewhere

ASSUME LoadAssumption ==
    /\ Ext \subseteq Disks /\ Keyed \subseteq Disks
    /\ None \notin Disks \cup BOOLEAN
    /\ {Alone, SerialFaults} \subseteq BOOLEAN
    /\ MaxEvents \in Nat

VARIABLES
    writable,   \* isWritable of the disk
    forceRO,    \* SharedSettings.forceReadOnly
    override,   \* SharedSettings.roOverride, by disk
    noRecover,  \* the mount option opt.noRecover
    rescue,     \* the disks with a rescue request
    hiber,      \* the disk holds a hibernated Windows session
    unclean,    \* the journal of the disk must be replayed
    badmap,     \* the bitmaps of the disk do not match their checksums
    step,       \* where the load of a disk is, or what it is mounted as
    ro,         \* io.readonly
    opts,       \* the options of the mount
    err,        \* the mount succeeded and left a text in err
    src,        \* g_io_channel_src
    holder,     \* BlockIOHolder.shared.block
    allowed,    \* for the properties: the user let the disk be written (Consents)
    asked,      \* for the properties: rescue requests made
    removed,    \* for the properties: sessions removed
    write,      \* for the properties: the write of the last step
    events      \* changes of settings, requests, uses elsewhere so far

settings == <<forceRO, override, noRecover>>
medium   == <<hiber, unclean, badmap>>
mounts   == <<step, ro, opts, err, allowed>>
globals  == <<src, holder>>
counts   == <<asked, removed>>

loadVars == <<writable, settings, rescue, medium, mounts, globals, counts,
              write, events>>

Steps == {"idle", "serial", "choice", "default", "boot",
          "options", "request", "mount", "purge", "ntfs", "ntfsLeft",
          "load", "bind", "open", "rebind", "replay", "bitmaps", "stamp",
          "ext", "extLeft"}

InExt == {"load", "bind", "open", "rebind", "replay", "bitmaps", "stamp",
          "ext", "extLeft"}

\* The settings let the disk be written.
Choice(d) == writable[d] /\ ~(IF override[d] # None THEN override[d] ELSE forceRO)

\* What a load may have read: at no moment the settings let the disk be written;
\* they did not, but the exception of the disk came or went between two of the
\* reads; at some moment they did.
Consents == {"no", "torn", "yes"}
Consent(d) == IF Choice(d) THEN "yes" ELSE "no"

\* The load of the disk is before its last read of the settings.
Reads(d) == step[d] \in {"serial", "choice", "default"}
            \/ (d \in Ext /\ step[d] \in {"boot", "load"})

NoWrite == [by |-> None, on |-> None, allowed |-> "yes"]

\* The volume of disk d writes to disk h.
Writes(d, h) == write' = [by |-> d, on |-> h, allowed |-> allowed[h]]
Quiet        == write' = NoWrite

Go(d, s) == step' = [step EXCEPT ![d] = s]

\* The load of the disk has failed, or its volume is gone.
Forget(d) ==
    /\ Go(d, "idle")
    /\ ro' = [ro EXCEPT ![d] = TRUE]
    /\ opts' = [opts EXCEPT ![d] = {}]
    /\ err' = [err EXCEPT ![d] = FALSE]
    /\ allowed' = [allowed EXCEPT ![d] = "no"]

(***************************************************************************)
(* loadResource of NTFSFileSystem: the device object reads the settings one   *)
(* after the other, the boot sector in between, and tells the engine.         *)
(***************************************************************************)
\* forceReadOnly is never taken away, so that to ask whether it is there and then
\* for its value is one read.
MakeDevice(d) ==
    /\ step[d] = "idle"
    /\ Go(d, "serial")
    /\ ro' = [ro EXCEPT ![d] = ~writable[d] \/ forceRO]
    /\ allowed' = [allowed EXCEPT ![d] = Consent(d)]
    /\ Quiet
    /\ UNCHANGED <<writable, settings, rescue, medium, opts, err, globals, counts, events>>

\* Without the serial number the default stands; with it roOverride asks whether
\* the disk has an exception.
ReadSerial(d) ==
    /\ step[d] = "serial"
    /\ \/ SerialFaults /\ Go(d, "boot")
       \/ Go(d, IF override[d] # None THEN "choice" ELSE "default")
    /\ Quiet
    /\ UNCHANGED <<writable, settings, rescue, medium, ro, opts, err, allowed,
                   globals, counts, events>>

\* The value of the exception that was there, or the forceReadOnly that stands in
\* for one that was not; an exception that has gone since reads as false.
ReadChoice(d) ==
    /\ \/ /\ step[d] = "choice"
          /\ ro' = [ro EXCEPT ![d] = ~writable[d] \/ override[d] = TRUE]
       \/ /\ step[d] = "default"
          /\ ro' = [ro EXCEPT ![d] = ~writable[d] \/ forceRO]
    /\ Go(d, "boot")
    /\ Quiet
    /\ UNCHANGED <<writable, settings, rescue, medium, opts, err, allowed,
                   globals, counts, events>>

\* A boot sector that cannot be read is not NTFS.
ReadBoot(d) ==
    /\ step[d] = "boot"
    /\ \/ d \notin Ext /\ Go(d, "options")
       \/ /\ Alone => \A e \in Disks \ {d} : step[e] \notin InExt
          /\ Go(d, "load")
    /\ Quiet
    /\ UNCHANGED <<writable, settings, rescue, medium, ro, opts, err, allowed,
                   globals, counts, events>>

(***************************************************************************)
(* mountVolume and nfsk_open_ex.                                            *)
(***************************************************************************)
Mask == IF noRecover THEN {"noRecover"} ELSE {}

TakeOptions(d) ==
    /\ step[d] = "options"
    /\ opts' = [opts EXCEPT ![d] = Mask]
    /\ Go(d, "request")
    /\ Quiet
    /\ UNCHANGED <<writable, settings, rescue, medium, ro, err, allowed, globals,
                   counts, events>>

\* Consume that leaves the request in place.
ConsumeKeeps(d) ==
    /\ ~ro[d] /\ d \in rescue
    /\ opts' = [opts EXCEPT ![d] = @ \cup {"removeHiberfile"}]
    /\ UNCHANGED rescue

Consume(d) ==
    /\ ~ro[d] /\ d \in rescue
    /\ rescue' = rescue \ {d}
    /\ opts' = [opts EXCEPT ![d] = @ \cup {"removeHiberfile"}]

TakeRequest(d) ==
    /\ step[d] = "request"
    /\ \/ Consume(d)
       \/ (ro[d] \/ d \notin rescue \/ SerialFaults) /\ UNCHANGED <<rescue, opts>>
    /\ Go(d, "mount")
    /\ Quiet
    /\ UNCHANGED <<writable, settings, medium, ro, err, allowed, globals, counts, events>>

\* ntfs_device_mount: read-only takes any volume.
MountOk(d) ==
    /\ ro[d] \/ ~unclean[d] \/ "noRecover" \notin opts[d]
    /\ ro[d] \/ ~hiber[d] \/ "removeHiberfile" \in opts[d]
    /\ IF ro[d] THEN Quiet /\ UNCHANGED medium
       ELSE /\ unclean' = [unclean EXCEPT ![d] = FALSE]
            /\ Writes(d, d) /\ UNCHANGED <<hiber, badmap>>
    /\ Go(d, IF ~ro[d] /\ "removeHiberfile" \in opts[d] THEN "purge" ELSE "ntfs")
    /\ UNCHANGED <<ro, opts, err, allowed>>

Mount(d) ==
    /\ step[d] = "mount"
    /\ \/ MountOk(d)
       \/ Forget(d) /\ Quiet /\ UNCHANGED medium
    /\ UNCHANGED <<writable, settings, rescue, globals, counts, events>>

\* hiberfil.sys goes; if it does not, the volume stays mounted all the same.
Purge(d) ==
    /\ step[d] = "purge"
    /\ Go(d, "ntfs")
    /\ \/ /\ hiber[d]
          /\ hiber' = [hiber EXCEPT ![d] = FALSE]
          /\ removed' = [removed EXCEPT ![d] = @ + 1]
          /\ Writes(d, d) /\ UNCHANGED err
       \/ hiber[d] /\ err' = [err EXCEPT ![d] = TRUE] /\ Quiet /\ UNCHANGED <<hiber, removed>>
       \/ ~hiber[d] /\ Quiet /\ UNCHANGED <<hiber, err, removed>>
    /\ UNCHANGED <<writable, settings, rescue, unclean, badmap, ro, opts, allowed,
                   globals, asked, events>>

(***************************************************************************)
(* loadResource of EXTFileSystem and extfsk_open.  Every transfer of an ext  *)
(* volume goes to the disk the holder has.                                  *)
(***************************************************************************)
\* SetUp of a holder that keeps the first disk it was given.
SetUpOnce(d) == holder' = IF holder = None THEN d ELSE holder

SetUp(d) == holder' = d

\* Policy that looks at the device only.
PolicyOfDevice(d) == ~writable[d]

Policy(d) == ~(writable[d] /\ ~forceRO)

LoadExt(d) ==
    /\ step[d] = "load"
    /\ Go(d, "bind")
    /\ SetUp(d)
    /\ ro' = [ro EXCEPT ![d] = Policy(d)]
    /\ Quiet
    /\ UNCHANGED <<writable, settings, rescue, medium, opts, err, allowed, src,
                   counts, events>>

\* The channel source is set for ext2fs_open, and again for the replay.
Bind(d) ==
    /\ \/ step[d] = "bind" /\ Go(d, "open")
       \/ step[d] = "rebind" /\ Go(d, "replay")
    /\ src' = d
    /\ Quiet
    /\ UNCHANGED <<writable, settings, rescue, medium, ro, opts, err, allowed,
                   holder, counts, events>>

\* AfterOpen of an open that does not look for a journal.
AfterOpenUnreplayed(d) == IF ro[d] THEN "ext" ELSE "bitmaps"

AfterOpen(d) == IF ro[d] THEN "ext"
                ELSE IF unclean[holder] THEN "rebind" ELSE "bitmaps"

\* ext_io_open needs the source, the library an ext superblock.
OpenExt(d) ==
    /\ step[d] = "open"
    /\ \/ /\ src # None /\ holder \in Ext
          /\ Go(d, AfterOpen(d))
          /\ UNCHANGED <<ro, opts, err, allowed>>
       \/ Forget(d)
    /\ src' = None
    /\ Quiet
    /\ UNCHANGED <<writable, settings, rescue, medium, holder, counts, events>>

\* ext2fs_run_ext3_journal, which opens the file system again.
Replay(d) ==
    /\ step[d] = "replay"
    /\ \/ /\ src # None /\ holder # None
          /\ unclean' = [unclean EXCEPT ![holder] = FALSE]
          /\ Go(d, "bitmaps")
          /\ Writes(d, holder)
          /\ UNCHANGED <<ro, opts, err, allowed>>
       \/ /\ Forget(d)
          /\ UNCHANGED unclean
          /\ Quiet \/ (holder # None /\ Writes(d, holder))
    /\ src' = None
    /\ UNCHANGED <<writable, settings, rescue, hiber, badmap, holder, counts, events>>

ReadBitmaps(d) ==
    /\ step[d] = "bitmaps"
    /\ \/ /\ holder # None /\ ~badmap[holder]
          /\ Go(d, "stamp") /\ UNCHANGED <<ro, opts, err, allowed>>
       \/ Forget(d)
    /\ Quiet
    /\ UNCHANGED <<writable, settings, rescue, medium, globals, counts, events>>

\* The mount count; nobody looks whether the flush succeeded.
Stamp(d) ==
    /\ step[d] = "stamp"
    /\ Go(d, "ext")
    /\ Quiet \/ (holder # None /\ Writes(d, holder))
    /\ UNCHANGED <<writable, settings, rescue, medium, ro, opts, err, allowed,
                   globals, counts, events>>

(***************************************************************************)
(* The mounted volume.  Its handle is closed when the volume object goes,    *)
(* some time after the unmount; both write what is pending.                  *)
(***************************************************************************)
Target(d) == IF step[d] \in InExt THEN holder ELSE d

\* A volume opened read-only writes nothing.
MayWrite(d) == Quiet \/ (~ro[d] /\ Target(d) # None /\ Writes(d, Target(d)))

Use(d) ==
    /\ step[d] \in {"ntfs", "ext"}
    /\ ~ro[d] /\ Target(d) # None /\ Writes(d, Target(d))
    /\ UNCHANGED <<writable, settings, rescue, medium, mounts, globals, counts, events>>

Unmount(d) ==
    /\ \/ step[d] = "ntfs" /\ Go(d, "ntfsLeft")
       \/ step[d] = "ext" /\ Go(d, "extLeft")
    /\ MayWrite(d)
    /\ UNCHANGED <<writable, settings, rescue, medium, ro, opts, err, allowed,
                   globals, counts, events>>

Close(d) ==
    /\ step[d] \in {"ntfsLeft", "extLeft"}
    /\ Forget(d)
    /\ MayWrite(d)
    /\ UNCHANGED <<writable, settings, rescue, medium, globals, counts, events>>

(***************************************************************************)
(* The user, other computers, and the end of the process.                   *)
(***************************************************************************)
Event == events < MaxEvents /\ events' = events + 1

\* The exception of a disk came after roOverride had missed it, or went after it
\* had been seen.
Torn(d) ==
    /\ d \notin Ext
    /\ \/ step[d] = "choice" /\ override'[d] = None
       \/ step[d] = "default" /\ override'[d] # None

Chosen ==
    allowed' = [d \in Disks |-> IF Reads(d) /\ Choice(d)' THEN "yes"
                               ELSE IF allowed[d] = "no" /\ Torn(d) THEN "torn"
                               ELSE allowed[d]]

SetSettings ==
    /\ Event
    /\ \/ /\ \E b \in BOOLEAN : forceRO' = b
          /\ UNCHANGED <<override, noRecover>>
       \/ /\ \E d \in Keyed, c \in BOOLEAN \cup {None} : override' = [override EXCEPT ![d] = c]
          /\ UNCHANGED <<forceRO, noRecover>>
       \/ /\ \E b \in BOOLEAN : noRecover' = b
          /\ UNCHANGED <<forceRO, override>>
    /\ UNCHANGED writable
    /\ Chosen
    /\ Quiet
    /\ UNCHANGED <<rescue, medium, step, ro, opts, err, globals, counts>>

RequestRescue(d) ==
    /\ Event
    /\ d \in Keyed
    /\ rescue' = rescue \cup {d}
    /\ asked' = [asked EXCEPT ![d] = @ + 1]
    /\ Quiet
    /\ UNCHANGED <<writable, settings, medium, mounts, globals, removed>>

Elsewhere(d) ==
    /\ Event
    /\ step[d] = "idle"
    /\ \E h, u, b \in BOOLEAN :
         /\ hiber' = [hiber EXCEPT ![d] = h /\ d \notin Ext]
         /\ unclean' = [unclean EXCEPT ![d] = u]
         /\ badmap' = [badmap EXCEPT ![d] = b /\ d \in Ext]
    /\ Quiet
    /\ UNCHANGED <<writable, settings, rescue, mounts, globals, counts>>

Die ==
    /\ step' = [d \in Disks |-> "idle"]
    /\ ro' = [d \in Disks |-> TRUE]
    /\ opts' = [d \in Disks |-> {}]
    /\ err' = [d \in Disks |-> FALSE]
    /\ allowed' = [d \in Disks |-> "no"]
    /\ src' = None /\ holder' = None
    /\ Quiet
    /\ UNCHANGED <<writable, settings, rescue, medium, counts, events>>

LoadInit ==
    /\ writable \in [Disks -> BOOLEAN]
    /\ forceRO \in BOOLEAN
    /\ override \in [Disks -> BOOLEAN \cup {None}]
    /\ \A d \in Disks \ Keyed : override[d] = None
    /\ noRecover = FALSE
    /\ rescue = {}
    /\ hiber \in [Disks -> BOOLEAN] /\ \A d \in Ext : ~hiber[d]
    /\ unclean = [d \in Disks |-> FALSE]
    /\ badmap = [d \in Disks |-> FALSE]
    /\ step = [d \in Disks |-> "idle"]
    /\ ro = [d \in Disks |-> TRUE]
    /\ opts = [d \in Disks |-> {}]
    /\ err = [d \in Disks |-> FALSE]
    /\ allowed = [d \in Disks |-> "no"]
    /\ src = None /\ holder = None
    /\ asked = [d \in Disks |-> 0] /\ removed = [d \in Disks |-> 0]
    /\ write = NoWrite
    /\ events = 0

LoadNext ==
    \/ \E d \in Disks :
         \/ MakeDevice(d) \/ ReadSerial(d) \/ ReadChoice(d) \/ ReadBoot(d)
         \/ TakeOptions(d) \/ TakeRequest(d) \/ Mount(d) \/ Purge(d)
         \/ LoadExt(d) \/ Bind(d) \/ OpenExt(d) \/ Replay(d) \/ ReadBitmaps(d) \/ Stamp(d)
         \/ Use(d) \/ Unmount(d) \/ Close(d)
         \/ RequestRescue(d) \/ Elsewhere(d)
    \/ SetSettings
    \/ Die

LoadSpec == LoadInit /\ [][LoadNext]_loadVars

(***************************************************************************)
(* Properties.                                                              *)
(***************************************************************************)
\* Every variable is in its range; only keyed disks have a choice of their own.
LoadTypeOK ==
    /\ writable \in [Disks -> BOOLEAN]
    /\ forceRO \in BOOLEAN /\ noRecover \in BOOLEAN
    /\ override \in [Disks -> BOOLEAN \cup {None}]
    /\ \A d \in Disks \ Keyed : override[d] = None
    /\ rescue \in SUBSET Disks
    /\ hiber \in [Disks -> BOOLEAN] /\ unclean \in [Disks -> BOOLEAN]
    /\ badmap \in [Disks -> BOOLEAN]
    /\ step \in [Disks -> Steps]
    /\ ro \in [Disks -> BOOLEAN] /\ err \in [Disks -> BOOLEAN]
    /\ allowed \in [Disks -> Consents]
    /\ opts \in [Disks -> SUBSET {"noRecover", "removeHiberfile"}]
    /\ src \in Disks \cup {None} /\ holder \in Disks \cup {None}
    /\ asked \in [Disks -> Nat] /\ removed \in [Disks -> Nat]
    /\ events \in Nat

\* No volume writes to a disk that the settings kept read-only all the while
\* its load read them, unless the user gave the disk an exception or took one
\* away between two of these reads (NTFSBlockDevice.init, roOverride, the writable
\* of EXTFileSystem.loadResource).
ReadOnlyKept == write.allowed # "no"

\* The same without the proviso: what is decided is the exception of the disk or
\* else the default, as the settings were at some moment (shouldMountReadOnly).
ReadOnlyThroughout == write.allowed = "yes"

\* What a volume writes lands on its own disk, whichever disks were loaded and
\* closed before (BlockIOHolder.shared, g_io_channel_src).
OwnDisk == write.on = write.by

\* One request of the user removes at most one Windows session of the disk,
\* whatever fails or dies on the way (consumeHiberfileRescue, nfsk_open_ex).
OneSessionPerRequest == \A d \in Disks : removed[d] <= asked[d]

\* A volume mounted for writing has its journal replayed and good bitmaps, and
\* no hibernated session unless the mount has said that it could not remove it
\* (nfsk_open_ex, extfsk_open).
SoundWhenWritten ==
    \A d \in Disks :
        step[d] \in {"ntfs", "ext"} /\ ~ro[d]
            => ~unclean[d] /\ ~badmap[d] /\ (hiber[d] => err[d])
=============================================================================
