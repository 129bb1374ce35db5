\* Plain I/O coherent with the buffer cache; every call may fail.  One ext disk
\* at a time; settings that can be read; blocks of 4 bytes, the greatest quantum.
SPECIFICATION AllSpec
CONSTANTS
    b1 = b1
    b2 = b2
    v1 = v1
    v2 = v2
    absent = absent
    n1 = n1
    e1 = e1
    e2 = e2
    Parts = {"load", "bytes", "cache"}
    Blocks <- TwoBlocks
    Small <- EachBlock
    Large <- BothBlocks
    Values <- TwoValues
    Absent = absent
    Coherent = TRUE
    CacheFaults = TRUE
    FlushFaults = TRUE
    PlainFaults = TRUE
    BlockSize = 4
    BlockCount = 3
    MinQuantum = 2
    MaxQuantum = 4
    Errors <- NegErrors
    MaxCount = 9
    MaxRequests = 2
    Disks <- AllDisks
    Ext <- ExtDisks
    Keyed <- NtfsDisks
    None = absent
    Alone = TRUE
    SerialFaults = FALSE
    MaxEvents = 2
SYMMETRY Alike
INVARIANTS
    TypeOK
    ReadYourWrites
    SyncedSurvives
    NeighboursKept
    WrittenInOrder
    ReadIsExact
    TransfersAligned
    ReadOnlyKept
    OwnDisk
    OneSessionPerRequest
    SoundWhenWritten
PROPERTIES
    StoreSpec
