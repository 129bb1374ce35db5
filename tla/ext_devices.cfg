\* Two ext disks in one process, and no change of settings.
SPECIFICATION AllSpec
CONSTANTS
    b1 = b1
    b2 = b2
    v1 = v1
    v2 = v2
    absent = absent
    n1 = n1
    e1 = e1
    e2 = e2
    Parts = {"load"}
    Blocks <- TwoBlocks
    Small <- EachBlock
    Large <- BothBlocks
    Values <- TwoValues
    Absent = absent
    Coherent = TRUE
    CacheFaults = TRUE
    FlushFaults = TRUE
    PlainFaults = TRUE
    BlockSize = 4
    BlockCount = 3
    MinQuantum = 2
    MaxQuantum = 4
    Errors <- NegErrors
    MaxCount = 9
    MaxRequests = 2
    Disks <- ExtDisks
    Ext <- ExtDisks
    Keyed <- NoDisks
    None = absent
    Alone = FALSE
    SerialFaults = FALSE
    MaxEvents = 0
INVARIANTS
    OwnDisk
