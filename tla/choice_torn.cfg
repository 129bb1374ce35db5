\* The choice for an NTFS disk may be taken away while it is read.
SPECIFICATION AllSpec
CONSTANTS
    b1 = b1
    b2 = b2
    v1 = v1
    v2 = v2
    absent = absent
    n1 = n1
    e1 = e1
    e2 = e2
    Parts = {"load"}
    Blocks <- TwoBlocks
    Small <- EachBlock
    Large <- BothBlocks
    Values <- TwoValues
    Absent = absent
    Coherent = TRUE
    CacheFaults = TRUE
    FlushFaults = TRUE
    PlainFaults = TRUE
    BlockSize = 4
    BlockCount = 3
    MinQuantum = 2
    MaxQuantum = 4
    Errors <- NegErrors
    MaxCount = 9
    MaxRequests = 2
    Disks <- NtfsDisks
    Ext <- NoDisks
    Keyed <- NtfsDisks
    None = absent
    Alone = TRUE
    SerialFaults = FALSE
    MaxEvents = 1
INVARIANTS
    ReadOnlyThroughout
