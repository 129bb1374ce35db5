\* Pages: the directory changes once; ext directories of one block.
\* Bytes: on ext writes that reach the end, cuts between blocks, one failing
\* call; on NTFS any call may fail.
SPECIFICATION AllSpec
CONSTANTS
    Parts = {"pages", "bytes"}
    Engines = {"ntfs", "ext"}
    n1 = n1
    n2 = n2
    n3 = n3
    n4 = n4
    n5 = n5
    none = none
    Names <- FiveNames
    Hidden <- TwoHidden
    Mute <- OneMute
    NoName = none
    MaxRoom = 2
    MaxLen = 4
    MaxChanges = 1
    FileNames <- FourNames
    Dots <- OneDot
    Vacant = none
    NBlocks = 1
    NOffsets = 4
    MaxTake = 2
    MaxEdits = 1
    s1 = s1
    err = err
    gone = gone
    BlockSize = 2
    OffLimit = 8
    Values <- TwoValues
    InPlace = FALSE
    Far = FALSE
    Ragged = FALSE
    MaxSize = 6
    MaxBytes = 3
    MaxFaults = 1
    MaxEnd = 3
    Bufs <- TwoBufs
    XNames <- OneStream
    XValues <- TwoXattrs
    Times = {1}
    Now = 0
    MaxXattr = 1
    Prepared = FALSE
    Error = err
    NoStream = gone
INVARIANTS
    TypeOK
    NothingListedTwice
    NothingMissed
    SteadyListedOnce
    SteadyListed
    ContentsExact
    ReadsExact
PROPERTIES
    EnumerationsEnd
    SurroundingsKept
    PosixSpec
