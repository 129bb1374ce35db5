\* A write to an ext file may end before the end of the file.
SPECIFICATION AllSpec
CONSTANTS
    Parts = {"bytes"}
    Engines = {"ext"}
    n1 = n1
    n2 = n2
    n3 = n3
    n4 = n4
    n5 = n5
    none = none
    Names <- FiveNames
    Hidden <- TwoHidden
    Mute <- OneMute
    NoName = none
    MaxRoom = 2
    MaxLen = 4
    MaxChanges = 1
    FileNames <- FourNames
    Dots <- OneDot
    Vacant = none
    NBlocks = 1
    NOffsets = 4
    MaxTake = 2
    MaxEdits = 1
    s1 = s1
    err = err
    gone = gone
    BlockSize = 2
    OffLimit = 8
    Values <- TwoValues
    InPlace = TRUE
    Far = FALSE
    Ragged = FALSE
    MaxSize = 6
    MaxBytes = 3
    MaxFaults = 0
    MaxEnd = 3
    Bufs <- TwoBufs
    XNames <- OneStream
    XValues <- TwoXattrs
    Times = {1}
    Now = 0
    MaxXattr = 1
    Prepared = FALSE
    Error = err
    NoStream = gone
INVARIANTS
    ContentsExact
