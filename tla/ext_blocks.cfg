\* An ext directory of two blocks that does not change.
SPECIFICATION AllSpec
CONSTANTS
    Parts = {"pages"}
    Engines = {"ext"}
    n1 = n1
    n2 = n2
    n3 = n3
    n4 = n4
    n5 = n5
    none = none
    Names <- FiveNames
    Hidden <- TwoHidden
    Mute <- OneMute
    NoName = none
    MaxRoom = 2
    MaxLen = 4
    MaxChanges = 1
    FileNames <- FourNames
    Dots <- OneDot
    Vacant = none
    NBlocks = 2
    NOffsets = 2
    MaxTake = 2
    MaxEdits = 0
    s1 = s1
    err = err
    gone = gone
    BlockSize = 2
    OffLimit = 8
    Values <- TwoValues
    InPlace = FALSE
    Far = FALSE
    Ragged = FALSE
    MaxSize = 6
    MaxBytes = 3
    MaxFaults = 1
    MaxEnd = 3
    Bufs <- TwoBufs
    XNames <- OneStream
    XValues <- TwoXattrs
    Times = {1}
    Now = 0
    MaxXattr = 1
    Prepared = FALSE
    Error = err
    NoStream = gone
INVARIANTS
    SteadyListed
