\* A client removes a directory that is not empty.
SPECIFICATION ExtNamesSpec
CONSTANTS
    c1 = c1
    c2 = c2
    r = r
    i1 = i1
    i2 = i2
    i3 = i3
    x = x
    y = y
    none = none
    Clients <- OneClient
    RootIno = r
    Inos <- TwoInodes
    EntryNames <- TwoNames
    None = none
    Careful = FALSE
    MaxFailures = 0
    MaxAfter = 2
INVARIANTS
    NothingLost
