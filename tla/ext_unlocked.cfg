\* Two careful clients at once.
SPECIFICATION ExtNamesSpec
CONSTANTS
    c1 = c1
    c2 = c2
    r = r
    i1 = i1
    i2 = i2
    i3 = i3
    x = x
    y = y
    none = none
    Clients <- TwoClients
    RootIno = r
    Inos <- TwoInodes
    EntryNames <- TwoNames
    None = none
    Careful = TRUE
    MaxFailures = 0
    MaxAfter = 2
INVARIANTS
    LinksAgree
