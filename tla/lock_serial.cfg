\* Any nfsk_open_ex may fail: the volume really may stop then.
SPECIFICATION ItemSpec
CONSTANTS
    t1 = t1
    t2 = t2
    t3 = t3
    none = none
    m1 = m1
    m2 = m2
    d1 = d1
    d2 = d2
    Threads <- ThreeThreads
    NoThread = none
    MaxDepth = 1
    Records <- OneRecord
    Dirs <- TwoDirs
    Nil = none
CHECK_DEADLOCK FALSE
INVARIANTS
    TypeOK
    MutualExclusion
    NothingHeldOutside
    OneItem
    ItemsDirectory
PROPERTIES
    LockIsReleased
    GoesOnUntilLeft
