\* A failed nfsk_open_ex stops the volume.
SPECIFICATION ItemSpec
CONSTANTS
    t1 = t1
    t2 = t2
    t3 = t3
    none = none
    Threads <- TwoThreads
    m1 = m1
    m2 = m2
    d1 = d1
    d2 = d2
    Records <- OneRecord
    Dirs <- TwoDirs
    Nil = none
    NoThread = none
    MaxDepth = 1
CHECK_DEADLOCK FALSE
PROPERTIES
    BridgeGoesOn
