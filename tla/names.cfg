\* NTFS: every operation; one call may fail, and the process may die once.
\* ext: one careful client; one library call may fail.
SPECIFICATION BothSpec
CONSTANTS
    Engines = {"ntfs", "ext"}
    root = root
    d1 = d1
    f1 = f1
    f2 = f2
    logfile = logfile
    a = a
    b = b
    nil = nil
    Root = root
    Dirs <- UserDirs
    Files <- UserFiles
    System <- LogFile
    Names <- AB
    LongNames <- JustB
    NoInode = nil
    MaxSeq = 2
    MaxFaults = 1
    LateErrors = FALSE
    MaxCrashes = 1
    c1 = c1
    c2 = c2
    r = r
    i1 = i1
    i2 = i2
    i3 = i3
    x = x
    y = y
    none = none
    Clients <- OneClient
    RootIno = r
    Inos <- ThreeInodes
    EntryNames <- TwoNames
    None = none
    Careful = TRUE
    MaxFailures = 1
    MaxAfter = 1
SYMMETRY FilesAlike
INVARIANTS
    TypeOK
    DataKept
    FailedRenameRestores
    DirsHaveOneName
    NoDangling
    LinksAgree
    TreeAgrees
    NothingLost
    FilesNamedAlone
    RenamedKept
PROPERTIES
    AtomicSpec
