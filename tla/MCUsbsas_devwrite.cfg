SPECIFICATION Spec
CONSTANTS
    f1 = f1
    f2 = f2
    d1 = d1
    NoEntry = NoEntry
    Files <- OneFile
    Dirs <- OneDir
    Size <- Sizes
    Faults = {"dev_write"}
    BvChunks = 2
    Groups = 2
    PipeCap = 2
    Analyze = FALSE
    Rejected = {}
    BigFiles = {}
    Requests = {"Id", "OpenDevice", "Partitions", "OpenPartition", "CopyStart", "End"}
    Dests = {"Usb"}
    FsTypes = {"Fat"}
    WipeDevs = {1}
    DiskChunks = 2
    Crashable = {}
    MaxCrashes = 0
INVARIANTS
    CopyDoneMeansCopied
CHECK_DEADLOCK FALSE
