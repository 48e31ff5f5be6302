SPECIFICATION FairSpec
CONSTANTS
    f1 = f1
    f2 = f2
    d1 = d1
    NoEntry = NoEntry
    Files <- TwoFiles
    Dirs <- OneDir
    Size <- Sizes
    Faults = {"tar_open", "tar_new", "tar_write", "tar_close", "tar_load", "tar_read", "mkfs", "fs_new", "fs_write", "fs_remove", "fs_timestamp", "dev_open", "dev_write", "src_read", "src_zeros", "analyze", "no_analyzer_conf"}
    BvChunks = 2
    Groups = 2
    PipeCap = 2
    Analyze = TRUE
    Rejected = {}
    BigFiles = {}
    Requests = {"Id", "OpenDevice", "Partitions", "OpenPartition", "CopyStart", "End"}
    Dests = {"Usb"}
    FsTypes = {"Fat"}
    WipeDevs = {1}
    DiskChunks = 2
    Crashable = {}
    MaxCrashes = 0
INVARIANTS
    TypeOK
    TransferInv
    Lockstep
    TarReadComplete
    ImageComplete
    OnlyClean
    Accounted
    GiveUpLeavesDevice
PROPERTIES
    RequestsAnswered
