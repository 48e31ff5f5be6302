SPECIFICATION FairSpec
CONSTANTS
    f1 = f1
    f2 = f2
    d1 = d1
    NoEntry = NoEntry
    Files <- TwoFiles
    Dirs <- OneDir
    Size <- Sizes
    Faults = {"upload", "exec", "no_network_conf", "src_partitions", "src_mount", "dev_open", "dev_write", "mkfs", "fs_write", "tar_open"}
    BvChunks = 2
    Groups = 2
    PipeCap = 2
    Analyze = TRUE
    Rejected = {f2}
    BigFiles = {f1}
    Requests = {"Id", "Devices", "OpenDevice", "ImgDisk", "Partitions", "OpenPartition", "GetAttr", "ReadDir", "CopyStart", "PostCopyCmd", "Wipe", "Bad", "Malformed", "End"}
    Dests = {"Usb", "Net", "Cmd"}
    FsTypes = {"Fat", "Ntfs"}
    WipeDevs = {0, 1}
    DiskChunks = 2
    Crashable = {}
    MaxCrashes = 0
INVARIANTS
    UnlockedOnce
PROPERTIES
    ImplementsSession
    DeviceOnlyOnDemand
    RequestsAnswered
