SPECIFICATION FairSpec
CONSTANTS
    f1 = f1
    f2 = f2
    d1 = d1
    NoEntry = NoEntry
    Files <- OneFile
    Dirs <- OneDir
    Size <- Sizes
    Faults = {}
    BvChunks = 2
    Groups = 2
    PipeCap = 2
    Analyze = TRUE
    Rejected = {}
    BigFiles = {}
    Requests = {"Id", "OpenDevice", "Partitions", "OpenPartition", "CopyStart", "End", "PostCopyCmd", "Wipe"}
    Dests = {"Usb", "Net"}
    FsTypes = {"Fat"}
    WipeDevs = {1}
    DiskChunks = 2
    Crashable = {"analyzer", "identificator", "cmdexec", "files2tar", "filter", "fs2dev", "tar2files", "uploader", "usbdev"}
    MaxCrashes = 1
INVARIANTS
    TarReadComplete
    OneFinalAnswer
PROPERTIES
    RequestsAnswered
