SPECIFICATION Spec
CONSTANTS
    f1 = f1
    d1 = d1
    NoEntry = NoEntry
    Files <- OneFile
    Dirs <- OneDir
    Size <- Sizes
    Faults = {"tar_open", "tar_new", "tar_write", "tar_close", "tar_load", "tar_read", "mkfs", "fs_new", "fs_write", "fs_remove", "fs_timestamp", "dev_open", "dev_write", "src_read", "src_zeros", "unmount", "src_open", "src_partitions", "src_mount", "analyze", "upload", "exec", "no_analyzer_conf", "no_network_conf"}
    BvChunks = 2
    Groups = 2
    PipeCap = 2
    Subjects = {"analyzer", "identificator", "cmdexec", "files2fs", "files2tar", "filter", "fs2dev", "scsi2files", "tar2files", "uploader", "usbdev"}
INVARIANTS
    OneAnswer
PROPERTIES
    Replies
    EndExits
