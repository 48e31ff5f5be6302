CONSTANTS
    NClusters = 8
    ClusterBytes = 4
    SectorBytes = 2
    MaxFatSize = 23
    Types = {"FAT32", "EXFAT"}
    Paths <- MCPaths
    Folders <- MCFolders
    Top = "/"
    Parent <- MCParent
    NameSlots <- MCNameSlots
    Entries = 4
    WriteSizes = {5}
    Byte <- MCByte
    Leftovers = {}
CHECK_DEADLOCK FALSE
SPECIFICATION Spec
INVARIANTS
    ChainsSound
    EntriesFound
    ReadsBack
PROPERTIES
    ImplementsFileStore
