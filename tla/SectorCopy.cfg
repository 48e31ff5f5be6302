SPECIFICATION FairSpec
CONSTANTS
    SectorSize = 2
    SectorCount = 5
    MaxWrite = 2
    ByteBits = 2
    ChunkBits = 4
    MaxWrites = 2
INVARIANTS
    TypeOK
    FlaggedCopied
    ImageOnDisk
    StartsInFile
    NothingOldLeft
PROPERTIES
    GroupsBounded
    Terminates
