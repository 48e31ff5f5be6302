SPECIFICATION Spec
CONSTANTS
    FilePaths <- MCFiles
    DirPaths <- MCDirs
    Unreadable <- MCUnreadable
    Unlistable <- MCUnlistable
    Selections <- MCSelections
INVARIANTS
    FilesOnce
    ParentsFirst
    WalkComplete
PROPERTIES
    WalkEnds
