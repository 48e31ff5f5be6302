SPECIFICATION FairSpec
CONSTANTS
    Pages = {"select", "open", "copy", "wipe", "imagedisk", "reset"}
    Targets = {"Usb", "Net"}
    Analyzer = TRUE
    PostCopy = TRUE
    BadInput = TRUE
    MayDie = TRUE
    DeviceFails = FALSE
    HostFails = TRUE
    MaxInPipe = 2
    MaxSessions = 2
INVARIANTS
    ServerInv
    InStep
    ChosenDestination
PROPERTIES
    HandlersReturn
