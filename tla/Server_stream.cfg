CHECK_DEADLOCK FALSE
SPECIFICATION FairSpec
CONSTANTS
    Pages = {"wipe"}
    Targets = {"Usb"}
    Analyzer = TRUE
    PostCopy = FALSE
    BadInput = FALSE
    MayDie = FALSE
    DeviceFails = FALSE
    HostFails = FALSE
    MaxInPipe = 2
    MaxSessions = 1
PROPERTY
    StreamDelivers
