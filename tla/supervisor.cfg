SPECIFICATION FairSpec
CONSTANTS
    BaseDelay = 1
    MaxDelay = 4
    MaxCrashes = 2
    Window = 1
    LongMax = 3
    LongWindow = 3
    MaxTime = 1
    MaxTotal = 3
INVARIANTS
    DisabledStaysDown
PROPERTIES
    OneIncarnation
    ShutdownCompletes
    CrashIsHandled
CHECK_DEADLOCK FALSE
