SPECIFICATION Spec
CONSTANTS
    DefaultKey = dk
    None = None
    Keys = {k1, k2}
    Resume = FALSE
    Load = TRUE
    KeepsId = FALSE
    Faulty = TRUE
    IdleTimeout = FALSE
    BootStale = {k1}
    FirstFree = 3
    MaxMsgs = 3
    MaxIds = 5
    MaxUpdates = 1
    MaxCommands = 0
    MaxDeaths = 2
    CrashLimit = 2
    IncomingCap = 2
INVARIANTS
    InOrder
    Isolation
    ExitNoticeFresh
    ActiveIsServed
    NoUpdateAfterComplete
