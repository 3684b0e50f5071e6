SPECIFICATION FairSpec
CONSTANTS
    DefaultKey = dk
    None = None
    Keys = {k1}
    Resume = FALSE
    Load = TRUE
    KeepsId = TRUE
    Faulty = TRUE
    IdleTimeout = FALSE
    BootStale = {}
    FirstFree = 2
    MaxMsgs = 3
    MaxIds = 4
    MaxUpdates = 1
    MaxCommands = 1
    MaxDeaths = 1
    CrashLimit = 3
    IncomingCap = 1
INVARIANTS
    NoIdleBacklog
PROPERTIES
    CrashedPromptCompletes
