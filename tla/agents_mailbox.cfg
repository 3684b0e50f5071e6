SPECIFICATION FairSpec
CONSTANTS
    DefaultKey = dk
    None = None
    Keys = {k1}
    Resume = FALSE
    Load = FALSE
    KeepsId = TRUE
    Faulty = FALSE
    IdleTimeout = TRUE
    BootStale = {}
    FirstFree = 2
    MaxMsgs = 4
    MaxIds = 2
    MaxUpdates = 1
    MaxCommands = 0
    MaxDeaths = 0
    CrashLimit = 2
    IncomingCap = 1
PROPERTIES
    ImplementsMailbox
