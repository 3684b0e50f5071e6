\* Each property below is violated by what the code does; README.md, Further
\* counterexamples.  TLC stops at the first one: keep one of the lines.
SPECIFICATION Spec
CONSTANTS
    DefaultKey = dk
    None = None
    Keys = {k1}
    Resume = FALSE
    Load = TRUE
    KeepsId = FALSE
    Faulty = TRUE
    IdleTimeout = TRUE
    BootStale = {}
    FirstFree = 2
    MaxMsgs = 3
    MaxIds = 4
    MaxUpdates = 1
    MaxCommands = 1
    MaxDeaths = 1
    CrashLimit = 2
    IncomingCap = 2
INVARIANT RetriesUntilLoop
\* INVARIANT RoutesBack
\* INVARIANT SkippedAreNotified
\* INVARIANT ReplaySuppressed
\* PROPERTY ExpiredSessionHeals
\* PROPERTY LateResponseIsNoOp
\* PROPERTY QueuedSurviveRecovery
