SPECIFICATION FairSpec
CONSTANTS
    WithIds = TRUE
    LateChunks = TRUE
    ApiFails = TRUE
    MaxTurns = 2
    MaxUpdates = 4
    MaxTasks = 4
INVARIANT SentOnce
PROPERTIES SettledStays TurnEnds
CHECK_DEADLOCK FALSE
