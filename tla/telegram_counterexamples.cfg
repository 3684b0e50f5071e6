\* Each property below is violated by what the code does; README.md, Further
\* counterexamples.  TLC stops at the first one: keep one of the lines.
SPECIFICATION Spec
CONSTANTS
    WithIds = TRUE
    LateChunks = FALSE
    ApiFails = FALSE
    MaxTurns = 2
    MaxUpdates = 4
    MaxTasks = 4
CHECK_DEADLOCK FALSE
INVARIANT AllShown
\* INVARIANT NoDuplicate
\* PROPERTY NothingOverwritten
\* With LateChunks = TRUE, MaxTurns = 3, MaxUpdates = 7 and MaxTasks = 6:
\* CONSTRAINT LateTextComes
\* PROPERTY CollapsedStays
