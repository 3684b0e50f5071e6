\* Each property below is violated by what the code does; README.md, Further
\* counterexamples.  TLC stops at the first one: keep one of the lines.
SPECIFICATION FairSpec
CONSTANTS
    s1 = s1
    s2 = s2
    k1 = k1
    k2 = k2
    Slots = {s1}
    Keys = {k1}
    Home <- OneHome
    Groups = {}
    Strict = TRUE
    AgentsFail = FALSE
    ContextLimit = 0
    CrashLimit = 3
    EventCap = 1
    MaxMsgs = 2
    MaxUpdates = 3
    MaxExits = 1
CHECK_DEADLOCK FALSE
INVARIANT CrashIsTemporary
\* INVARIANT NeverStuck
