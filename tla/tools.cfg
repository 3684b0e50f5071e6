SPECIFICATION FairSpec
CONSTANTS
    Tools = {w, x}
    Wasm = {w}
    Servers = {s1, s2}
    Timed = {s1}
    EpochTimeout = 2
    Hangs = FALSE
    Calls = {c1}
    MaxDeaths = 1
    MaxAsks = 1
INVARIANTS RunAtMostOnce UnknownIsGone
PROPERTY ToolsAnswer
CHECK_DEADLOCK FALSE
