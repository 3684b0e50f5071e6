\* Each property below is violated by what the code does; README.md, Further
\* counterexamples.  TLC stops at the first one: keep one of the lines.
SPECIFICATION FairSpec
CONSTANTS
    Tools = {w, x}
    Wasm = {w}
    Servers = {s1, s2}
    Timed = {s1}
    EpochTimeout = 2
    Hangs = TRUE
    Calls = {c1}
    MaxDeaths = 1
    MaxAsks = 1
CHECK_DEADLOCK FALSE
PROPERTY ToolsAnswer
