\* Each property below is violated by what the code does; README.md, Further
\* counterexamples.  TLC stops at the first one: keep one of the lines.
SPECIFICATION Spec
CONSTANTS
    MaxAsks = 2
    PermCap = 1
    NumAgents = 2
    TimeoutSet = TRUE
    MaxFaults = 0
    MaxDelivers = 0
CHECK_DEADLOCK FALSE
INVARIANT AnswerIsCorrelated
