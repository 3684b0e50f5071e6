\* Each property below is violated by what the code does; README.md, Further
\* counterexamples.  TLC stops at the first one: keep one of the lines.
SPECIFICATION Spec
CONSTANTS
    BaseDelay = 1
    MaxDelay = 4
    MaxCrashes = 2
    Window = 1
    LongMax = 3
    LongWindow = 3
    MaxTime = 1
    MaxTotal = 2
CHECK_DEADLOCK FALSE
INVARIANT TimedOutIsAborted
\* INVARIANT OnlyLoopStopsRestarts
\* INVARIANT RestartedIsWired
\* INVARIANT StopsInReverse
