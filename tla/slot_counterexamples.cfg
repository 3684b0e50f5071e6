\* Each property below is violated by what the code does; README.md, Further
\* counterexamples.  TLC stops at the first one: keep one of the lines.
SPECIFICATION SlotSpec
CONSTANTS
    BaseDelay = 4
    MaxDelay = 2
    MaxCrashes = 3
    Window = 7
    LongMax = 4
    LongWindow = 3
    ExitIsNoticed = FALSE
    MaxTicks = 12
    MaxSlotCrashes = 6
CHECK_DEADLOCK FALSE
PROPERTY DelayNeverExceedsMax
\* INVARIANT OnlyLoopStopsRetries
\* INVARIANT WholeWindowCounted
