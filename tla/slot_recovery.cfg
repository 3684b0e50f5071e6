SPECIFICATION SlotSpec
CONSTANTS
    BaseDelay = 1
    MaxDelay = 3
    MaxCrashes = 3
    Window = 3
    LongMax = 4
    LongWindow = 7
    ExitIsNoticed = TRUE
    MaxTicks = 12
    MaxSlotCrashes = 6
INVARIANTS
    DisabledIffLoop
    BackoffFollowsFailures
CHECK_DEADLOCK FALSE
