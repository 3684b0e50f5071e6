SPECIFICATION FairSpec
CONSTANTS
    MaxAsks = 2
    PermCap = 1
    NumAgents = 1
    TimeoutSet = TRUE
    MaxFaults = 1
    MaxDelivers = 1
CHECK_DEADLOCK FALSE
INVARIANTS AnsweredOnce OwnAnswer
PROPERTIES RequestSettles DeliveriesFlow
