SPECIFICATION FairSpec
CONSTANTS
    Workspaces = {"local", "docker"}
    PullPolicy = "IfNotPresent"
    StdinCap = 1
    PipeCap = 1
    IncomingCap = 1
    ReadsWhileWriting = TRUE
    MaxConns = 2
    MaxRequests = 3
    MaxLines = 2
PROPERTIES ManagerGetsFree LostRequestEnds OutputIsRead
CHECK_DEADLOCK FALSE
