\* Each property below is violated by what the code does; README.md, Further
\* counterexamples.  TLC stops at the first one: keep one of the lines.
SPECIFICATION FairSpec
CONSTANTS
    Workspaces = {"local", "docker"}
    PullPolicy = "IfNotPresent"
    StdinCap = 1
    PipeCap = 1
    IncomingCap = 1
    ReadsWhileWriting = FALSE
    MaxConns = 1
    MaxRequests = 4
    MaxLines = 3
CHECK_DEADLOCK FALSE
PROPERTY NothingLeaked
\* INVARIANT MalformedIsSkipped
\* PROPERTY ManagerGetsFree
