SPECIFICATION NotebookFairSpec
CONSTANTS
    j1 = j1
    j2 = j2
    p1 = p1
    p2 = p2
    Free = Free
    Other = Other
    NoPort = NoPort
    Job <- MCJobs
    Watched <- MCWatched
    Port <- MCPorts
    MaxFailures = 1
    MaxUpsets = 1
INVARIANTS
    ServedIsAdvertised
    GoneIsOver
PROPERTIES
    CardIsServed
    WaitReturns
CHECK_DEADLOCK FALSE
