SPECIFICATION Spec
CONSTANTS
    v1 = v1
    m1 = m1
    alice = alice
    root = root
    NoJob = NoJob
    NoKey = NoKey
    History = 1
    Job <- MCJobNumbers
    Viewer <- MCViewers
    Manager <- MCManagers
    Admin <- MCManagers
    OwnerOf <- MCOwnerOf
    UserOf <- MCUserOf
    MaxFaults = 1
    MaxRefreshes = 2
CONSTRAINT Bound
INVARIANTS
    IInv
    EachJobOnce
    CancelIsLogged
    DrainLeavesOnlyLate
CHECK_DEADLOCK FALSE
