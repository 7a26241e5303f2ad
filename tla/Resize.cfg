SPECIFICATION Spec
CONSTANTS
    a1 = a1
    a2 = a2
    NoAdmin = NoAdmin
    MaxPods = 2
    InitialPods = 1
    MaxJobs = 1
    Admin <- MCAdmins
    MaxFaults = 2
    MaxKills = 1
SYMMETRY MCSymmetry
INVARIANTS
    DisagreementIsReported
PROPERTIES
    AppliedEverywhere
    RollbackIsClean
CHECK_DEADLOCK FALSE
