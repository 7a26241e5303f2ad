SPECIFICATION FairSpec
CONSTANTS
    j1 = j1
    j2 = j2
    n1 = n1
    s1 = s1
    s2 = s2
    u1 = u1
    NoEvent = NoEvent
    Event <- MCSubmissions
    JobSubmit <- MCSubmissions
    Gated <- MCSubmissions
    SessionOf <- MCSessionOf
    UserOf <- MCUserOf
    JobRateLimit = 1
    Window = 0
    Backlog = 2
    SpoolInRuntimeDir = FALSE
    MaxClock = 1
    MaxStops = 1
    MaxFaults = 1
INVARIANTS
    LiveWithinLimit
    AckedIsInBoth
    SpooledIsNotLost
    DuplicatesAreAccounted
    JsonlFollowsDb
PROPERTIES
    ImplementsTrail
    SpoolDrains
CHECK_DEADLOCK FALSE
