SPECIFICATION FairSpec
CONSTANTS
    j1 = j1
    j2 = j2
    n1 = n1
    s1 = s1
    s2 = s2
    u1 = u1
    NoEvent = NoEvent
    Event <- MCOneOfEach
    JobSubmit <- MCOne
    Gated <- MCOne
    SessionOf <- MCSessionOf
    UserOf <- MCUserOf
    JobRateLimit = 1
    Window = 0
    Backlog = 1
    SpoolInRuntimeDir = TRUE
    MaxClock = 0
    MaxStops = 1
    MaxFaults = 1
PROPERTIES
    CallsReturn
    SpoolDrains
CHECK_DEADLOCK FALSE
