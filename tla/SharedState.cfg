SPECIFICATION Spec
CONSTANTS
    s1 = s1
    s2 = s2
    e1 = e1
    e2 = e2
    m1 = m1
    Nobody = Nobody
    Session <- MCSessions
    Env <- MCEnvs
    Model <- MCModels
    MaxOps = 4
    MaxFaults = 1
SYMMETRY Symmetry
INVARIANTS
    IInv
    SerialRegistry
PROPERTIES
    OtherLimitKept
CHECK_DEADLOCK FALSE
