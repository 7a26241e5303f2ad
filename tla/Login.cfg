SPECIFICATION Spec
CONSTANTS
    s1 = s1
    s2 = s2
    x1 = x1
    x2 = x2
    Session <- MCSessions
    Address <- MCAddresses
    NoAddress = NoAddress
    MaxTenants = 2
    MaxLogins = 2
    MaxFaults = 1
SYMMETRY Symmetry
INVARIANTS
    IInv
    KnownIsMailed
    OneMoreUnderNotice
