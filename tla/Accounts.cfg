SPECIFICATION Spec
CONSTANTS
    a1 = a1
    a2 = a2
    n1 = n1
    n2 = n2
    Admin <- MCAdmins
    Name <- MCNames
    MaxUid = 3
    NoName = NoName
    MaxRequests = 3
    MaxFaults = 2
SYMMETRY Symmetry
INVARIANTS
    IInv
    QuietIsWhole
    RowIsOfTenant
CHECK_DEADLOCK FALSE
