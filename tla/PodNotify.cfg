SPECIFICATION Spec
CONSTANTS
    t1 = t1
    t2 = t2
    u1 = u1
    u2 = u2
    Checker = Checker
    Nobody = Nobody
    Session <- MCSessions
    Account <- MCAccounts
    AccountOf <- MCAccountOf
    Total = 1
    MaxMade = 2
    MaxDeaths = 1
    MaxFaults = 1
INVARIANTS
    Inv
PROPERTIES
    OthersKeepSubscription
CHECK_DEADLOCK FALSE
