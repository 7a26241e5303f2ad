SPECIFICATION FairSpec
CONSTANTS
    t1 = t1
    t2 = t2
    u1 = u1
    u2 = u2
    Checker = Checker
    Nobody = Nobody
    Session <- MCOneSession
    Account <- MCAccounts
    AccountOf <- MCAccountOf
    Total = 1
    MaxMade = 2
    MaxDeaths = 1
    MaxFaults = 1
PROPERTIES
    WaitEnds
CHECK_DEADLOCK FALSE
