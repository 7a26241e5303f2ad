SPECIFICATION Spec
CONSTANTS
    l1 = l1
    l2 = l2
    slot = slot
    NoLaunch = NoLaunch
    Launch <- MCLaunches
    SlotOf <- MCSlotOf
    MaxClock = 1
    MaxLost = 1
SYMMETRY MCSymmetry
INVARIANTS
    NoJobUnasked
    ToldIsTrue
    JobKeepsFolder
    NothingLeft
CHECK_DEADLOCK FALSE
