SPECIFICATION SizingSpec
CONSTANTS
    s1 = s1
    s2 = s2
    Nothing = Nothing
    j1 = j1
    j2 = j2
    Session <- MCSessions
    Job <- MCJobs
    Cpus = 7
    MemGb = 6
    Splits <- MCSplits
    MaxMoves = 3
    DefaultCpus = 2
    DefaultMem = 3
    Preset <- MCPresets
    UserScript <- MCScripts
    MaxShards = 4
    MaxCpus = 8
    MaxMem = 8
    Minutes <- MCMinutes
    MaxResizes = 1
SYMMETRY Symmetry
INVARIANTS
    SizingInv
    LaunchFits
    PodsAreEnough
    RerunRepeats
CHECK_DEADLOCK FALSE
