SPECIFICATION FairSpec
CONSTANTS
    c1 = c1
    bad = bad
    p1 = p1
    p2 = p2
    NoConf = NoConf
    NoPid = NoPid
    Configs <- OnePlusInvalid
    Valid <- OnlyFirst
    Files <- Package
    Pids <- TwoPids
    MaxApplies = 2
    MaxFaults = 1
    MaxUpgrades = 1
CHECK_DEADLOCK FALSE
INVARIANTS TypeOK OneKernel PackageIsWhole NoKernelLeftBehind
PROPERTIES PlannedStopsAreNoFailures AcceptedConfigIsStarted ShutdownEnds
