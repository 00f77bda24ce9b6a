SPECIFICATION Spec
CONSTANTS
    a1 = a1
    k1 = k1
    r1 = r1
    p1 = p1
    h1 = h1
    h2 = h2
    NoHandler = NoHandler
    AgentUpgrades <- None
    KernelUpgrades <- OneKernelUpgrade
    Restarts <- None
    Probes <- OneProbe
    BATCH = 2
    RESULTS_MAX = 8
    Handlers <- TwoHandlers
    MaxRetries = 1
    MaxFaults = 1
    MaxCrashes = 1
    MaxStops = 1
INVARIANTS TypeOK ResultsSurvive OneResultPerTask
PROPERTIES SettledUnlessOvertaken AnsweredTasksDoNotRunAgain
SYMMETRY HandlerSymmetry
