SPECIFICATION FairSpec
CONSTANTS
    a1 = a1
    k1 = k1
    r1 = r1
    p1 = p1
    h1 = h1
    h2 = h2
    NoHandler = NoHandler
    AgentUpgrades <- OneAgentUpgrade
    KernelUpgrades <- None
    Restarts <- OneRestart
    Probes <- None
    BATCH = 1
    RESULTS_MAX = 8
    Handlers <- OneHandler
    MaxRetries = 1
    MaxFaults = 1
    MaxCrashes = 1
    MaxStops = 1
PROPERTIES TasksAreAcknowledged UpgradesSettle
