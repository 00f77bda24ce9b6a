SPECIFICATION FairSpec
CONSTANTS
    n1 = n1
    u1 = u1
    Nodes <- OneNode
    Credentials <- OneUser
    Billable <- OneUser
    AGENT_WRITE_MAX_ATTEMPTS = 1
    MaxOutages = 1
    PreludeInOrder = TRUE
    MaxInFlight = 2
    MaxTraffic = 1
    MaxStops = 1
INVARIANTS HandlersAnsweredOnce HourlyMatchesBilled
PROPERTY EveryByteReachesTheCursor
