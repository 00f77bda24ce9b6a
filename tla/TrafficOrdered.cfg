SPECIFICATION Spec
CONSTANTS
    n1 = n1
    u1 = u1
    Nodes <- OneNode
    Credentials <- OneUser
    Billable <- OneUser
    AGENT_WRITE_MAX_ATTEMPTS = 2
    MaxOutages = 0
    PreludeInOrder = TRUE
    MaxInFlight = 2
    MaxTraffic = 2
    MaxStops = 0
INVARIANTS TypeOK NoOverBilling ChargedUpToCursor
PROPERTY ImplementsMetering
