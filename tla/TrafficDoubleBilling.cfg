SPECIFICATION Spec
CONSTANTS
    n1 = n1
    u1 = u1
    Nodes <- OneNode
    Credentials <- OneUser
    Billable <- OneUser
    AGENT_WRITE_MAX_ATTEMPTS = 2
    MaxOutages = 2
    PreludeInOrder = TRUE
    MaxInFlight = 1
    MaxTraffic = 2
    MaxStops = 0
INVARIANT NoOverBilling
