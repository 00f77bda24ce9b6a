SPECIFICATION Spec
CONSTANTS
    Nodes = {n1}
    Changes = {}
    Links = {l1, l2}
    Polls = {h1}
    MaxFaults = 0
    MaxUpgrades = 1
    Patient = FALSE
    NoNode = NoNode
    NoLink = NoLink
    NoPoll = NoPoll
    NoChange = NoChange
    NoConfig = NoConfig
INVARIANT AuthResultComesFirst
CHECK_DEADLOCK FALSE
