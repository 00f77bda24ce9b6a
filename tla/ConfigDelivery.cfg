SPECIFICATION LiveSpec
CONSTANTS
    Nodes = {n1}
    Changes = {c1}
    Links = {l1, l2}
    Polls = {h1, h2}
    MaxFaults = 1
    MaxUpgrades = 0
    Patient = TRUE
    NoNode = NoNode
    NoLink = NoLink
    NoPoll = NoPoll
    NoChange = NoChange
    NoConfig = NoConfig
INVARIANT ServedIsCurrent
PROPERTIES Delivers CallersAnswered
CHECK_DEADLOCK FALSE
