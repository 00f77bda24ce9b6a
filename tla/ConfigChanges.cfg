SPECIFICATION Spec
CONSTANTS
    Nodes = {n1}
    Changes = {c1, c2}
    Links = {l1}
    Polls = {h1}
    MaxFaults = 0
    MaxUpgrades = 1
    Patient = FALSE
    NoNode = NoNode
    NoLink = NoLink
    NoPoll = NoPoll
    NoChange = NoChange
    NoConfig = NoConfig
INVARIANTS TypeOK CacheIsCurrent AnsweredAfterPush
CHECK_DEADLOCK FALSE
