SPECIFICATION LiveSpec
CONSTANTS
    r1 = r1
    r2 = r2
    Owners = {o1}
    Resources = {r1, r2}
    Selections <- OneOrBoth
    Workers = 2
    ChunkSize = 1
    PerOwner = 2
    Capacity = 2
    MaxTasks = 2
    MaxChanges = 1
    NoOwner = NoOwner
    NoResource = NoResource
INVARIANTS TypeOK Scheduled
PROPERTIES NewestWins ResultsAreFinal TasksEnd
CHECK_DEADLOCK FALSE
