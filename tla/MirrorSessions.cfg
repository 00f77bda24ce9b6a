SPECIFICATION LiveSpec
CONSTANTS
    Tasks = {t1, t2}
    Tests = {t2}
    Links = {1, 2}
    MaxChunks = 1
    NoLink = 0
INVARIANTS TypeOK SessionsAreWanted AnswersAreWhole
PROPERTY RequestsEnd
CHECK_DEADLOCK FALSE
