SPECIFICATION Spec
CONSTANTS
    Getters = {g1, g2}
    Thread = thread
    Board = board
    Stores = {s1, s2, s3, s4, s5, s6}
    Size = 1
    MaxTime = 2
    MaxUpdates = 1
    MaxRequests = 2
    Others = 1
    None = None
INVARIANTS
    PagesHold
PROPERTIES
    RequestsEnd
CHECK_DEADLOCK FALSE
