SPECIFICATION LossSpec
CONSTANTS
    Tokens = {"t1", "t2"}
    Requests = {1, 2, 3}
    Permits = 1
    MaxWaiters = 2
    MaxGroups = 2
    MaxEnds = 1
    NoOne = NoOne
INVARIANTS
    LossIsNoticed
CHECK_DEADLOCK FALSE
