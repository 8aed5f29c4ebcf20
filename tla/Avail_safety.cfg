SPECIFICATION LiveSpec
CONSTANTS
    s1 = s1  s2 = s2  o1 = o1  o2 = o2  p1 = p1  p2 = p2  w1 = w1  w2 = w2
    Seats = {s1}
    Owners = {o1}
    Polls = {p1, p2}
    Followers = {p1}
    Workers = {w1}
    NoOne = NoOne
    Traded = {s1}
    MaxVersion = 2
    MaxStream = 1
    MaxFaults = 1
    KeepEvents = 2
    DeltaLimit = 1
    ExpiryBatch = 1
    ProjectionBatch = 1
INVARIANTS
    NoChangeIsLost
    HoldsAndCountsAgree
    DeltasMissNothing
PROPERTIES
    ChangesArriveForward
CHECK_DEADLOCK FALSE
