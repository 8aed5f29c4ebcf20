SPECIFICATION Spec
CONSTANTS
    s1 = s1  s2 = s2  k1 = k1  k2 = k2  q1 = q1  q2 = q2  q3 = q3  c1 = c1  c2 = c2
    Seats = {s1, s2}
    Checkouts = {c1, c2}
    Keys = {k1, k2}
    Requests = {q1, q2, q3}
    NoKey = NoKey  NoCheckout = NoCheckout  Other = Other
SYMMETRY Symmetry
INVARIANTS
    FormalResultIsNeverLost
CHECK_DEADLOCK FALSE
