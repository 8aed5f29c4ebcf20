SPECIFICATION Spec
CONSTANTS
    s1 = s1  s2 = s2  q1 = q1  q2 = q2  q3 = q3  q4 = q4  c1 = c1  c2 = c2
    Seats = {s1}
    Checkouts = {c1}
    Requests = {q1, q2, q3, q4}
    NoCheckout = NoCheckout
    MaxRevision = 3
    Faults = {"commit"}
SYMMETRY Symmetry
INVARIANTS
    ConfirmedHoldsStay
CHECK_DEADLOCK FALSE
