SPECIFICATION CheckoutSpec
CONSTANTS
    s1 = s1  s2 = s2  k1 = k1  k2 = k2  q1 = q1  q2 = q2  q3 = q3  c1 = c1  c2 = c2
    Seats = {s1, s2}
    Checkouts = {c1, c2}
    Keys = {k1, k2}
    Requests = {q1, q2, q3}
    MaxRevision = 3
    Faults = {"redis", "commit"}
    NoKey = NoKey  NoCheckout = NoCheckout  Other = Other
SYMMETRY Symmetry
INVARIANTS
    ConfirmedIsTrue
    FormalResultIsKept
    SecuredSeatsStayHeld
    NoLeakedHold
PROPERTIES
    LateStepsAreHarmless
CHECK_DEADLOCK FALSE
