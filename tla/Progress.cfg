SPECIFICATION ProgressSpec
CONSTANTS
    a1 = a1  a2 = a2  w1 = w1  f1 = f1
    NoToken = NoToken
    Seats = {s1}
    Orders = {o1}
    Attempts = {a1, a2}
    NoOrder = NoOrder
    NoAttempt = NoAttempt
    DeclineIsFinal = TRUE
PROPERTIES
    ExpiredOrdersClose
    MoneySettles
    EverythingIsReconciled
CHECK_DEADLOCK FALSE
