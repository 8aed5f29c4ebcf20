SPECIFICATION Spec
CONSTANTS
  Seats = {s1}
  Orders = {o1}
  Attempts = {a1}
  NoOrder = NoOrder
  NoAttempt = NoAttempt
  DeclineIsFinal = FALSE
INVARIANTS
  FailedMeansNotCharged
CHECK_DEADLOCK FALSE
