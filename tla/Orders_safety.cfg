SPECIFICATION Spec
CONSTANTS
  Seats = {s1, s2}
  Orders = {o1, o2}
  Attempts = {a1, a2}
  NoOrder = NoOrder
  NoAttempt = NoAttempt
  DeclineIsFinal = FALSE
SYMMETRY Symmetry
INVARIANTS
  SeatsHaveOneOwner
  MoneyAccountedFor
  LockedReadsStayTrue
PROPERTIES
  ImplementsSeatSales
  NoOrderIsRevived
  GraceProtectsPayment
CHECK_DEADLOCK FALSE
