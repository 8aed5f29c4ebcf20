--------------------------- MODULE MCTicketOrders ---------------------------
(* TLC instances of TicketOrders: orders, attempts and seats are model     *)
(* values and interchangeable.                                             *)
EXTENDS TicketOrders, TLC

Symmetry == Permutations(Orders) \cup Permutations(Attempts) \cup Permutations(Seats)
=============================================================================
