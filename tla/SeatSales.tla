----------------------------- MODULE SeatSales -----------------------------
(***************************************************************************)
(* What the ticketing backend promises about the seats of one session,    *)
(* with no database, payment or clock in sight.  A seat is free, held by  *)
(* one order, or sold to one order.  The seats of an order move together, *)
(* and an order takes seats at most once in its life.                      *)
(*                                                                         *)
(* TicketOrders implements this specification.  There the link between a  *)
(* sold seat and its order is not stored (session_seats drops its         *)
(* current_reservation_id when the seat is sold): it has to follow from   *)
(* the reservation's items and the order's status.                         *)
(***************************************************************************)
CONSTANTS Seats, Orders, NoOrder

VARIABLES
    slot,   \* slot[s]: Free, or who has seat s and how
    spent   \* the orders that have taken their seats

vars == <<slot, spent>>

Free == [by |-> NoOrder, how |-> "free"]
Claim(o, how) == [by |-> o, how |-> how]

SeatsOf(o) == {s \in Seats : slot[s].by = o}

Init ==
    /\ slot = [s \in Seats |-> Free]
    /\ spent = {}

Move(S, c) == slot' = [s \in Seats |-> IF s \in S THEN c ELSE slot[s]]

\* An order takes a non-empty set of free seats, once.
Hold(o, S) ==
    /\ o \notin spent
    /\ S # {}
    /\ \A s \in S : slot[s] = Free
    /\ Move(S, Claim(o, "held"))
    /\ spent' = spent \cup {o}

\* The order is paid: all the seats it holds are sold to it.
Sell(o) ==
    /\ SeatsOf(o) # {}
    /\ \A s \in SeatsOf(o) : slot[s] = Claim(o, "held")
    /\ Move(SeatsOf(o), Claim(o, "sold"))
    /\ UNCHANGED spent

\* The order is cancelled, expires or is refunded: all its seats are free again.
GiveBack(o) ==
    /\ SeatsOf(o) # {}
    /\ Move(SeatsOf(o), Free)
    /\ UNCHANGED spent

Next == \E o \in Orders :
    \/ \E S \in SUBSET Seats : Hold(o, S)
    \/ Sell(o)
    \/ GiveBack(o)

Spec == Init /\ [][Next]_vars
=============================================================================
