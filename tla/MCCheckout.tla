----------------------------- MODULE MCCheckout -----------------------------
(***************************************************************************)
(* Instances of the two halves of a checkout: its confirmation, and the    *)
(* seats it holds in Redis.  A behaviour is that of one of them, and the   *)
(* other stays in its initial state.                                       *)
(***************************************************************************)
EXTENDS CheckoutConfirm, TLC

CONSTANTS
    MaxRevision, Faults,    \* of the holds
    s1, s2, k1, k2, q1, q2, q3, c1, c2

Symmetry == Permutations({s1, s2}) \cup Permutations({k1, k2}) \cup Permutations({q1, q2, q3})
            \cup Permutations({c1, c2})

VARIABLES
    half, \* the half this behaviour is of
    holdStatus, revision, holdSelected, hold, failing, secured, holdReq

holdVars == <<holdStatus, revision, holdSelected, hold, failing, secured, holdReq>>

Holds == INSTANCE SeatHolds WITH
    status <- holdStatus, selected <- holdSelected, req <- holdReq

ASSUME HoldsAreValid == Holds!ConstantsAssumption

CheckoutInit ==
    /\ half \in {"confirm", "holds"}
    /\ Init /\ (half = "confirm" \/ ~seatsReturn)
    /\ Holds!Init /\ (half = "holds" \/ failing = {})

CheckoutNext ==
    \/ half = "confirm" /\ Next /\ UNCHANGED <<half, seatsReturn, holdVars>>
    \/ half = "holds" /\ Holds!Next /\ UNCHANGED <<half, failing, vars>>

CheckoutSpec == CheckoutInit /\ [][CheckoutNext]_<<half, vars, holdVars>>

-----------------------------------------------------------------------------
(* While the services answer, no late clean-up takes a confirmed hold away *)
(* (CheckoutSessionService.cpp, the finalize and the abort of a PUT).       *)
SecuredSeatsStayHeld == Holds!SecuredSeatsStayHeld

(* And no hold is left that nobody has selected or works on (the clean-ups *)
(* of failed creates, PUTs and abandoned checkouts).                       *)
NoLeakedHold == Holds!NoLeakedHold

(* A late step of a handler undoes nothing: a reservation is created once  *)
(* under its key, an outcome of a checkout is final, and no handler takes  *)
(* a hold of another checkout away (CheckoutSessionService.cpp).           *)
LateStepsAreHarmless == CreatedOnce /\ OutcomesAreFinal /\ Holds!ForeignHoldsAreSafe
=============================================================================
