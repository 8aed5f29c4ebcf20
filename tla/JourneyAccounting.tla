------------------------- MODULE JourneyAccounting -------------------------
(***************************************************************************)
(* How a case of phase 14 is reconciled with the database once its         *)
(* generators have ended (src/performance/verification/phase14_verify.py). *)
(* The users of the case send one request after the other                  *)
(* (k6/lib/phase14-flow.js), and each result is counted. An answer may be  *)
(* lost or come too late, while what was asked for is still done; the      *)
(* verification compares counts with rows, in several queries, and does    *)
(* not wait for requests that nobody waits for any more.                   *)
(***************************************************************************)
EXTENDS Naturals, FiniteSets

CONSTANTS
    Users,    \* the users of the slice
    Kinds     \* a subset of "formal", "temporary", "order", "payment", "login"

ConstantsAssumption ==
    /\ IsFiniteSet(Users)
    /\ Kinds \subseteq {"formal", "temporary", "order", "payment", "login"}

VARIABLES
    kind,      \* what the users do: H3 in both its paths, J1, the payment probe, L1
    at,        \* per user: the request it waits for, or will send next
    sent,      \* per user: that request was sent
    handling,  \* per user: the request the backend works on, or "none"
    told,      \* what was counted: a user, a step and its result
    checkout,  \* per user: "none", "selecting", "submitting", "reserved"
    order,     \* per user: "none", "pending", "processing", "paid", "overdue"
    session,   \* the users with a session of this login
    owner,     \* the owner of the hot seat in Redis, "none", or a user whose hold lapsed
    lapsed,    \* that hold has run out
    pc,        \* the verification: "load", "capture", "orders", "checkouts", "probes", "over"
    captured,  \* who owned the hot seat when that was looked at
    correct    \* no query so far has found a mismatch

client == <<at, sent, told>>
backend == <<handling, checkout, order, session, owner, lapsed>>
verifier == <<pc, captured, correct>>
vars == <<kind, client, backend, verifier>>

First == CASE kind = "formal" -> "reservation"
           [] kind = "login" -> "login"
           [] OTHER -> "hold"

Init ==
    /\ kind \in Kinds
    /\ at = [u \in Users |-> First] /\ sent = {} /\ told = {}
    /\ handling = [u \in Users |-> "none"]
    /\ checkout = [u \in Users |-> "none"] /\ order = [u \in Users |-> "none"]
    /\ session = {} /\ owner = "none" /\ lapsed = FALSE
    /\ pc = "load" /\ captured = "none" /\ correct = TRUE

-----------------------------------------------------------------------------
(* The client: request() and purchase().                                   *)

Ends(u) == at' = [at EXCEPT ![u] = "done"] /\ sent' = sent \ {u}
Goes(u, step) == at' = [at EXCEPT ![u] = step] /\ sent' = sent \ {u}
Count(u, step, result) == told' = told \union {[user |-> u, step |-> step, result |-> result]}

Send(u) ==
    /\ pc = "load" /\ at[u] # "done" /\ u \notin sent
    /\ at[u] \notin {"recover", "order", "poll", "identity"} /\ handling[u] = "none"
    /\ sent' = sent \union {u}
    /\ handling' = [handling EXCEPT ![u] = at[u]]
    /\ UNCHANGED <<kind, at, told, checkout, order, session, owner, lapsed, verifier>>

(* No answer, in time: a system error. A confirm is looked after once, and *)
(* a journey of the payment probe also counts its own end.                 *)
After(u) == IF at[u] = "confirm" THEN "recover" ELSE "done"

GiveUp(u) ==
    /\ u \in sent
    /\ Count(u, at[u], "system_error")
    /\ Goes(u, After(u))
    /\ UNCHANGED <<kind, backend, verifier>>

(* What the reads find: the checkout that was not confirmed for all one    *)
(* knows, the order, the session; they may fail as well.                   *)
Reserved(u) == checkout[u] = "reserved"
Found(u) == CASE at[u] = "recover" -> Reserved(u)
              [] at[u] = "order" -> order[u] # "none"
              [] at[u] = "identity" -> u \in session

Then(u) == CASE at[u] = "recover" -> "order"
             [] at[u] = "order" /\ kind = "payment" -> "pay"
             [] OTHER -> "done"

Read(u) ==
    /\ pc = "load" /\ at[u] \in {"recover", "order", "identity"}
    /\ \/ Found(u) /\ Count(u, at[u], "business_success") /\ Goes(u, Then(u))
       \/ at[u] = "recover" /\ ~Found(u) /\ Count(u, "recover", "business_success") /\ Ends(u)
       \/ Count(u, at[u], "system_error") /\ Ends(u)
    /\ UNCHANGED <<kind, backend, verifier>>

(* The payment is polled until it has succeeded or the deadline of the     *)
(* journey has come, which is earlier than that of the attempt.            *)
Poll(u) ==
    /\ pc = "load" /\ at[u] = "poll"
    /\ \/ order[u] = "paid" /\ Count(u, "payment_terminal", "business_success")
       \/ Count(u, "payment_terminal", "unexpected_contract")
    /\ Ends(u)
    /\ UNCHANGED <<kind, backend, verifier>>

-----------------------------------------------------------------------------
(* The backend: what it does is done whether or not the client still waits.*)

Handled(u) == handling' = [handling EXCEPT ![u] = "none"]

(* The answer reaches a client that waits for it.                          *)
Answer(u, result, next) ==
    IF u \in sent /\ at[u] = handling[u]
    THEN Count(u, at[u], result) /\ Goes(u, next)
    ELSE UNCHANGED client

Hold(u) ==
    /\ handling[u] = "hold" /\ Handled(u)
    /\ IF kind = "temporary" /\ owner # "none" /\ ~lapsed
       THEN Answer(u, "business_conflict", "done") /\ UNCHANGED <<checkout, owner, lapsed>>
       ELSE /\ checkout' = [checkout EXCEPT ![u] = "selecting"]
            /\ IF kind = "temporary" THEN owner' = u /\ lapsed' = FALSE /\ Answer(u, "business_success", "done")
               ELSE UNCHANGED <<owner, lapsed>> /\ Answer(u, "business_success", "confirm")
    /\ UNCHANGED <<kind, order, session, verifier>>

(* A confirm is committed twice: SUBMITTING, then what came of it.         *)
Claim(u) ==
    /\ handling[u] = "confirm" /\ checkout[u] = "selecting"
    /\ checkout' = [checkout EXCEPT ![u] = "submitting"]
    /\ UNCHANGED <<kind, client, handling, order, session, owner, lapsed, verifier>>

Confirm(u) ==
    /\ handling[u] = "confirm" /\ checkout[u] = "submitting" /\ Handled(u)
    /\ checkout' = [checkout EXCEPT ![u] = "reserved"]
    /\ order' = [order EXCEPT ![u] = "pending"]
    /\ Answer(u, "business_success", "order")
    /\ UNCHANGED <<kind, session, owner, lapsed, verifier>>

Ordered == {u \in Users : order[u] # "none"}

Reserve(u) ==
    /\ handling[u] = "reservation" /\ Handled(u)
    /\ IF Ordered = {} THEN order' = [order EXCEPT ![u] = "pending"] /\ Answer(u, "business_success", "done")
       ELSE UNCHANGED order /\ Answer(u, "business_conflict", "done")
    /\ UNCHANGED <<kind, checkout, session, owner, lapsed, verifier>>

Login(u) ==
    /\ handling[u] = "login" /\ Handled(u)
    /\ \/ session' = session \union {u} /\ Answer(u, "business_success", "identity")
       \/ UNCHANGED session /\ Answer(u, "capacity_rejection", "done")
    /\ UNCHANGED <<kind, checkout, order, owner, lapsed, verifier>>

Pay(u) ==
    /\ handling[u] = "pay" /\ Handled(u)
    /\ order' = [order EXCEPT ![u] = "processing"]
    /\ Answer(u, "business_success", "poll")
    /\ UNCHANGED <<kind, checkout, session, owner, lapsed, verifier>>

(* The provider answers, before or after the deadline of the attempt.      *)
Settle(u) ==
    /\ order[u] = "processing"
    /\ \E result \in {"paid", "overdue"} : order' = [order EXCEPT ![u] = result]
    /\ UNCHANGED <<kind, client, handling, checkout, session, owner, lapsed, verifier>>

(* A handler fails, or a process ends with its handlers.                   *)
Dies(u) ==
    /\ handling[u] # "none" /\ Handled(u)
    /\ UNCHANGED <<kind, client, checkout, order, session, owner, lapsed, verifier>>

Lapse ==
    /\ owner # "none" /\ ~lapsed /\ lapsed' = TRUE
    /\ UNCHANGED <<kind, client, handling, checkout, order, session, owner, verifier>>

-----------------------------------------------------------------------------
(* The verification, a query at a time, while handlers may still run.      *)

With(steps, result) == {r.user : r \in {x \in told : x.step \in steps /\ x.result = result}}
Successes(steps) == Cardinality(With(steps, "business_success"))
HotSteps == {"hold", "reservation"}

Step(from, to, ok) ==
    /\ pc = from /\ pc' = to
    /\ correct' = (correct /\ ok)
    /\ UNCHANGED <<kind, client, backend>>

(* Every generator has ended. The owners of the hot seats are looked up in *)
(* Redis before their holds run out, if all goes well.                     *)
Capture ==
    /\ \A u \in Users : at[u] = "done"
    /\ captured' = IF owner # "none" /\ ~lapsed /\ checkout[owner] = "selecting" THEN owner ELSE "none"
    /\ Step("load", "orders", TRUE)

(* The orders of the main slice, by number.                                *)
OrdersAgree == kind \in {"formal", "order"} => Cardinality(Ordered) = Successes({"order", "reservation"})
Orders == Step("orders", "checkouts", OrdersAgree) /\ UNCHANGED captured

(* No confirm is unresolved, and one of the users has the hot seat.        *)
Resolved == kind = "payment" \/ \A u \in Users : checkout[u] # "submitting"
HotspotAgrees ==
    kind \in {"formal", "temporary"} =>
        /\ Successes(HotSteps) = 1
        /\ Cardinality(With(HotSteps, "business_conflict")) = Cardinality(Users) - 1
        /\ IF kind = "formal" THEN Cardinality(Ordered) = 1 ELSE captured # "none"
Checkouts == Step("checkouts", "probes", Resolved /\ HotspotAgrees) /\ UNCHANGED captured

(* The sessions of the logins, and what became of the payments.            *)
LoginsAgree ==
    kind = "login" =>
        /\ Cardinality(session) = Successes({"login"})
        /\ Successes({"identity"}) = Successes({"login"})
        /\ Successes({"login"}) + Cardinality(With({"login"}, "capacity_rejection")) = Cardinality(Users)
Paid == {u \in Users : order[u] = "paid"}
PaymentsAgree ==
    kind = "payment" =>
        /\ Cardinality(Ordered) = Successes({"payment_terminal"})
        /\ Paid = Ordered
Probes == Step("probes", "over", LoginsAgree /\ PaymentsAgree) /\ UNCHANGED captured

(* The case passes when nothing disagreed and no result was an error.      *)
NoErrors == \A r \in told : r.result \notin {"system_error", "unexpected_contract"}

Functional == pc = "over" /\ correct /\ NoErrors

Next ==
    \/ \E u \in Users :
          \/ Send(u) \/ GiveUp(u) \/ Read(u) \/ Poll(u)
          \/ Hold(u) \/ Claim(u) \/ Confirm(u) \/ Reserve(u) \/ Login(u) \/ Pay(u) \/ Settle(u) \/ Dies(u)
    \/ Lapse \/ Capture \/ Orders \/ Checkouts \/ Probes

Spec == Init /\ [][Next]_vars

-----------------------------------------------------------------------------
(* A case that passes was counted exactly: each user was told what the     *)
(* database says of that user, though only numbers were compared, and      *)
(* nothing is under way that would change it (phase14_verify.py,           *)
(* verify_run, and functional of run_phase14.py, finish_case).             *)
CountedIsStored ==
    Functional =>
        /\ \A u \in Users : handling[u] = "none"
        /\ kind \in {"formal", "order"} => Ordered = With({"order", "reservation"}, "business_success")
        /\ kind = "temporary" => With({"hold"}, "business_success") = {captured}
        /\ kind = "payment" =>
              /\ Paid = With({"payment_terminal"}, "business_success")
              /\ \A u \in Users : checkout[u] # "submitting"
        /\ kind = "login" => session = With({"identity"}, "business_success")
=============================================================================
