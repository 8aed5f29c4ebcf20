---------------------------- MODULE CheckoutConfirm ----------------------------
(***************************************************************************)
(* Checkout sessions and their confirmation.                               *)
(*                                                                         *)
(* POST /checkout-sessions/{id}/confirm is a chain of transactions, each   *)
(* of which commits before the next begins: Prepare freezes the selection  *)
(* under an idempotency key; the formal reservation is created under that  *)
(* key by ReservationService; Finalize, Reset or Close then writes the     *)
(* outcome into the checkout row.  Between two of them anything may        *)
(* happen: another confirm of the same checkout, a GET that reconciles     *)
(* it, other buyers, the end of the sales, the death of the process.       *)
(*                                                                         *)
(* Every transaction on a checkout row locks it first, so each is one      *)
(* step here.  A step that fails, or whose commit is lost, leaves the      *)
(* handler in Die; one whose commit arrived although the handler was told  *)
(* otherwise is that step followed by Die.                                 *)
(*                                                                         *)
(* A formal reservation is named by the key it was created under.          *)
(***************************************************************************)
EXTENDS Naturals, FiniteSets

CONSTANTS
    Seats,
    Checkouts,        \* ids of checkout sessions of one session
    Keys,             \* CHK-CONFIRM-... keys, a bound on the confirmations
    Requests,         \* POST confirm requests, a bound on the handlers
    NoKey, NoCheckout,
    Other             \* the buyers of other seats and of other channels

ASSUME KeyNames == NoKey \notin Keys /\ Other \notin Keys /\ Other # NoKey
ASSUME CheckoutNames == NoCheckout \notin Checkouts

VARIABLES
    status,           \* checkout_sessions.status ("NONE": no row)
    key,              \* checkout_sessions.active_confirm_idempotency_key
    reservation,      \* checkout_sessions.reservation_id
    selected,         \* checkout_session_seats
    formal,           \* the seats of the reservation created under a key
    seatOf,           \* who has the seat: nobody, a formal reservation, another buyer
    ended,            \* the sales window is over
    seatsReturn,      \* whether orders are ever closed and free their seats again
    req               \* the confirm handlers

rowVars == <<status, key, reservation>>
vars == <<rowVars, selected, formal, seatOf, ended, seatsReturn, req>>

\* Where a handler is: the transaction it runs next, or the answer it gave.
Steps   == {"lookup", "insert", "reserve", "finalize", "reset", "close"}
Answers == {"confirmed", "refused", "unknown"}
Handlers == [at : Steps \cup Answers \cup {"idle"}, checkout : Checkouts \cup {NoCheckout},
             key : Keys \cup {NoKey}, seats : SUBSET Seats]

Idle == [at |-> "idle", checkout |-> NoCheckout, key |-> NoKey, seats |-> {}]

Init ==
    /\ status = [c \in Checkouts |-> "NONE"]
    /\ key = [c \in Checkouts |-> NoKey]
    /\ reservation = [c \in Checkouts |-> NoKey]
    /\ selected = [c \in Checkouts |-> {}]
    /\ formal = [k \in Keys |-> {}]
    /\ seatOf = [s \in Seats |-> NoKey]
    /\ ended = FALSE
    /\ seatsReturn \in BOOLEAN
    /\ req = [r \in Requests |-> Idle]

Go(r, at) == req' = [req EXCEPT ![r].at = at]

\* The UPDATE statements on the checkout row.
SetRow(c, st, k, res) ==
    /\ status' = [status EXCEPT ![c] = st]
    /\ key' = [key EXCEPT ![c] = k]
    /\ reservation' = [reservation EXCEPT ![c] = res]

-----------------------------------------------------------------------------
(* The rest of the world.                                                  *)

SalesEnd ==
    /\ ~ended
    /\ ended' = TRUE
    /\ UNCHANGED <<rowVars, selected, formal, seatOf, req>>

OtherBuys(s) ==
    /\ ~ended /\ seatOf[s] = NoKey
    /\ seatOf' = [seatOf EXCEPT ![s] = Other]
    /\ UNCHANGED <<rowVars, selected, formal, ended, req>>

\* The order of a formal reservation, or of another buyer, is cancelled, expires
\* or is refunded, and all its seats are AVAILABLE again.
OrderCloses(b) ==
    /\ seatsReturn
    /\ \E s \in Seats : seatOf[s] = b
    /\ seatOf' = [s \in Seats |-> IF seatOf[s] = b THEN NoKey ELSE seatOf[s]]
    /\ UNCHANGED <<rowVars, selected, formal, ended, req>>

-----------------------------------------------------------------------------
(* Selecting seats.                                                        *)

Create(c, S) ==
    /\ status[c] = "NONE" /\ S # {} /\ ~ended
    /\ SetRow(c, "SELECTING", NoKey, NoKey)
    /\ selected' = [selected EXCEPT ![c] = S]
    /\ UNCHANGED <<formal, seatOf, ended, req>>

\* PUT .../seats.  Only an empty selection needs no open sales window.
Mutant_ReplaceWhileOpen(c, S) ==
    /\ status[c] \in {"SELECTING", "SUBMITTING"} /\ (S # {} => ~ended)
    /\ selected' = [selected EXCEPT ![c] = S]
    /\ UNCHANGED <<rowVars, formal, seatOf, ended, req>>

Replace(c, S) ==
    /\ status[c] = "SELECTING" /\ (S # {} => ~ended)
    /\ selected' = [selected EXCEPT ![c] = S]
    /\ UNCHANGED <<rowVars, formal, seatOf, ended, req>>

Abandon(c) ==
    /\ status[c] = "SELECTING"
    /\ SetRow(c, "ABANDONED", NoKey, NoKey)
    /\ UNCHANGED <<selected, formal, seatOf, ended, req>>

-----------------------------------------------------------------------------
(* Transaction A of confirm: prepareConfirm ... confirmPrepareCommit.      *)

Handle(r, c, k, at) ==
    req' = [req EXCEPT ![r] = [at |-> at, checkout |-> c, key |-> k, seats |-> selected[c]]]

\* A new confirmation freezes the selection under a new key.
Freeze(r, c, k) ==
    /\ req[r].at = "idle"
    /\ status[c] = "SELECTING" /\ selected[c] # {} /\ ~ended
    /\ \A q \in Requests : req[q].key # k
    /\ SetRow(c, "SUBMITTING", k, NoKey)
    /\ Handle(r, c, k, "lookup")
    /\ UNCHANGED <<selected, formal, seatOf, ended>>

\* The confirmation goes on under the key it has.
Reuse(r, c) ==
    /\ req[r].at = "idle"
    /\ status[c] = "SUBMITTING"
    /\ Handle(r, c, key[c], "lookup")
    /\ UNCHANGED <<rowVars, selected, formal, seatOf, ended>>

\* ALREADY_CONFIRMED, if resolveRecord finds the reservation.
AnswerReserved(r, c) ==
    /\ req[r].at = "idle"
    /\ status[c] = "RESERVED"
    /\ Handle(r, c, key[c], IF formal[key[c]] # {} /\ reservation[c] = key[c]
                            THEN "confirmed" ELSE "unknown")
    /\ UNCHANGED <<rowVars, selected, formal, seatOf, ended>>

\* closeSelectingAfterSalesWindow
CloseSelecting(r, c) ==
    /\ req[r].at = "idle"
    /\ status[c] = "SELECTING" /\ selected[c] # {} /\ ended
    /\ SetRow(c, "ABANDONED", NoKey, NoKey)
    /\ Handle(r, c, NoKey, "refused")
    /\ UNCHANGED <<selected, formal, seatOf, ended>>

-----------------------------------------------------------------------------
(* The formal reservation: ReservationService with the handler's key.      *)

Created(k) == formal[k] # {}

\* queryExisting: a complete reservation under the key is replayed.
Lookup(r) ==
    /\ req[r].at = "lookup"
    /\ Go(r, IF Created(req[r].key) THEN "finalize" ELSE "insert")
    /\ UNCHANGED <<rowVars, selected, formal, seatOf, ended>>

\* INSERT ... ON CONFLICT DO NOTHING waits for the other transaction that has
\* inserted the same key.
KeyIsFree(r) ==
    \A q \in Requests : req[q].at = "reserve" => req[q].key # req[r].key

\* arbitrateIdempotency.  The gate read before the insert refuses no request that
\* the final gate would accept, so Reserve stands for both.
InsertKey(r) ==
    /\ req[r].at = "insert" /\ KeyIsFree(r)
    /\ Go(r, IF Created(req[r].key) THEN "finalize" ELSE "reserve")
    /\ UNCHANGED <<rowVars, selected, formal, seatOf, ended>>

\* lockSeats, checkFinalGate, the inserts and the commit.
Reserve(r) ==
    /\ req[r].at = "reserve"
    /\ ~ended /\ \A s \in req[r].seats : seatOf[s] = NoKey
    /\ formal' = [formal EXCEPT ![req[r].key] = req[r].seats]
    /\ seatOf' = [s \in Seats |-> IF s \in req[r].seats THEN req[r].key ELSE seatOf[s]]
    /\ Go(r, "finalize")
    /\ UNCHANGED <<rowVars, selected, ended>>

\* The business failures: the transaction is rolled back, which also takes the
\* inserted key away.
Refuse(r) ==
    /\ req[r].at = "reserve"
    /\ \/ (\E s \in req[r].seats : seatOf[s] # NoKey) /\ Go(r, "reset")
       \/ ended /\ Go(r, "close")
    /\ UNCHANGED <<rowVars, selected, formal, seatOf, ended>>

-----------------------------------------------------------------------------
(* The outcome is written into the checkout row, which is locked and read  *)
(* anew.                                                                   *)

Mutant_AnySubmitting(r) == status[req[r].checkout] = "SUBMITTING"

\* The checkout is still in the confirmation this handler works for.
StillOurs(r) ==
    /\ status[req[r].checkout] = "SUBMITTING"
    /\ key[req[r].checkout] = req[r].key

ReservedByUs(r) ==
    /\ status[req[r].checkout] = "RESERVED"
    /\ reservation[req[r].checkout] = req[r].key

Finalize(r) ==
    /\ req[r].at = "finalize"
    /\ \/ StillOurs(r) /\ SetRow(req[r].checkout, "RESERVED", req[r].key, req[r].key)
                       /\ Go(r, "confirmed")
       \/ ReservedByUs(r) /\ Go(r, "confirmed") /\ UNCHANGED rowVars
       \/ ~StillOurs(r) /\ ~ReservedByUs(r) /\ Go(r, "unknown") /\ UNCHANGED rowVars
    /\ UNCHANGED <<selected, formal, seatOf, ended>>

ReopenRow(c) == SetRow(c, "SELECTING", NoKey, NoKey)

\* resetAfterBusinessFailure
Reset(r) ==
    /\ req[r].at = "reset"
    /\ LET c == req[r].checkout IN
        \/ status[c] = "SELECTING" /\ Go(r, "refused") /\ UNCHANGED rowVars
        \/ StillOurs(r) /\ ReopenRow(c) /\ Go(r, "refused")
        \/ status[c] # "SELECTING" /\ ~StillOurs(r) /\ Go(r, "unknown") /\ UNCHANGED rowVars
    /\ UNCHANGED <<selected, formal, seatOf, ended>>

\* closeSubmittingAfterSalesWindow
Close(r) ==
    /\ req[r].at = "close"
    /\ LET c == req[r].checkout IN
        \/ status[c] = "RESERVED" /\ UNCHANGED rowVars
           /\ Go(r, IF reservation[c] = key[c] /\ Created(key[c]) THEN "confirmed" ELSE "unknown")
        \/ status[c] = "ABANDONED" /\ Go(r, "refused") /\ UNCHANGED rowVars
        \/ StillOurs(r) /\ SetRow(c, "ABANDONED", NoKey, NoKey) /\ Go(r, "refused")
        \/ status[c] \notin {"RESERVED", "ABANDONED"} /\ ~StillOurs(r)
           /\ Go(r, "unknown") /\ UNCHANGED rowVars
    /\ UNCHANGED <<selected, formal, seatOf, ended>>

Mutant_ResetOnError(r) ==
    /\ req[r].at \in {"reserve", "finalize"}
    /\ Go(r, "reset")
    /\ UNCHANGED <<rowVars, selected, formal, seatOf, ended>>

\* A crash, a lost connection or an SQL error: the client learns nothing and the
\* open transaction, with the key it inserted, is rolled back.
Die(r) ==
    /\ req[r].at \in Steps
    /\ Go(r, "unknown")
    /\ UNCHANGED <<rowVars, selected, formal, seatOf, ended>>

\* GET of a SUBMITTING checkout, and the batch after a restart: the reservation
\* found under the key is written, if the locked row still has that key.
Reconcile(c) ==
    /\ status[c] = "SUBMITTING" /\ Created(key[c])
    /\ SetRow(c, "RESERVED", key[c], key[c])
    /\ UNCHANGED <<selected, formal, seatOf, ended, req>>

-----------------------------------------------------------------------------
World == SalesEnd \/ (\E s \in Seats : OtherBuys(s)) \/ (\E b \in Keys \cup {Other} : OrderCloses(b))

Selecting ==
    \E c \in Checkouts :
        Abandon(c) \/ \E S \in SUBSET Seats : Create(c, S) \/ Replace(c, S)

PrepareConfirm(r) ==
    \E c \in Checkouts :
        \/ \E k \in Keys : Freeze(r, c, k)
        \/ Reuse(r, c) \/ AnswerReserved(r, c) \/ CloseSelecting(r, c)

Handler(r) ==
    \/ PrepareConfirm(r) \/ Lookup(r) \/ InsertKey(r) \/ Reserve(r) \/ Refuse(r)
    \/ Finalize(r) \/ Reset(r) \/ Close(r) \/ Die(r)

Next ==
    \/ World
    \/ Selecting
    \/ \E r \in Requests : Handler(r)
    \/ \E c \in Checkouts : Reconcile(c)

Spec == Init /\ [][Next /\ UNCHANGED seatsReturn]_vars

-----------------------------------------------------------------------------
(* Properties.                                                             *)

\* The types, and the constraint checkout_sessions_state_shape_check.
TypeOK ==
    /\ status \in [Checkouts -> {"NONE", "SELECTING", "SUBMITTING", "RESERVED", "ABANDONED"}]
    /\ key \in [Checkouts -> Keys \cup {NoKey}]
    /\ reservation \in [Checkouts -> Keys \cup {NoKey}]
    /\ selected \in [Checkouts -> SUBSET Seats]
    /\ formal \in [Keys -> SUBSET Seats]
    /\ seatOf \in [Seats -> Keys \cup {NoKey, Other}]
    /\ ended \in BOOLEAN /\ seatsReturn \in BOOLEAN
    /\ req \in [Requests -> Handlers]
    /\ \A c \in Checkouts :
        /\ key[c] # NoKey <=> status[c] \in {"SUBMITTING", "RESERVED"}
        /\ reservation[c] # NoKey <=> status[c] = "RESERVED"

KeysOf(c) == {req[r].key : r \in {q \in Requests : req[q].checkout = c}}

\* The reservation of a checkout that was answered as confirmed is its own, and was
\* created for exactly the seats the customer selected.
AnswerIsTrue(r) ==
    LET c == req[r].checkout IN
    /\ status[c] = "RESERVED"
    /\ Created(reservation[c]) /\ formal[reservation[c]] = selected[c]

\* Two handlers that use one key use it for the same seats, whenever they read them.
SameRequest(r, q) ==
    /\ req[r].checkout = req[q].checkout /\ req[r].seats = req[q].seats
    /\ formal[req[r].key] \in {{}, req[r].seats}

\* A handler never reports the success of another confirmation and nobody changes the
\* frozen selection: confirmed answers are true, and as a key stands for one request,
\* confirm never runs into IDEMPOTENCY_CONFLICT.
ConfirmedIsTrue ==
    /\ \A r \in Requests : req[r].at = "confirmed" => AnswerIsTrue(r)
    /\ \A r, q \in Requests :
          req[r].key # NoKey /\ req[r].key = req[q].key => SameRequest(r, q)

\* A reservation is created once under its key, although two handlers may hold it.
CreatedOnce ==
    [][\A k \in Keys : Created(k) =>
          /\ formal'[k] = formal[k]
          /\ \A s \in Seats : seatOf'[s] = k => seatOf[s] = k]_vars

\* RESERVED and ABANDONED are final for the late steps of other handlers too, and a
\* confirmation is withdrawn only by a handler that worked for it and saw its
\* reservation refused.
OutcomesAreFinal ==
    [][\A c \in Checkouts :
          /\ status[c] \in {"RESERVED", "ABANDONED"} =>
                status'[c] = status[c] /\ reservation'[c] = reservation[c]
          /\ status[c] = "SUBMITTING" /\ status'[c] \in {"SELECTING", "ABANDONED"} =>
                \E r \in Requests : /\ req[r].at \in {"reset", "close"}
                                    /\ req[r].key = key[c]]_vars

\* A formal reservation is never lost to its checkout: the checkout still confirms
\* it or is RESERVED with it, and so it never gets a second one.
FormalResultIsNeverLost ==
    \A c \in Checkouts : \A k \in KeysOf(c) \ {NoKey} : Created(k) => key[c] = k

\* That is so while no taken seat comes back: then every handler that has the key
\* is refused, or none is, and a business failure means that nothing was created
\* under the key, so that the customer may try again without buying twice.
FormalResultIsKept ==
    ~seatsReturn =>
        /\ FormalResultIsNeverLost
        /\ \A r \in Requests : req[r].at = "refused" /\ req[r].key # NoKey => ~Created(req[r].key)
=============================================================================
