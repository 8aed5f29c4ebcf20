------------------------------- MODULE SeatHolds -------------------------------
(***************************************************************************)
(* Temporary seat holds: keys in Redis that a checkout session writes while *)
(* its customer selects seats, kept in step with the selection that         *)
(* PostgreSQL stores.                                                       *)
(*                                                                         *)
(* There is no transaction over both.  A PUT locks the checkout row,        *)
(* prepares the holds, writes and commits the selection, and then cleans    *)
(* up behind the commit, when the row is no longer locked.  A hold carries  *)
(* the revision of the PUT that wrote it, which is to keep a late clean-up  *)
(* from deleting what a newer PUT has taken.                                *)
(*                                                                         *)
(* Every Lua script is one step.  A script whose answer does not arrive     *)
(* has run or never will (Unavailable); one that runs after its caller has  *)
(* given up is not modelled.  Confirmations of one checkout do not overlap  *)
(* here: CheckoutConfirm is about those.                                    *)
(***************************************************************************)
EXTENDS Naturals, FiniteSets

CONSTANTS
    Seats,
    Checkouts,
    Requests,         \* handlers, a bound on the calls
    NoCheckout,
    MaxRevision,      \* a bound on checkout_sessions.revision
    Faults            \* the services that may fail: "redis" calls, "commit" calls

ConstantsAssumption ==
    /\ NoCheckout \notin Checkouts
    /\ MaxRevision \in Nat
    /\ Faults \subseteq {"redis", "commit"}

VARIABLES
    status,           \* checkout_sessions.status ("NONE": no row)
    revision,         \* checkout_sessions.revision
    selected,         \* checkout_session_seats
    hold,             \* the Redis key of a seat: checkoutSessionId|revision
    failing,          \* the services that fail now and then: none, or all of Faults
    secured,          \* the seats Redis has confirmed to a checkout, until it expires them
    req               \* the handlers

rowVars == <<status, revision, selected>>
vars == <<rowVars, hold, failing, secured, req>>

NoHold == [owner |-> NoCheckout, revision |-> 0]
Holds == [owner : Checkouts \cup {NoCheckout}, revision : 0..MaxRevision]

\* The steps during which a handler has the row locked (a checkout being created
\* has no row another handler could lock), and those after its transaction.
LockedSteps == {"prepare", "write", "abort", "ensure", "freeze", "resetRelease", "resetWrite"}
FreeSteps == {"finalize", "abortLate", "formal", "release"}
Handlers == [at : LockedSteps \cup FreeSteps \cup {"idle", "done", "dead"},
             checkout : Checkouts \cup {NoCheckout},
             old : SUBSET Seats, new : SUBSET Seats,
             target : 0..MaxRevision]

Idle == [at |-> "idle", checkout |-> NoCheckout, old |-> {}, new |-> {},
         target |-> 0]

Init ==
    /\ status = [c \in Checkouts |-> "NONE"]
    /\ revision = [c \in Checkouts |-> 0]
    /\ selected = [c \in Checkouts |-> {}]
    /\ hold = [s \in Seats |-> NoHold]
    /\ failing \in {{}, Faults}
    /\ secured = [c \in Checkouts |-> {}]
    /\ req = [r \in Requests |-> Idle]

Locked(c) == \E r \in Requests : req[r].checkout = c /\ req[r].at \in LockedSteps

Go(r, at) == req' = [req EXCEPT ![r].at = at]

Handle(r, at, c, S, target) ==
    /\ req[r] = Idle
    /\ ~Locked(c)
    /\ req' = [req EXCEPT ![r] = [at |-> at, checkout |-> c, old |-> selected[c], new |-> S,
                                  target |-> target]]

-----------------------------------------------------------------------------
(* The scripts of SeatHoldService, for the seats and checkout of a handler. *)

Own(c, S) == {s \in S : hold[s].owner = c}

Free(S) == {s \in S : hold[s] = NoHold}

\* Every key is free or the caller's.
Available(c, S) == S \subseteq Own(c, S) \cup Free(S)

\* Prepare writes the added seats with the new revision and the retained ones, when
\* they have gone, with the old one; a retained hold keeps its revision.
Prepared(r) ==
    LET c == req[r].checkout
        added == req[r].new \ req[r].old
        lost == Free(req[r].new \ added)
    IN  [s \in Seats |->
            CASE s \in added -> [owner |-> c, revision |-> req[r].target]
              [] s \in lost  -> [owner |-> c, revision |-> revision[c]]
              [] OTHER       -> hold[s]]

Ensured(r) ==
    LET c == req[r].checkout IN
    [s \in Seats |-> IF s \in Free(selected[c]) THEN [owner |-> c, revision |-> revision[c]]
                                                ELSE hold[s]]

Without(S) == [s \in Seats |-> IF s \in S THEN NoHold ELSE hold[s]]

Mutant_AbortsBase(r) ==
    {s \in req[r].new \ req[r].old :
        hold[s] = [owner |-> req[r].checkout, revision |-> revision[req[r].checkout]]}

\* Abort deletes exactly what this handler prepared.
Aborts(r) ==
    {s \in req[r].new \ req[r].old :
        hold[s] = [owner |-> req[r].checkout, revision |-> req[r].target]}

Mutant_FinalizesOwner(r) == Own(req[r].checkout, req[r].old \ req[r].new)

\* Finalize deletes what was removed and has not been taken again since.
Finalizes(r) ==
    {s \in Own(req[r].checkout, req[r].old \ req[r].new) : hold[s].revision <= req[r].target}

\* A clean-up script runs; if Redis fails it may not have run.  Nobody looks at its
\* outcome.
CleanUp(S) ==
    \/ hold' = Without(S)
    \/ "redis" \in failing /\ UNCHANGED hold

\* The TTL of a hold runs out.
HoldExpires(s) ==
    /\ hold[s] # NoHold
    /\ hold' = Without({s})
    /\ secured' = [c \in Checkouts |-> secured[c] \ {s}]
    /\ UNCHANGED <<rowVars, req>>

-----------------------------------------------------------------------------
(* POST /checkout-sessions and PUT /checkout-sessions/{id}/seats            *)

BeginCreate(r, c, S) ==
    /\ status[c] = "NONE" /\ S # {}
    /\ Handle(r, "prepare", c, S, 0)
    /\ \A q \in Requests : req[q].checkout # c
    /\ UNCHANGED <<rowVars, hold, secured>>

TargetRevision(c) == revision[c] + 1

\* replaceLock: SELECTING, and the revision the client expects.
BeginReplace(r, c, S) ==
    /\ status[c] = "SELECTING" /\ revision[c] < MaxRevision
    /\ Handle(r, "prepare", c, S, TargetRevision(c))
    /\ UNCHANGED <<rowVars, hold, secured>>

\* What the checkout may rely on: the confirmed seats among S.
Secure(c, S) == secured' = [secured EXCEPT ![c] = @ \cap S]

\* The answer of prepare and ensure: Applied, with the holds as they are then,
\* Conflict or Unavailable.  Only a conflict stops the caller.
Answer(r, holds, next, refused) ==
    LET c == req[r].checkout
        available == Available(c, req[r].new)
    IN  \/ /\ available /\ hold' = holds
           /\ secured' = [secured EXCEPT ![c] = @ \cup req[r].new]
           /\ Go(r, next)
        \/ ~available /\ Go(r, refused) /\ UNCHANGED <<hold, secured>>
        \/ /\ "redis" \in failing
           /\ (available /\ hold' = holds) \/ UNCHANGED hold
           /\ Go(r, next) /\ UNCHANGED secured

Prepare(r) ==
    /\ req[r].at = "prepare"
    /\ Answer(r, Prepared(r), "write", "abort")
    /\ UNCHANGED rowVars

WriteRow(r) ==
    LET c == req[r].checkout IN
    /\ status' = [status EXCEPT ![c] = "SELECTING"]
    /\ revision' = [revision EXCEPT ![c] = req[r].target]
    /\ selected' = [selected EXCEPT ![c] = req[r].new]

\* deleteSeats, insertSeats, advanceSeatRevision and the commit.
Write(r) ==
    /\ req[r].at = "write"
    /\ WriteRow(r)
    /\ Secure(req[r].checkout, req[r].new)
    /\ Go(r, "finalize")
    /\ UNCHANGED hold

\* An SQL error before the commit: failReplace and failCreate abort the holds and
\* roll the transaction back after that.
WriteFails(r) ==
    /\ req[r].at = "write"
    /\ Secure(req[r].checkout, req[r].old)
    /\ Go(r, "abort")
    /\ UNCHANGED <<rowVars, hold>>

\* The commit is reported as failed, whether it took place or not: the same
\* functions abort the holds, but the row is not locked any more.
CommitFails(r) ==
    /\ "commit" \in failing
    /\ req[r].at = "write"
    /\ \/ WriteRow(r) /\ Secure(req[r].checkout, req[r].old \cap req[r].new)
       \/ UNCHANGED rowVars /\ Secure(req[r].checkout, req[r].old)
    /\ Go(r, "abortLate")
    /\ UNCHANGED hold

Abort(r) ==
    /\ req[r].at \in {"abort", "abortLate"}
    /\ CleanUp(Aborts(r))
    /\ Go(r, "done")
    /\ UNCHANGED <<rowVars, secured>>

Finalize(r) ==
    /\ req[r].at = "finalize"
    /\ CleanUp(Finalizes(r))
    /\ Go(r, "done")
    /\ UNCHANGED <<rowVars, secured>>

-----------------------------------------------------------------------------
(* Abandon and confirm, as far as they touch holds.                         *)

\* The row is ABANDONED and committed, and the holds are released after that.
Abandon(r, c) ==
    /\ status[c] = "SELECTING"
    /\ Handle(r, "release", c, {}, revision[c])
    /\ status' = [status EXCEPT ![c] = "ABANDONED"]
    /\ UNCHANGED <<revision, selected, hold, secured>>

BeginConfirm(r, c) ==
    /\ status[c] = "SELECTING" /\ selected[c] # {}
    /\ Handle(r, "ensure", c, selected[c], revision[c])
    /\ \A q \in Requests : req[q].checkout = c => req[q].at # "formal"
    /\ UNCHANGED <<rowVars, hold, secured>>

Ensure(r) ==
    /\ req[r].at = "ensure"
    /\ Answer(r, Ensured(r), "freeze", "done")
    /\ UNCHANGED rowVars

Freeze(r) ==
    /\ req[r].at = "freeze"
    /\ status' = [status EXCEPT ![req[r].checkout] = "SUBMITTING"]
    /\ Go(r, "formal")
    /\ UNCHANGED <<revision, selected, hold, secured>>

\* The formal reservation exists and the checkout is RESERVED.
Reserved(r) ==
    /\ req[r].at = "formal"
    /\ status' = [status EXCEPT ![req[r].checkout] = "RESERVED"]
    /\ Go(r, "release")
    /\ UNCHANGED <<revision, selected, hold, secured>>

\* The formal reservation was refused: the row is locked again.
BeginReset(r) ==
    /\ req[r].at = "formal"
    /\ ~Locked(req[r].checkout)
    /\ Go(r, "resetRelease")
    /\ UNCHANGED <<rowVars, hold, secured>>

\* Release deletes by owner alone, here under the row lock, so that no PUT is newer.
ResetRelease(r) ==
    /\ req[r].at = "resetRelease"
    /\ CleanUp(Own(req[r].checkout, req[r].old))
    /\ Secure(req[r].checkout, {})
    /\ Go(r, "resetWrite")
    /\ UNCHANGED rowVars

ResetWrite(r) ==
    /\ req[r].at = "resetWrite"
    /\ status' = [status EXCEPT ![req[r].checkout] = "SELECTING"]
    /\ Go(r, "done")
    /\ UNCHANGED <<revision, selected, hold, secured>>

Release(r) ==
    /\ req[r].at = "release"
    /\ CleanUp(Own(req[r].checkout, req[r].old))
    /\ Go(r, "done")
    /\ UNCHANGED <<rowVars, secured>>

\* The process dies, and PostgreSQL rolls the handler's transaction back.
Die(r) ==
    /\ req[r].at \in LockedSteps \cup FreeSteps
    /\ Secure(req[r].checkout, selected[req[r].checkout])
    /\ Go(r, "dead")
    /\ UNCHANGED <<rowVars, hold>>

-----------------------------------------------------------------------------
Call(r) ==
    \E c \in Checkouts :
        \/ \E S \in SUBSET Seats : BeginCreate(r, c, S) \/ BeginReplace(r, c, S)
        \/ Abandon(r, c) \/ BeginConfirm(r, c)

Handler(r) ==
    \/ Prepare(r) \/ Write(r) \/ WriteFails(r) \/ CommitFails(r) \/ Abort(r) \/ Finalize(r)
    \/ Ensure(r) \/ Freeze(r) \/ Reserved(r)
    \/ BeginReset(r) \/ ResetRelease(r) \/ ResetWrite(r) \/ Release(r)

Next ==
    \/ \E s \in Seats : HoldExpires(s)
    \/ \E r \in Requests : Call(r) \/ Handler(r) \/ Die(r)

Spec == Init /\ [][Next /\ UNCHANGED failing]_vars

-----------------------------------------------------------------------------
(* Properties.                                                              *)

\* Types; a revision never leaves the range of the PUTs that made it.
TypeOK ==
    /\ status \in [Checkouts -> {"NONE", "SELECTING", "SUBMITTING", "RESERVED", "ABANDONED"}]
    /\ revision \in [Checkouts -> 0..MaxRevision]
    /\ selected \in [Checkouts -> SUBSET Seats]
    /\ hold \in [Seats -> Holds]
    /\ failing \in SUBSET Faults
    /\ secured \in [Checkouts -> SUBSET Seats]
    /\ req \in [Requests -> Handlers]

Open(c) == status[c] \in {"SELECTING", "SUBMITTING"}

\* A seat that Redis has confirmed to a checkout, and that the checkout has kept
\* selected since, is held by it until the TTL runs out.
ConfirmedHoldsStay ==
    \A c \in Checkouts : Open(c) => \A s \in secured[c] : hold[s].owner = c

\* That is so while the services answer: no late clean-up of an older PUT, of a
\* conflicting one or of a refused confirmation takes a confirmed hold away.
SecuredSeatsStayHeld == failing = {} => ConfirmedHoldsStay

\* Holds do not leak, while the services answer: a seat is held for a checkout that
\* has it selected, or while a handler of it is at work on the seat or has died over it.
NoLeakedHold ==
    failing = {} =>
        \A s \in Seats, c \in Checkouts : hold[s].owner = c =>
            \/ Open(c) /\ s \in selected[c]
            \/ \E r \in Requests : /\ req[r].checkout = c /\ req[r].at \notin {"idle", "done"}
                                   /\ s \in req[r].old \cup req[r].new

\* Whatever fails, no handler touches a hold of another checkout: only the TTL and
\* the owner's own handlers change it.
ForeignHoldsAreSafe ==
    [][\A s \in Seats : hold[s] # NoHold /\ hold'[s] # hold[s] /\ req' # req =>
          \E r \in Requests : req'[r] # req[r] /\ req[r].checkout = hold[s].owner]_vars
=============================================================================
