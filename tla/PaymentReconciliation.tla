----------------------- MODULE PaymentReconciliation -----------------------
(***************************************************************************)
(* How payment attempts and refunds learn what the payment channel says.   *)
(*                                                                         *)
(* PaymentReconciliationWorker runs rounds in every backend process.  A    *)
(* round hands the pending webhook events to the rows they are about,      *)
(* claims the attempts and the refunds that are due under a lease of 30    *)
(* seconds, asks the channel about each and records the answers under its  *)
(* lease token.  The handlers of POST pay ask the same questions without a *)
(* lease.  Processes die, calls fail after the channel has acted, webhooks *)
(* are lost, repeated and late, and a round may outlive its leases.        *)
(*                                                                         *)
(* What an answer does to the order and to its seats is TicketOrders; here *)
(* a row is open (PROCESSING, TIMED_OUT) or has its final status.  Clock   *)
(* comparisons are steps: a schedule falls due, a lease runs out.          *)
(***************************************************************************)
EXTENDS Naturals, FiniteSets, Sequences

CONSTANTS Attempts,      \* payment attempts of a provider with webhooks
          Workers,       \* backend processes running the worker, one round at a time
          Foreign,       \* objects of the same Stripe account this database does not know
          NoToken,       \* the absent, and for POST pay the empty, lease token
          BatchSize,     \* LIMIT of every claim
          MaxOnline,     \* bound on the calls of POST pay handlers
          MaxEvents      \* bound on the webhook events of one object

ASSUME TokensAssumption == NoToken \notin Workers
ASSUME BoundsAssumption == BatchSize \in Nat \ {0} /\ MaxOnline \in Nat /\ MaxEvents \in Nat

Payments == {"PAYMENT"} \X Attempts
Refunds == {"REFUND"} \X Attempts
Objects == Payments \cup Refunds

\* The attempt that a refund returns, and the refund of an attempt.
PaymentOf(o) == <<"PAYMENT", o[2]>>
RefundOf(o) == <<"REFUND", o[2]>>

Final == {"SUCCEEDED", "FAILED"}

\* A row of payment_attempts or refunds: its status, whether the id of its
\* channel object is stored, next_reconcile_at and the lease.
Row == [status : {"none", "open"} \cup Final,
        id : BOOLEAN,
        next : {"none", "later", "due"},
        holder : Workers \cup {NoToken},
        over : BOOLEAN]

NoRow == [status |-> "none", id |-> FALSE, next |-> "none", holder |-> NoToken, over |-> FALSE]
NewRow == [NoRow EXCEPT !.status = "open", !.next = "due"]

\* A webhook event: only its id and the object it is about are ever used.
Event == [obj : Objects \cup Foreign, nr : 1 .. MaxEvents]

\* A question to the channel: who asks, about what, and the answer so far.
Call == [by : Workers \cup {NoToken},
         obj : Objects,
         answer : {"waiting", "open", "retry", "blocked"} \cup Final]

VARIABLES rows,        \* the local rows
          channel,     \* the payment objects at the channel
          events,      \* payment_provider_events by received_at
          handedOff,   \* those in status PROCESSED; the others are PENDING
          round,       \* per process, what its round does next
          calls,       \* questions under way, of rounds and of handlers
          online       \* calls handlers have made, bounded by MaxOnline

vars == <<rows, channel, events, handedOff, round, calls, online>>

Pending == {events[i] : i \in 1 .. Len(events)} \ handedOff

TypeOK ==
    /\ rows \in [Objects -> Row]
    /\ channel \in [Objects -> {"absent", "open"} \cup Final]
    /\ events \in Seq(Event)
    /\ handedOff \subseteq Event
    /\ round \in [Workers -> {"idle", "payments", "refunds", "calls"}]
    /\ calls \subseteq Call
    /\ online \in 0 .. MaxOnline

Init ==
    /\ rows = [o \in Objects |-> NoRow]
    /\ channel = [o \in Objects |-> "absent"]
    /\ events = << >>
    /\ handedOff = {}
    /\ round = [w \in Workers |-> "idle"]
    /\ calls = {}
    /\ online = 0

-----------------------------------------------------------------------------
(* POST pay: the attempt is committed before the channel is asked.         *)

Open(o) == rows[o].status = "open"

CreateAttempt(o) ==
    /\ o \in Payments
    /\ rows[o].status = "none"
    /\ rows' = [rows EXCEPT ![o] = NewRow]
    /\ UNCHANGED <<channel, events, handedOff, round, calls, online>>

\* The handler that created the attempt, or a repeated POST pay that found it.
StartProvider(o) ==
    /\ o \in Payments
    /\ Open(o)
    /\ online < MaxOnline
    /\ online' = online + 1
    /\ calls' = calls \cup {[by |-> NoToken, obj |-> o, answer |-> "waiting"]}
    /\ UNCHANGED <<rows, channel, events, handedOff, round>>

\* The buyer asks for the refund of an accepted payment.
RequestRefund(o) ==
    /\ o \in Refunds
    /\ rows[o].status = "none"
    /\ rows[PaymentOf(o)].status = "SUCCEEDED"
    /\ rows' = [rows EXCEPT ![o] = NewRow]
    /\ UNCHANGED <<channel, events, handedOff, round, calls, online>>

-----------------------------------------------------------------------------
(* The channel.                                                            *)

\* Idempotency keys and metadata make creation return the object there is.
Created(o) == [channel EXCEPT ![o] = IF @ = "absent" THEN "open" ELSE @]

\* The customer or the bank decides, for good.  (Of a declined card the provider
\* reports a failure that is not final; orders_decline shows what follows.)
ChannelSettles(o) ==
    /\ channel[o] = "open"
    /\ \E result \in Final : channel' = [channel EXCEPT ![o] = result]
    /\ UNCHANGED <<rows, events, handedOff, round, calls, online>>

Answered(c, answer) == (calls \ {c}) \cup {[c EXCEPT !.answer = answer]}

ChannelAnswers(c) ==
    /\ c.answer = "waiting"
    /\ channel' = Created(c.obj)
    /\ calls' = Answered(c, channel'[c.obj])
    /\ UNCHANGED <<rows, events, handedOff, round, online>>

Mutant_CallFailsForGood(c) ==
    /\ c.answer = "waiting"
    /\ channel' \in {channel, Created(c.obj)}
    /\ calls' = Answered(c, "FAILED")
    /\ UNCHANGED <<rows, events, handedOff, round, online>>

\* No usable answer; the channel may have acted nevertheless.  Of refunds,
\* operational failures and identity conflicts are told apart ("blocked").
CallFails(c) ==
    /\ c.answer = "waiting"
    /\ channel' \in {channel, Created(c.obj)}
    /\ \E failure \in {"retry"} \cup (IF c.obj \in Refunds THEN {"blocked"} ELSE {}) :
          calls' = Answered(c, failure)
    /\ UNCHANGED <<rows, events, handedOff, round, online>>

\* A webhook arrives, at any time after the fact; a known event id is ignored.
ReceiveWebhook(e) ==
    /\ e \notin Pending \cup handedOff
    /\ e.obj \in Objects => channel[e.obj] # "absent"
    /\ events' = Append(events, e)
    /\ UNCHANGED <<rows, channel, handedOff, round, calls, online>>

-----------------------------------------------------------------------------
(* A round of the worker.                                                  *)

Mutant_WokenAnyhow(o) == [rows[o] EXCEPT !.id = @ \/ o \in Payments, !.next = "due"]

\* An event moves a schedule, never a lease; a closed row stays unscheduled.
Woken(o) ==
    [rows[o] EXCEPT !.id = @ \/ o \in Payments,
                    !.next = IF Open(o) THEN "due" ELSE "none"]

PendingBefore(j) == {k \in 1 .. j - 1 : events[k] \in Pending}

\* ORDER BY received_at LIMIT: what stays pending is claimed first again.
Batch ==
    {events[i] : i \in {j \in 1 .. Len(events) :
        events[j] \in Pending /\ Cardinality(PendingBefore(j)) < BatchSize}}

\* One statement wakes the rows and marks the events that found one.
ProcessInbox(w) ==
    /\ round[w] = "idle"
    /\ LET found == {e \in Batch : e.obj \in Objects /\ rows[e.obj].status # "none"}
       IN /\ rows' = [o \in Objects |->
                        IF o \in {e.obj : e \in found} THEN Woken(o) ELSE rows[o]]
          /\ handedOff' = handedOff \cup found
    /\ round' = [round EXCEPT ![w] = "payments"]
    /\ UNCHANGED <<channel, events, calls, online>>

Mutant_NeverLeased(o) == rows[o].holder = NoToken
Unleased(o) == rows[o].holder = NoToken \/ rows[o].over

\* A payment that lost its schedule is claimed too.
PaymentIsClaimable(o) == o \in Payments /\ Open(o) /\ Unleased(o) /\ rows[o].next # "later"
RefundIsClaimable(o) == o \in Refunds /\ Open(o) /\ Unleased(o) /\ rows[o].next = "due"

Leased(w, S) ==
    [o \in Objects |-> IF o \in S
                       THEN [rows[o] EXCEPT !.next = "later", !.holder = w, !.over = FALSE]
                       ELSE rows[o]]

Ask(w, S) == calls \cup {[by |-> w, obj |-> o, answer |-> "waiting"] : o \in S}

\* LIMIT and SKIP LOCKED decide which of the claimable rows are taken.
ClaimPayments(w, S) ==
    /\ round[w] = "payments"
    /\ \A o \in S : PaymentIsClaimable(o)
    /\ Cardinality(S) <= BatchSize
    /\ rows' = Leased(w, S)
    /\ calls' = Ask(w, S)
    /\ round' = [round EXCEPT ![w] = "refunds"]
    /\ UNCHANGED <<channel, events, handedOff, online>>

\* A refund whose payment id is unknown is given up without releasing its lease.
ClaimRefunds(w, S) ==
    /\ round[w] = "refunds"
    /\ \A o \in S : RefundIsClaimable(o)
    /\ Cardinality(S) <= BatchSize
    /\ rows' = Leased(w, S)
    /\ calls' = Ask(w, {o \in S : rows[PaymentOf(o)].id})
    /\ round' = [round EXCEPT ![w] = "calls"]
    /\ UNCHANGED <<channel, events, handedOff, online>>

\* A claim that fails ends the round, or leaves it with the payments it has.
ClaimFails(w) ==
    /\ \/ /\ round[w] = "payments"
          /\ round' = [round EXCEPT ![w] = "idle"]
       \/ /\ round[w] = "refunds"
          /\ round' = [round EXCEPT ![w] = "calls"]
    /\ UNCHANGED <<rows, channel, events, handedOff, calls, online>>

EndRound(w) ==
    /\ round[w] = "calls"
    /\ \A c \in calls : c.by # w
    /\ round' = [round EXCEPT ![w] = "idle"]
    /\ UNCHANGED <<rows, channel, events, handedOff, calls, online>>

-----------------------------------------------------------------------------
(* Recording an answer.                                                    *)

Mutant_AnyToken(c) == TRUE

\* The token of a round must still be on the row; a handler has none to show.
TokenMatches(c) == c.by = NoToken \/ rows[c.obj].holder = c.by

MayRecord(c) == Open(c.obj) /\ TokenMatches(c)

Released(row) == [row EXCEPT !.holder = NoToken, !.over = FALSE]

\* A round gives its lease back with its answer; a handler leaves the lease alone.
Returned(c, row) == IF c.by = NoToken THEN row ELSE Released(row)

Finish(c) == calls' = calls \ {c}

RecordOpen(c) ==
    /\ c.answer = "open"
    /\ rows' = IF MayRecord(c)
               THEN [rows EXCEPT ![c.obj] =
                       Returned(c, [@ EXCEPT !.id = TRUE, !.next = "later"])]
               ELSE rows
    /\ Finish(c)
    /\ UNCHANGED <<channel, events, handedOff, round, online>>

Closed(row, status) ==
    Released([row EXCEPT !.status = status, !.id = TRUE, !.next = "none"])

\* completeProviderPayment: a success the order no longer accepts is owed back,
\* in the same transaction.  Which orders do is decided in TicketOrders.
CompletePayment(c) ==
    /\ c.answer \in Final
    /\ c.obj \in Payments
    /\ IF MayRecord(c)
       THEN LET closed == [rows EXCEPT ![c.obj] = Closed(@, c.answer)]
            IN  \/ rows' = closed
                \/ /\ c.answer = "SUCCEEDED"
                   /\ rows' = [closed EXCEPT ![RefundOf(c.obj)] = NewRow]
       ELSE rows' = rows
    /\ Finish(c)
    /\ UNCHANGED <<channel, events, handedOff, round, online>>

CompleteRefund(c) ==
    /\ c.answer \in Final
    /\ c.obj \in Refunds
    /\ rows' = IF MayRecord(c) /\ rows[PaymentOf(c.obj)].id
               THEN [rows EXCEPT ![c.obj] = Closed(@, c.answer)]
               ELSE rows
    /\ Finish(c)
    /\ UNCHANGED <<channel, events, handedOff, round, online>>

\* A handler postpones the attempt; a round keeps the schedule of its claim and
\* gives the lease back, postponing a blocked refund by five minutes.
RecordFailure(c) ==
    /\ c.answer \in {"retry", "blocked"}
    /\ LET postponed == c.by = NoToken \/ c.answer = "blocked"
       IN rows' = IF MayRecord(c)
                  THEN [rows EXCEPT ![c.obj] =
                          Returned(c, IF postponed THEN [@ EXCEPT !.next = "later"] ELSE @)]
                  ELSE rows
    /\ Finish(c)
    /\ UNCHANGED <<channel, events, handedOff, round, online>>

\* The statement or the transaction fails, or the handler dies with its answer.
RecordingFails(c) ==
    /\ c.answer # "waiting"
    /\ Finish(c)
    /\ UNCHANGED <<rows, channel, events, handedOff, round, online>>

-----------------------------------------------------------------------------
(* Time and crashes.                                                       *)

FallsDue(o) ==
    /\ rows[o].next = "later"
    /\ rows' = [rows EXCEPT ![o].next = "due"]
    /\ UNCHANGED <<channel, events, handedOff, round, calls, online>>

LeaseRunsOut(o) ==
    /\ rows[o].holder # NoToken
    /\ ~rows[o].over
    /\ rows' = [rows EXCEPT ![o].over = TRUE]
    /\ UNCHANGED <<channel, events, handedOff, round, calls, online>>

\* The process dies with its round.  Its next round has a token of its own: the
\* name w can stand for it, as no answer to the old one can arrive any more.
Crash(w) ==
    /\ round[w] # "idle"
    /\ round' = [round EXCEPT ![w] = "idle"]
    /\ calls' = {c \in calls : c.by # w}
    /\ UNCHANGED <<rows, channel, events, handedOff, online>>

Record(c) ==
    RecordOpen(c) \/ CompletePayment(c) \/ CompleteRefund(c) \/ RecordFailure(c)

Next ==
    \/ \E o \in Objects : \/ CreateAttempt(o) \/ StartProvider(o) \/ RequestRefund(o)
                          \/ ChannelSettles(o) \/ FallsDue(o) \/ LeaseRunsOut(o)
    \/ \E e \in Event : ReceiveWebhook(e)
    \/ \E w \in Workers : \/ ProcessInbox(w) \/ ClaimFails(w) \/ EndRound(w) \/ Crash(w)
                          \/ \E S \in SUBSET Payments : ClaimPayments(w, S)
                          \/ \E S \in SUBSET Refunds : ClaimRefunds(w, S)
    \/ \E c \in calls : ChannelAnswers(c) \/ CallFails(c) \/ Record(c) \/ RecordingFails(c)

Spec == Init /\ [][Next]_vars

(* Fairness.  Clocks run and every process that is up runs round after     *)
(* round; no call stays unanswered for ever (STRIPE_HTTP_TIMEOUT_SECONDS). *)
(* Claims, answers and transactions may fail and processes may die any     *)
(* number of times, but not always: every due row is claimed, answered     *)
(* within its lease (5 seconds of 30) and recorded now and then.           *)

ClaimOf(w, o) ==
    \/ \E S \in SUBSET Payments : o \in S /\ ClaimPayments(w, S)
    \/ \E S \in SUBSET Refunds : o \in S /\ ClaimRefunds(w, S)

Settle(c) == ChannelAnswers(c) \/ CallFails(c) \/ Record(c) \/ RecordingFails(c)

Holding(c) == c.by # NoToken /\ rows[c.obj].holder = c.by

Fairness ==
    /\ \A w \in Workers :
        /\ WF_vars(ProcessInbox(w))
        /\ WF_vars(ClaimFails(w))
        /\ SF_vars(\E S \in SUBSET Payments : ClaimPayments(w, S))
        /\ WF_vars(EndRound(w))
        /\ \A o \in Objects : WF_vars(\E c \in calls : c.by = w /\ c.obj = o /\ Settle(c))
    /\ \A o \in Objects :
        /\ WF_vars(FallsDue(o))
        /\ WF_vars(LeaseRunsOut(o))
        /\ SF_vars(\E w \in Workers : ClaimOf(w, o))
        /\ SF_vars(\E c \in calls : c.obj = o /\ Holding(c) /\ ChannelAnswers(c))
        /\ SF_vars(\E c \in calls : c.obj = o /\ Holding(c) /\ c.answer \in Final /\ Record(c))

FairSpec == Spec /\ Fairness

-----------------------------------------------------------------------------
(* Properties.                                                             *)

\* A round that has lost its lease changes nothing any more: not the row, not
\* the lease of the round that took over, and it creates no refund.  This is
\* what the token conditions of recordProviderPayment, completeProviderPayment,
\* releaseLease and RefundLifecycleService::lockRefund are for.
StaleRoundsChangeNothing ==
    [][\A c \in calls \ calls' :
          c.by # NoToken /\ rows[c.obj].holder # c.by => rows' = rows]_vars

\* While a lease runs, the row stays with its round until that round has
\* recorded an answer or the row is closed: webhooks, handlers of POST pay and
\* the claims of other processes leave it alone.
LeaseIsRespected ==
    [][\A o \in Objects :
          LET was == rows[o]  is == rows'[o] IN
          was.holder # NoToken /\ ~was.over /\ is.holder # was.holder =>
              \/ is.status \in Final
              \/ \E c \in calls \ calls' : c.obj = o /\ c.by = was.holder]_vars

\* A row that is final never changes again, whatever answers, failures and
\* events about it are still under way.
ClosedRowsStay ==
    [][\A o \in Objects : rows[o].status \in Final => rows'[o] = rows[o]]_vars

\* Work is never forgotten: an open row always has a schedule, so an event that
\* is PROCESSED, a failed call or a dead round leaves it to a later round.  A
\* closed row has neither schedule nor lease.
ScheduledWhileOpen ==
    \A o \in Objects :
        /\ Open(o) => rows[o].next # "none"
        /\ ~Open(o) => rows[o].next = "none" /\ rows[o].holder = NoToken

\* A final status is the one the channel has, never the reading of a time-out
\* or of another failure, and an id is stored only of an object that exists.
AgreesWithChannel ==
    \A o \in Objects :
        /\ rows[o].status \in Final => channel[o] = rows[o].status
        /\ rows[o].id => channel[o] # "absent"

\* Every refund can be sent to the channel: its payment succeeded there and the
\* payment id is stored, so processRefund never gives a refund up.
RefundsCanBeSent ==
    \A o \in Refunds :
        rows[o].status # "none" =>
            rows[PaymentOf(o)].id /\ channel[PaymentOf(o)] = "SUCCEEDED"

\* Every attempt and every refund reaches the channel, even if the process dies
\* between the commit of its row and the first call, and every result of the
\* channel is recorded, with or without its webhook, through failures, crashes
\* and lost leases: an open row waits for nothing but the channel.
ResultsArrive ==
    \A o \in Objects :
        (Open(o) /\ channel[o] # "open") ~> (channel[o] = "open" \/ ~Open(o))

\* Every received event about a row is handed over, as long as fewer events
\* without one than a batch holds are pending: those are claimed first, by
\* received_at, in every round.
EventsAreHandedOff ==
    \A o \in Objects :
        (\E e \in Pending : e.obj = o) ~> (\A e \in Pending : e.obj # o)

\* So nothing that the worker's rounds are there for stays undone: no row before
\* its first call, no result and no event (PaymentReconciliationWorker.cpp).
EverythingIsReconciled == ResultsArrive /\ EventsAreHandedOff
=============================================================================
