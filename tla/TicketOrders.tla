---------------------------- MODULE TicketOrders ----------------------------
(***************************************************************************)
(* Seats, reservations, orders, payment attempts and refunds: the rows of *)
(* the PostgreSQL database that the backend's transactions change, and    *)
(* the payment channel they react to.                                      *)
(*                                                                         *)
(* Every lifecycle transaction locks its order row first and keeps it to  *)
(* the end, so a transaction is two steps here: Begin takes the row lock  *)
(* and reads the clock against orders.expires_at; a Commit action makes   *)
(* all the writes visible.  Time, the payment channel and statements that *)
(* touch no order row go on in between.  An open transaction may also end *)
(* without a trace: an early return, an SQL error, a lost commit or the   *)
(* death of the process.                                                   *)
(*                                                                         *)
(* A reservation and its order are inserted by one transaction and never  *)
(* separated, so both are named by the order.                              *)
(***************************************************************************)
EXTENDS Naturals, FiniteSets

CONSTANTS
    Seats,            \* session_seats of one session
    Orders,           \* ids of orders, and of the reservation each belongs to
    Attempts,         \* ids of payment attempts
    NoOrder, NoAttempt,
    DeclineIsFinal    \* FALSE: a declined card may be retried on the same intent

ASSUME OrderIds == NoOrder \notin Orders
ASSUME AttemptIds == NoAttempt \notin Attempts
ASSUME DeclineSwitch == DeclineIsFinal \in BOOLEAN

VARIABLES
    seatStatus,       \* session_seats.status
    seatHolder,       \* session_seats.current_reservation_id
    items,            \* reservation_session_seats
    reservation,      \* reservations.status ("NONE": no row)
    order,            \* orders.status ("NONE": no row)
    refunded,         \* orders.refunded_at is set
    expired,          \* clock_timestamp() >= orders.expires_at
    started,          \* clock_timestamp() >= sessions.start_time, which also ends the sales
    attempt,          \* payment_attempts.status ("NONE": no row)
    orderOf,          \* payment_attempts.order_id
    inTime,           \* payment_attempts.started_at < orders.expires_at
    late,             \* clock_timestamp() >= payment_attempts.processing_deadline
    accepted,         \* payment_attempts.accepted_at is set
    refund,           \* refunds.status of the attempt's refund ("NONE": no row)
    source,           \* refunds.source
    channel,          \* the channel's payment object of the attempt
    refundChannel,    \* the channel's refund object of the attempt
    tx                \* the open transaction that holds the order's row lock

seatVars    == <<seatStatus, seatHolder, items>>
orderVars   == <<reservation, order, refunded>>
attemptVars == <<attempt, orderOf, inTime, accepted>>
refundVars  == <<refund, source>>
clockVars   == <<expired, late, started>>
channelVars == <<channel, refundChannel>>
vars == <<seatVars, orderVars, attemptVars, refundVars, clockVars, channelVars, tx>>

SeatStates    == {"AVAILABLE", "HELD", "SOLD"}
OrderStates   == {"NONE", "PENDING_PAYMENT", "PAID", "CANCELLED", "EXPIRED"}
ReservationStates == {"NONE", "ACTIVE", "CONFIRMED", "CANCELLED", "EXPIRED"}
AttemptStates == {"NONE", "PROCESSING", "TIMED_OUT", "SUCCEEDED", "FAILED"}
RefundStates  == {"NONE", "PROCESSING", "SUCCEEDED", "FAILED"}
TxKinds == {"none", "pay", "cancel", "expire", "callback", "ask", "refund"}
Txs == [kind : TxKinds, expired : BOOLEAN, attempt : Attempts \cup {NoAttempt}, ok : BOOLEAN]

NoTx == [kind |-> "none", expired |-> FALSE, attempt |-> NoAttempt, ok |-> FALSE]

Init ==
    /\ seatStatus = [s \in Seats |-> "AVAILABLE"]
    /\ seatHolder = [s \in Seats |-> NoOrder]
    /\ items = [o \in Orders |-> {}]
    /\ reservation = [o \in Orders |-> "NONE"]
    /\ order = [o \in Orders |-> "NONE"]
    /\ refunded = [o \in Orders |-> FALSE]
    /\ expired = [o \in Orders |-> FALSE]
    /\ started = FALSE
    /\ attempt = [a \in Attempts |-> "NONE"]
    /\ orderOf = [a \in Attempts |-> NoOrder]
    /\ inTime = [a \in Attempts |-> FALSE]
    /\ late = [a \in Attempts |-> FALSE]
    /\ accepted = [a \in Attempts |-> FALSE]
    /\ refund = [a \in Attempts |-> "NONE"]
    /\ source = [a \in Attempts |-> "NONE"]
    /\ channel = [a \in Attempts |-> "NONE"]
    /\ refundChannel = [a \in Attempts |-> "NONE"]
    /\ tx = [o \in Orders |-> NoTx]

-----------------------------------------------------------------------------
(* Time.                                                                   *)

\* The payment period of an order runs out.  Nobody looks at it once the order is
\* no longer pending.
OrderExpires(o) ==
    /\ order[o] = "PENDING_PAYMENT" /\ ~expired[o]
    /\ expired' = [expired EXCEPT ![o] = TRUE]
    /\ UNCHANGED <<seatVars, orderVars, attemptVars, refundVars, late, started, channelVars, tx>>

\* The grace period of a payment attempt runs out.
GraceEnds(a) ==
    /\ attempt[a] \in {"PROCESSING", "TIMED_OUT"} /\ ~late[a]
    /\ late' = [late EXCEPT ![a] = TRUE]
    /\ UNCHANGED <<seatVars, orderVars, attemptVars, refundVars, expired, started, channelVars, tx>>

\* The session starts.  Sales that end earlier only take reservations away.
SessionStarts ==
    /\ ~started
    /\ started' = TRUE
    /\ UNCHANGED <<seatVars, orderVars, attemptVars, refundVars, expired, late, channelVars, tx>>

-----------------------------------------------------------------------------
(* The payment channel.                                                    *)

\* startProvider or the reconciliation worker creates the payment object, under
\* the attempt's idempotency key, after the attempt has been committed.
OpenPayment(a) ==
    /\ attempt[a] \in {"PROCESSING", "TIMED_OUT"} /\ channel[a] = "NONE"
    /\ channel' = [channel EXCEPT ![a] = "open"]
    /\ UNCHANGED <<seatVars, orderVars, attemptVars, refundVars, clockVars, refundChannel, tx>>

\* The customer's card is charged or declined.
CustomerPays(a) ==
    /\ \/ channel[a] = "open"
       \/ channel[a] = "declined" /\ ~DeclineIsFinal
    /\ \E r \in {"succeeded", "declined"} : channel' = [channel EXCEPT ![a] = r]
    /\ UNCHANGED <<seatVars, orderVars, attemptVars, refundVars, clockVars, refundChannel, tx>>

\* The channel carries out, or refuses, a refund the backend has recorded.
ChannelRefunds(a) ==
    /\ refund[a] = "PROCESSING" /\ refundChannel[a] = "NONE"
    /\ \E r \in {"succeeded", "failed"} : refundChannel' = [refundChannel EXCEPT ![a] = r]
    /\ UNCHANGED <<seatVars, orderVars, attemptVars, refundVars, clockVars, channel, tx>>

-----------------------------------------------------------------------------
(* Creating the reservation and its order.                                 *)

\* arbitrateIdempotency: INSERT ... ON CONFLICT DO NOTHING; a key that has a
\* reservation never writes again.
Mutant_FreshOrExpired(o) == order[o] \in {"NONE", "EXPIRED"}
Mutant_FreshUnlessPending(o) == order[o] # "PENDING_PAYMENT"
Fresh(o) == order[o] = "NONE"

\* lockSeats: the statuses are read after the row locks.
Mutant_SomeOnSale(S) == \E s \in S : seatStatus[s] = "AVAILABLE"
OnSale(S) == \A s \in S : seatStatus[s] = "AVAILABLE"

\* The seat locks, the final gate and the inserts of one transaction: every seat
\* of the request must be AVAILABLE and the sales window open after the locks.
CreateReservation(o, S) ==
    /\ Fresh(o) /\ S # {} /\ OnSale(S) /\ ~started
    /\ seatStatus' = [s \in Seats |-> IF s \in S THEN "HELD" ELSE seatStatus[s]]
    /\ seatHolder' = [s \in Seats |-> IF s \in S THEN o ELSE seatHolder[s]]
    /\ items' = [items EXCEPT ![o] = S]
    /\ reservation' = [reservation EXCEPT ![o] = "ACTIVE"]
    /\ order' = [order EXCEPT ![o] = "PENDING_PAYMENT"]
    /\ UNCHANGED <<refunded, attemptVars, refundVars, clockVars, channelVars, tx>>

-----------------------------------------------------------------------------
(* Taking the order's row lock.  The expiry worker takes only rows nobody  *)
(* has locked (SKIP LOCKED); the others wait until the lock is free.  The  *)
(* locked row is inspected at once; a transaction it gives nothing to do   *)
(* ends there and is not a step.                                           *)

Begin(o, kind, a, ok) ==
    /\ tx[o] = NoTx
    /\ tx' = [tx EXCEPT ![o] =
                 [kind |-> kind, expired |-> expired[o], attempt |-> a, ok |-> ok]]
    /\ UNCHANGED <<seatVars, orderVars, attemptVars, refundVars, clockVars, channelVars>>

Pending(o) == order[o] = "PENDING_PAYMENT"

BeginPay(o)    == Pending(o) /\ Begin(o, "pay", NoAttempt, FALSE)
BeginCancel(o) == Pending(o) /\ Begin(o, "cancel", NoAttempt, FALSE)
BeginAsk(o)    == order[o] = "PAID" /\ Begin(o, "ask", NoAttempt, FALSE)

\* findExpiredCandidateIds, then lockOrderForExpiry.
BeginExpire(o) == Pending(o) /\ expired[o] /\ Begin(o, "expire", NoAttempt, FALSE)

Mutant_CompletableInGrace(a) == attempt[a] = "PROCESSING"
Completable(a) == attempt[a] \in {"PROCESSING", "TIMED_OUT"}

\* A terminal answer of the channel, by timer, by POST /pay or by the worker; it
\* may be delivered any number of times.
BeginCallback(a) ==
    /\ Completable(a) /\ channel[a] \in {"succeeded", "declined"}
    /\ Begin(orderOf[a], "callback", a, channel[a] = "succeeded")

BeginRefund(a) ==
    /\ refund[a] = "PROCESSING" /\ refundChannel[a] # "NONE"
    /\ Begin(orderOf[a], "refund", a, refundChannel[a] = "succeeded")

\* The transaction ends and leaves nothing behind.
Rollback(o) ==
    /\ tx[o] # NoTx
    /\ tx' = [tx EXCEPT ![o] = NoTx]
    /\ UNCHANGED <<seatVars, orderVars, attemptVars, refundVars, clockVars, channelVars>>

-----------------------------------------------------------------------------
(* What the commit actions share.                                          *)

Committing(o, kind) ==
    /\ tx[o].kind = kind
    /\ tx' = [tx EXCEPT ![o] = NoTx]

Processing(o) == {a \in Attempts : orderOf[a] = o /\ attempt[a] = "PROCESSING"}

\* The channel may still answer, and its success would still be accepted.
Mutant_ValidForever(a) == inTime[a]
Valid(a) == ~late[a] /\ inTime[a]

\* lockReservation and lockSeats: anything else is an invariant failure.
Intact(o) ==
    /\ reservation[o] = "ACTIVE"
    /\ items[o] # {}
    /\ \A s \in items[o] : seatStatus[s] = "HELD" /\ seatHolder[s] = o

Mutant_SetSomeSeat(o, status) ==
    /\ \E s \in items[o] : /\ seatStatus' = [seatStatus EXCEPT ![s] = status]
                           /\ seatHolder' = [seatHolder EXCEPT ![s] = NoOrder]
    /\ UNCHANGED items

SetSeats(o, status) ==
    /\ seatStatus' = [s \in Seats |-> IF s \in items[o] THEN status ELSE seatStatus[s]]
    /\ seatHolder' = [s \in Seats |-> IF s \in items[o] THEN NoOrder ELSE seatHolder[s]]
    /\ UNCHANGED items

\* The pending order becomes CANCELLED or EXPIRED and its seats are free again.
Close(o, target) ==
    /\ Intact(o)
    /\ SetSeats(o, "AVAILABLE")
    /\ reservation' = [reservation EXCEPT ![o] = target]
    /\ order' = [order EXCEPT ![o] = target]
    /\ UNCHANGED refunded

KeepOrder == UNCHANGED <<seatVars, orderVars>>

\* markTimedOut on the order's processing attempt, when it is no longer valid.
TimeOut(A) == [a \in Attempts |-> IF a \in A THEN "TIMED_OUT" ELSE attempt[a]]
Stale(o) == {a \in Processing(o) : ~Valid(a)}

-----------------------------------------------------------------------------
(* POST /orders/{id}/pay                                                   *)

\* No attempt of the order is valid and the order had not expired when it was
\* locked: a new attempt, which may by now start after orders.expires_at.
CommitNewAttempt(o, a) ==
    /\ Committing(o, "pay")
    /\ ~tx[o].expired
    /\ \A p \in Processing(o) : ~Valid(p)
    /\ attempt[a] = "NONE"
    /\ attempt' = [TimeOut(Stale(o)) EXCEPT ![a] = "PROCESSING"]
    /\ orderOf' = [orderOf EXCEPT ![a] = o]
    /\ inTime' = [inTime EXCEPT ![a] = ~expired[o]]
    /\ KeepOrder /\ UNCHANGED <<accepted, refundVars, clockVars, channelVars>>

\* The order had expired: only the time-out is committed; the expiry that
\* follows is a transaction of its own.
CommitTimeOut(o) ==
    /\ Committing(o, "pay")
    /\ tx[o].expired /\ Stale(o) # {}
    /\ attempt' = TimeOut(Stale(o))
    /\ KeepOrder /\ UNCHANGED <<orderOf, inTime, accepted, refundVars, clockVars, channelVars>>

-----------------------------------------------------------------------------
(* Cancelling and expiring                                                 *)

CommitCancel(o) ==
    /\ Committing(o, "cancel")
    /\ attempt' = TimeOut(Stale(o))
    /\ Close(o, IF ~tx[o].expired \/ \E a \in Processing(o) : Valid(a)
                THEN "CANCELLED" ELSE "EXPIRED")
    /\ UNCHANGED <<orderOf, inTime, accepted, refundVars, clockVars, channelVars>>

CommitExpire(o) ==
    /\ Committing(o, "expire")
    /\ tx[o].expired
    /\ \A a \in Processing(o) : ~Valid(a)
    /\ attempt' = TimeOut(Stale(o))
    /\ Close(o, "EXPIRED")
    /\ UNCHANGED <<orderOf, inTime, accepted, refundVars, clockVars, channelVars>>

-----------------------------------------------------------------------------
(* The channel's answer to a payment                                       *)

Answered(o) == tx[o].attempt

Acceptable(o) == Pending(o) /\ Valid(Answered(o))

\* The success is accepted: the order is PAID and its seats are SOLD.
CommitAccept(o) ==
    /\ Committing(o, "callback")
    /\ tx[o].ok /\ Acceptable(o) /\ Intact(o)
    /\ attempt' = [attempt EXCEPT ![Answered(o)] = "SUCCEEDED"]
    /\ accepted' = [accepted EXCEPT ![Answered(o)] = TRUE]
    /\ SetSeats(o, "SOLD")
    /\ reservation' = [reservation EXCEPT ![o] = "CONFIRMED"]
    /\ order' = [order EXCEPT ![o] = "PAID"]
    /\ UNCHANGED <<refunded, orderOf, inTime, refundVars, clockVars, channelVars>>

\* insertRefund, ON CONFLICT (payment_attempt_id) DO NOTHING.
RecordRefund(a, src) ==
    /\ refund' = [refund EXCEPT ![a] = IF @ = "NONE" THEN "PROCESSING" ELSE @]
    /\ source' = [source EXCEPT ![a] = IF @ = "NONE" THEN src ELSE @]

Mutant_RecordAnswerInTime(o) ==
    IF tx[o].ok /\ Pending(o) THEN RecordRefund(Answered(o), "SYSTEM") ELSE UNCHANGED refundVars

\* A success nobody can use is refunded; a failure is recorded.
RecordAnswer(o) ==
    IF tx[o].ok THEN RecordRefund(Answered(o), "SYSTEM") ELSE UNCHANGED refundVars

AnswerStatus(o) == IF tx[o].ok THEN "SUCCEEDED" ELSE "FAILED"

Others(o) == Processing(o) \ {Answered(o)}

Mutant_ClosesAtOnce(o) == Pending(o) /\ tx[o].expired

\* The answer also closes a pending order whose time is over, unless another
\* attempt may still be accepted.
ClosesOrder(o) ==
    /\ Pending(o) /\ tx[o].expired
    /\ \A a \in Others(o) : ~Valid(a)

CommitAnswer(o) ==
    /\ Committing(o, "callback")
    /\ ~(tx[o].ok /\ Acceptable(o))
    /\ RecordAnswer(o)
    /\ \/ /\ ClosesOrder(o)
          /\ attempt' = [TimeOut(Others(o)) EXCEPT ![Answered(o)] = AnswerStatus(o)]
          /\ Close(o, "EXPIRED")
       \/ /\ ~ClosesOrder(o)
          /\ attempt' = [attempt EXCEPT ![Answered(o)] = AnswerStatus(o)]
          /\ KeepOrder
    /\ UNCHANGED <<orderOf, inTime, accepted, clockVars, channelVars>>

-----------------------------------------------------------------------------
(* Refunds                                                                 *)

\* POST /orders/{id}/refunds: once per order, before the session starts, on the
\* one accepted attempt.
CommitAsk(o, a) ==
    /\ Committing(o, "ask")
    /\ ~started
    /\ \A b \in Attempts : orderOf[b] = o => source[b] # "BUYER"
    /\ {b \in Attempts : orderOf[b] = o /\ attempt[b] = "SUCCEEDED" /\ accepted[b]} = {a}
    /\ refund[a] = "NONE"
    /\ RecordRefund(a, "BUYER")
    /\ KeepOrder /\ UNCHANGED <<attemptVars, clockVars, channelVars>>

SettleRefund(a, ok) ==
    /\ refund' = [refund EXCEPT ![a] = IF ok THEN "SUCCEEDED" ELSE "FAILED"]
    /\ UNCHANGED source

\* A system refund, or a buyer refund the channel refused.
LeavesOrder(o) ==
    \/ source[Answered(o)] = "SYSTEM" /\ ~accepted[Answered(o)]
    \/ /\ source[Answered(o)] = "BUYER" /\ ~tx[o].ok
       /\ order[o] = "PAID" /\ accepted[Answered(o)] /\ attempt[Answered(o)] = "SUCCEEDED"

\* The refund's end is recorded and the order keeps what it has.
CommitRefund(o) ==
    /\ Committing(o, "refund")
    /\ LeavesOrder(o)
    /\ SettleRefund(Answered(o), tx[o].ok)
    /\ KeepOrder /\ UNCHANGED <<attemptVars, clockVars, channelVars>>

\* Every seat of the order is SOLD and has this order as its only paid owner.
SoleOwner(o) ==
    /\ items[o] # {}
    /\ \A s \in items[o] :
          /\ seatStatus[s] = "SOLD" /\ seatHolder[s] = NoOrder
          /\ {p \in Orders : s \in items[p] /\ reservation[p] = "CONFIRMED"
                                            /\ order[p] = "PAID"} = {o}

\* A buyer refund the channel carried out takes the order's rights away.
CommitReturn(o) ==
    /\ Committing(o, "refund")
    /\ source[Answered(o)] = "BUYER" /\ tx[o].ok
    /\ order[o] = "PAID" /\ accepted[Answered(o)] /\ attempt[Answered(o)] = "SUCCEEDED"
    /\ reservation[o] = "CONFIRMED" /\ SoleOwner(o) /\ ~refunded[o]
    /\ SettleRefund(Answered(o), TRUE)
    /\ SetSeats(o, "AVAILABLE")
    /\ reservation' = [reservation EXCEPT ![o] = "CANCELLED"]
    /\ order' = [order EXCEPT ![o] = "CANCELLED"]
    /\ refunded' = [refunded EXCEPT ![o] = TRUE]
    /\ UNCHANGED <<attemptVars, clockVars, channelVars>>

-----------------------------------------------------------------------------
Clock == SessionStarts \/ (\E o \in Orders : OrderExpires(o)) \/ (\E a \in Attempts : GraceEnds(a))

Channel == \E a \in Attempts : OpenPayment(a) \/ CustomerPays(a) \/ ChannelRefunds(a)

Lock ==
    \/ \E o \in Orders : BeginPay(o) \/ BeginCancel(o) \/ BeginAsk(o) \/ BeginExpire(o)
    \/ \E a \in Attempts : orderOf[a] \in Orders /\ (BeginCallback(a) \/ BeginRefund(a))

Commit(o) ==
    \/ \E a \in Attempts : CommitNewAttempt(o, a) \/ CommitAsk(o, a)
    \/ CommitTimeOut(o)
    \/ CommitCancel(o)
    \/ CommitExpire(o)
    \/ CommitAccept(o)
    \/ CommitAnswer(o)
    \/ CommitRefund(o)
    \/ CommitReturn(o)

Next ==
    \/ Clock
    \/ Channel
    \/ \E o \in Orders, S \in SUBSET Seats : CreateReservation(o, S)
    \/ Lock
    \/ \E o \in Orders : Commit(o) \/ Rollback(o)

Spec == Init /\ [][Next]_vars
-----------------------------------------------------------------------------
(* Fairness.  Clocks run.  Every open transaction ends.  The expiry worker *)
(* and the reconciliation worker run round after round: a round that finds *)
(* the row locked or fails is repeated, so their steps are strongly fair.  *)

Fairness ==
    /\ \A o \in Orders :
        /\ WF_vars(OrderExpires(o))
        /\ WF_vars(Commit(o) \/ Rollback(o))
        /\ SF_vars(BeginExpire(o))
        /\ SF_vars(CommitExpire(o))
        /\ SF_vars(CommitAccept(o) \/ CommitAnswer(o))
        /\ SF_vars(CommitRefund(o) \/ CommitReturn(o))
    /\ \A a \in Attempts :
        /\ WF_vars(GraceEnds(a))
        /\ WF_vars(ChannelRefunds(a))
        /\ SF_vars(orderOf[a] \in Orders /\ BeginCallback(a))
        /\ SF_vars(orderOf[a] \in Orders /\ BeginRefund(a))

FairSpec == Spec /\ Fairness

-----------------------------------------------------------------------------
(* Properties.                                                             *)

\* The shape of every row, as the schema's CHECK constraints and foreign keys
\* state it.
TypeOK ==
    /\ seatStatus \in [Seats -> SeatStates]
    /\ seatHolder \in [Seats -> Orders \cup {NoOrder}]
    /\ items \in [Orders -> SUBSET Seats]
    /\ reservation \in [Orders -> ReservationStates]
    /\ order \in [Orders -> OrderStates]
    /\ refunded \in [Orders -> BOOLEAN]
    /\ expired \in [Orders -> BOOLEAN]
    /\ started \in BOOLEAN
    /\ attempt \in [Attempts -> AttemptStates]
    /\ orderOf \in [Attempts -> Orders \cup {NoOrder}]
    /\ inTime \in [Attempts -> BOOLEAN]
    /\ late \in [Attempts -> BOOLEAN]
    /\ accepted \in [Attempts -> BOOLEAN]
    /\ refund \in [Attempts -> RefundStates]
    /\ source \in [Attempts -> {"NONE", "SYSTEM", "BUYER"}]
    /\ channel \in [Attempts -> {"NONE", "open", "declined", "succeeded"}]
    /\ refundChannel \in [Attempts -> {"NONE", "succeeded", "failed"}]
    /\ tx \in [Orders -> Txs]

Live(o) == order[o] \in {"PENDING_PAYMENT", "PAID"}

\* No seat is sold twice: a seat that is HELD or SOLD belongs to exactly one
\* pending or paid order, the one it points to while HELD, and an AVAILABLE seat
\* belongs to none.  A SOLD seat points to nobody, so this is what the join in
\* RefundLifecycleService::ownership relies on.
SeatsHaveOneOwner ==
    \A s \in Seats :
        LET owners == {o \in Orders : Live(o) /\ s \in items[o]} IN
        /\ seatStatus[s] = "AVAILABLE" => owners = {} /\ seatHolder[s] = NoOrder
        /\ seatStatus[s] = "HELD" => /\ owners = {seatHolder[s]}
                                     /\ order[seatHolder[s]] = "PENDING_PAYMENT"
        /\ seatStatus[s] = "SOLD" => /\ seatHolder[s] = NoOrder
                                     /\ \E o \in Orders : owners = {o} /\ order[o] = "PAID"

\* The invariant failures the lifecycle services log and roll back on cannot
\* happen: whatever pending order a transaction locks has its reservation ACTIVE
\* and all its seats HELD by it, and a paid one is the sole owner of its seats.
LifecycleChecksHold ==
    \A o \in Orders :
        /\ order[o] = "PENDING_PAYMENT" => Intact(o)
        /\ order[o] = "PAID" => reservation[o] = "CONFIRMED" /\ SoleOwner(o) /\ ~refunded[o]
        /\ order[o] \in {"NONE", "CANCELLED", "EXPIRED"} => reservation[o] = order[o]

\* An order is paid by exactly one accepted attempt; a cancelled order has one
\* only if that money went back to the buyer; every other order has none.
PaidByOneAttempt ==
    \A o \in Orders :
        LET taken == {a \in Attempts : orderOf[a] = o /\ accepted[a]} IN
        /\ order[o] = "PAID" => \E a \in Attempts : taken = {a} /\ refund[a] # "SUCCEEDED"
        /\ refunded[o] => \E a \in Attempts : /\ taken = {a} /\ order[o] = "CANCELLED"
                                               /\ source[a] = "BUYER" /\ refund[a] = "SUCCEEDED"
        /\ order[o] # "PAID" /\ ~refunded[o] => taken = {}

\* Money the channel reported is never lost and never returned twice: a succeeded
\* attempt is either accepted or owed back by a SYSTEM refund, no other attempt
\* has a refund, and only an accepted one has a BUYER refund.
MoneyAccountedFor ==
    \A a \in Attempts :
        /\ attempt[a] = "SUCCEEDED" => (accepted[a] <=> source[a] # "SYSTEM")
        /\ attempt[a] # "SUCCEEDED" => ~accepted[a] /\ refund[a] = "NONE"
        /\ refund[a] = "NONE" <=> source[a] = "NONE"

\* Two attempts of an order are never processed at once: the partial unique index
\* never has to refuse an insert, whatever transactions race for the order.
OneProcessingAttempt ==
    \A o \in Orders, a, b \in Attempts :
        {a, b} \subseteq Processing(o) => a = b

\* What a transaction read under the row lock is still so when it commits, although
\* it decides and writes much later: the order it found pending is pending, the
\* paid one is paid, the attempt it completes is uncompleted.
LockedReadsStayTrue ==
    \A o \in Orders :
        /\ tx[o].kind \in {"pay", "cancel", "expire"} => Pending(o)
        /\ tx[o].kind = "ask" => order[o] = "PAID"
        /\ tx[o].kind \in {"callback", "refund"} => orderOf[tx[o].attempt] = o
        /\ tx[o].kind = "callback" => Completable(tx[o].attempt)
        /\ tx[o].kind = "refund" => refund[tx[o].attempt] = "PROCESSING"
        /\ tx[o].expired => expired[o]

\* A seat that was SOLD becomes AVAILABLE only together with the success of the
\* buyer refund of the paid order that had it, after the channel returned the
\* money, and then all seats of that order become AVAILABLE.
SoldSeatsComeBackByRefund ==
    [][\A s \in Seats : seatStatus[s] = "SOLD" /\ seatStatus'[s] # "SOLD" =>
          \E a \in Attempts :
              /\ source[a] = "BUYER" /\ refund[a] = "PROCESSING" /\ refund'[a] = "SUCCEEDED"
              /\ refundChannel[a] = "succeeded"
              /\ s \in items[orderOf[a]] /\ order[orderOf[a]] = "PAID"
              /\ \A t \in items[orderOf[a]] : seatStatus'[t] = "AVAILABLE"]_vars

\* A late success revives nothing: EXPIRED and CANCELLED are final, and a PAID
\* order ends only with its refund.
NoOrderIsRevived ==
    [][\A o \in Orders :
          /\ order[o] \in {"EXPIRED", "CANCELLED"} => order'[o] = order[o]
          /\ order[o] = "PAID" => \/ order'[o] = "PAID"
                                  \/ order'[o] = "CANCELLED" /\ refunded'[o]]_vars

\* The processing grace protects a payment that began in time: no transaction
\* expires an order while an attempt of it could still be accepted, except the
\* one that records this very attempt's answer.
GraceProtectsPayment ==
    [][\A o \in Orders : order[o] = "PENDING_PAYMENT" /\ order'[o] = "EXPIRED" =>
          \A a \in Processing(o) : Valid(a) => attempt'[a] \in {"SUCCEEDED", "FAILED"}]_vars

\* The channel's failure is final for the backend, so money must not move later on
\* an attempt recorded as FAILED.
FailedMeansNotCharged ==
    \A a \in Attempts : attempt[a] = "FAILED" => channel[a] # "succeeded"

\* The expiry worker closes every expired order, however payments, cancellations
\* and locks interfere.
ExpiredOrdersClose ==
    \A o \in Orders : expired[o] ~> order[o] # "PENDING_PAYMENT"

\* Every charge ends up as a paid order or as a refund that reached its end.
ChargesSettle ==
    \A a \in Attempts :
        channel[a] = "succeeded" ~> accepted[a] \/ refund[a] \in {"SUCCEEDED", "FAILED"}

\* Money the channel returned is recorded as returned in the end, and if it was the
\* buyer's payment, the ticket is taken away.
ReturnedMoneyIsRecorded ==
    \A a \in Attempts :
        refundChannel[a] = "succeeded" ~>
            /\ refund[a] = "SUCCEEDED"
            /\ source[a] = "BUYER" => order[orderOf[a]] = "CANCELLED"

\* So the money of every attempt comes to rest, whichever way it went: it is kept
\* for a paid order or given back, and both are recorded (the worker rounds).
MoneySettles == ChargesSettle /\ ReturnedMoneyIsRecorded

-----------------------------------------------------------------------------
(* The seats and their owners, as SeatSales sees them.                     *)

SeatView(s) ==
    CASE seatStatus[s] = "AVAILABLE" -> [by |-> NoOrder, how |-> "free"]
      [] seatStatus[s] = "HELD" -> [by |-> seatHolder[s], how |-> "held"]
      [] seatStatus[s] = "SOLD" ->
            [by |-> CHOOSE o \in Orders : order[o] = "PAID" /\ s \in items[o],
             how |-> "sold"]

Sales == INSTANCE SeatSales WITH
    slot  <- [s \in Seats |-> SeatView(s)],
    spent <- {o \in Orders : order[o] # "NONE"}

\* The order, payment and refund transactions implement the seat sales the
\* backend promises.
ImplementsSeatSales == Sales!Spec
=============================================================================
