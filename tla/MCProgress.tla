----------------------------- MODULE MCProgress -----------------------------
(***************************************************************************)
(* What must happen in the end, in one order with two payment attempts,    *)
(* and in the rounds of the reconciliation worker about one attempt and    *)
(* its refund.  A behaviour is that of one of them, and the other stays in *)
(* its initial state.                                                      *)
(***************************************************************************)
EXTENDS TicketOrders, Sequences

CONSTANTS a1, a2, w1, f1, NoToken

VARIABLES
    system, \* the one this behaviour is of
    rows, ledger, events, handedOff, round, calls, online

Rounds == INSTANCE PaymentReconciliation WITH
    Attempts <- {a1}, Workers <- {w1}, Foreign <- {f1}, BatchSize <- 2,
    MaxOnline <- 0, MaxEvents <- 1, channel <- ledger

roundVars == <<rows, ledger, events, handedOff, round, calls, online>>
everything == <<system, vars, roundVars>>

ProgressInit == system \in {"orders", "rounds"} /\ Init /\ Rounds!Init

(* A step of the one or of the other.                                      *)
Either(orders, rounds) ==
    \/ system = "orders" /\ orders /\ UNCHANGED <<system, roundVars>>
    \/ system = "rounds" /\ rounds /\ UNCHANGED <<system, vars>>

(* At most two webhook events are received.                                *)
ProgressNext == Either(Next, Rounds!Next /\ Len(events') <= 2)

(* The fairness of TicketOrders and of PaymentReconciliation: their        *)
(* conditions are put together in pairs, as only one of each can matter.   *)
Object(a) == IF a = a1 THEN <<"PAYMENT", a1>> ELSE <<"REFUND", a1>>

Turn == Rounds!ProcessInbox(w1) \/ Rounds!ClaimFails(w1) \/ Rounds!EndRound(w1)
Claims == \E S \in SUBSET Rounds!Payments : Rounds!ClaimPayments(w1, S)
CallAbout(o) == \E c \in calls : c.by = w1 /\ c.obj = o /\ Rounds!Settle(c)
ChannelSays(o) == \E c \in calls : c.obj = o /\ Rounds!Holding(c) /\ Rounds!ChannelAnswers(c)
Recorded(o) ==
    \E c \in calls : c.obj = o /\ Rounds!Holding(c) /\ c.answer \in Rounds!Final /\ Rounds!Record(c)

ProgressFairness ==
    /\ \A o \in Orders :
        /\ WF_everything(Either(OrderExpires(o), Turn))
        /\ WF_everything(Either(Commit(o) \/ Rollback(o), CallAbout(Object(a1))))
        /\ SF_everything(Either(BeginExpire(o), Rounds!ClaimOf(w1, Object(a1))))
        /\ SF_everything(Either(CommitExpire(o), Rounds!ClaimOf(w1, Object(a2))))
        /\ SF_everything(Either(CommitAccept(o) \/ CommitAnswer(o), Claims))
        /\ SF_everything(Either(CommitRefund(o) \/ CommitReturn(o), FALSE))
        /\ WF_everything(Either(FALSE, CallAbout(Object(a2))))
    /\ \A a \in Attempts :
        /\ WF_everything(Either(GraceEnds(a), Rounds!FallsDue(Object(a))))
        /\ WF_everything(Either(ChannelRefunds(a), Rounds!LeaseRunsOut(Object(a))))
        /\ SF_everything(Either(orderOf[a] \in Orders /\ BeginCallback(a), ChannelSays(Object(a))))
        /\ SF_everything(Either(orderOf[a] \in Orders /\ BeginRefund(a), Recorded(Object(a))))

ProgressSpec == ProgressInit /\ [][ProgressNext]_everything /\ ProgressFairness

-----------------------------------------------------------------------------
(* Nothing that the rounds of the worker are there for stays undone: no row*)
(* before its first call, no result and no event                           *)
(* (PaymentReconciliationWorker.cpp).                                      *)
EverythingIsReconciled == Rounds!EverythingIsReconciled
=============================================================================
