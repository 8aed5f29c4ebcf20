------------------------- MODULE TicketOrdersProofs -------------------------
(***************************************************************************)
(* Proofs about TicketOrders, for any sets of seats, orders and attempts:  *)
(* its types and its orders first, then payments and refunds, and what its *)
(* steps may never do.                                                     *)
(***************************************************************************)
EXTENDS TicketOrders, TLAPS

\* One disjunct per action: the shape every step proof below follows.
LEMMA NextCases ==
    ASSUME Next
    PROVE  \/ SessionStarts
           \/ \E o \in Orders : OrderExpires(o)
           \/ \E a \in Attempts : GraceEnds(a)
           \/ \E a \in Attempts : OpenPayment(a)
           \/ \E a \in Attempts : CustomerPays(a)
           \/ \E a \in Attempts : ChannelRefunds(a)
           \/ \E o \in Orders, S \in SUBSET Seats : CreateReservation(o, S)
           \/ \E o \in Orders : BeginPay(o)
           \/ \E o \in Orders : BeginCancel(o)
           \/ \E o \in Orders : BeginAsk(o)
           \/ \E o \in Orders : BeginExpire(o)
           \/ \E a \in Attempts : orderOf[a] \in Orders /\ BeginCallback(a)
           \/ \E a \in Attempts : orderOf[a] \in Orders /\ BeginRefund(a)
           \/ \E o \in Orders, a \in Attempts : CommitNewAttempt(o, a)
           \/ \E o \in Orders : CommitTimeOut(o)
           \/ \E o \in Orders : CommitCancel(o)
           \/ \E o \in Orders : CommitExpire(o)
           \/ \E o \in Orders : CommitAccept(o)
           \/ \E o \in Orders : CommitAnswer(o)
           \/ \E o \in Orders, a \in Attempts : CommitAsk(o, a)
           \/ \E o \in Orders : CommitRefund(o)
           \/ \E o \in Orders : CommitReturn(o)
           \/ \E o \in Orders : Rollback(o)
  BY Zenon DEF Next, Clock, Channel, Lock, Commit

-----------------------------------------------------------------------------
(* The types.                                                              *)

\* Opening a transaction writes a well-formed record and nothing else.
LEMMA BeginType ==
    ASSUME TypeOK, NEW o \in Orders, NEW kind \in TxKinds,
           NEW a \in Attempts \cup {NoAttempt}, NEW ok \in BOOLEAN, Begin(o, kind, a, ok)
    PROVE  TypeOK'
<1> DEFINE row == [kind |-> kind, expired |-> expired[o], attempt |-> a, ok |-> ok]
<1>1. row \in Txs
  BY DEF TypeOK, Txs
<1>2. tx' \in [Orders -> Txs]
  <2>1. tx' = [tx EXCEPT ![o] = row] /\ tx \in [Orders -> Txs]
    BY DEF Begin, TypeOK
  <2> HIDE DEF row
  <2>2. QED
    BY <1>1, <2>1
<1>3. QED
  BY <1>2 DEF TypeOK, Begin, seatVars, orderVars, attemptVars, refundVars, clockVars, channelVars

LEMMA TypeInit == Init => TypeOK
<1>1. NoTx \in Txs
  BY DEF NoTx, Txs, TxKinds
<1>2. Init => tx \in [Orders -> Txs]
  BY <1>1 DEF Init
<1>3. Init => /\ refunded \in [Orders -> BOOLEAN] /\ expired \in [Orders -> BOOLEAN]
              /\ inTime \in [Attempts -> BOOLEAN] /\ late \in [Attempts -> BOOLEAN]
              /\ accepted \in [Attempts -> BOOLEAN]
  BY DEF Init
<1>4. Init => started \in BOOLEAN
  BY DEF Init
<1>5. QED
  BY <1>2, <1>3, <1>4 DEF Init, TypeOK, SeatStates, ReservationStates, OrderStates, AttemptStates,
                    RefundStates

\* Every step keeps the row shapes.
LEMMA TypeStep == TypeOK /\ [Next]_vars => TypeOK'
<1> SUFFICES ASSUME TypeOK, [Next]_vars PROVE TypeOK'
  OBVIOUS
<1> USE DEF seatVars, orderVars, attemptVars, refundVars, clockVars, channelVars
<1>1. CASE UNCHANGED vars
  BY <1>1 DEF TypeOK, vars
<1>2. CASE SessionStarts
  BY <1>2 DEF TypeOK, SessionStarts
<1>3. ASSUME NEW o \in Orders, OrderExpires(o) PROVE TypeOK'
  BY <1>3 DEF TypeOK, OrderExpires
<1>4. ASSUME NEW a \in Attempts, GraceEnds(a) PROVE TypeOK'
  BY <1>4 DEF TypeOK, GraceEnds
<1>5. ASSUME NEW a \in Attempts, OpenPayment(a) PROVE TypeOK'
  BY <1>5 DEF TypeOK, OpenPayment
<1>6. ASSUME NEW a \in Attempts, CustomerPays(a) PROVE TypeOK'
  BY <1>6 DEF TypeOK, CustomerPays
<1>7. ASSUME NEW a \in Attempts, ChannelRefunds(a) PROVE TypeOK'
  BY <1>7 DEF TypeOK, ChannelRefunds
<1>8. ASSUME NEW o \in Orders, NEW S \in SUBSET Seats, CreateReservation(o, S) PROVE TypeOK'
  BY <1>8 DEF TypeOK, CreateReservation, Fresh, OnSale, SeatStates, ReservationStates, OrderStates
<1>9. ASSUME NEW o \in Orders, BeginPay(o) PROVE TypeOK'
  BY <1>9, BeginType DEF BeginPay, TxKinds
<1>10. ASSUME NEW o \in Orders, BeginCancel(o) PROVE TypeOK'
  BY <1>10, BeginType DEF BeginCancel, TxKinds
<1>11. ASSUME NEW o \in Orders, BeginAsk(o) PROVE TypeOK'
  BY <1>11, BeginType DEF BeginAsk, TxKinds
<1>12. ASSUME NEW o \in Orders, BeginExpire(o) PROVE TypeOK'
  BY <1>12, BeginType DEF BeginExpire, TxKinds
<1>13. ASSUME NEW a \in Attempts, orderOf[a] \in Orders, BeginCallback(a) PROVE TypeOK'
  BY <1>13, BeginType DEF BeginCallback, TxKinds
<1>14. ASSUME NEW a \in Attempts, orderOf[a] \in Orders, BeginRefund(a) PROVE TypeOK'
  BY <1>14, BeginType DEF BeginRefund, TxKinds
<1> NoTx \in Txs
  BY DEF NoTx, Txs, TxKinds
<1>15. ASSUME NEW o \in Orders, NEW a \in Attempts, CommitNewAttempt(o, a) PROVE TypeOK'
  BY <1>15 DEF TypeOK, CommitNewAttempt, Committing, TimeOut, KeepOrder, AttemptStates
<1>16. ASSUME NEW o \in Orders, CommitTimeOut(o) PROVE TypeOK'
  BY <1>16 DEF TypeOK, CommitTimeOut, Committing, TimeOut, KeepOrder, AttemptStates
<1>17. ASSUME NEW o \in Orders, NEW t \in {"CANCELLED", "EXPIRED"}, Close(o, t)
       PROVE  /\ seatStatus' \in [Seats -> SeatStates]
              /\ seatHolder' \in [Seats -> Orders \cup {NoOrder}]
              /\ items' = items
              /\ reservation' \in [Orders -> ReservationStates]
              /\ order' \in [Orders -> OrderStates]
              /\ refunded' = refunded
  BY <1>17 DEF TypeOK, Close, SetSeats, SeatStates, ReservationStates, OrderStates
<1>18. ASSUME NEW o \in Orders, CommitCancel(o) PROVE TypeOK'
  <2>1. \E t \in {"CANCELLED", "EXPIRED"} : Close(o, t)
    BY <1>18 DEF CommitCancel
  <2>2. QED
    BY <1>17, <1>18, <2>1 DEF TypeOK, CommitCancel, Committing, TimeOut, AttemptStates
<1>19. ASSUME NEW o \in Orders, CommitExpire(o) PROVE TypeOK'
  BY <1>17, <1>19 DEF TypeOK, CommitExpire, Committing, TimeOut, AttemptStates
<1>20. ASSUME NEW o \in Orders, CommitAccept(o) PROVE TypeOK'
  BY <1>20 DEF TypeOK, CommitAccept, Committing, SetSeats, Answered, AttemptStates, SeatStates,
               ReservationStates, OrderStates
<1>21. ASSUME NEW o \in Orders, CommitAnswer(o) PROVE TypeOK'
  <2>1. attempt' \in [Attempts -> AttemptStates]
    BY <1>21 DEF TypeOK, CommitAnswer, TimeOut, AnswerStatus, AttemptStates
  <2>2. refund' \in [Attempts -> RefundStates] /\ source' \in [Attempts -> {"NONE", "SYSTEM", "BUYER"}]
    BY <1>21 DEF TypeOK, CommitAnswer, RecordAnswer, RecordRefund, RefundStates
  <2>3. /\ seatStatus' \in [Seats -> SeatStates]
        /\ seatHolder' \in [Seats -> Orders \cup {NoOrder}]
        /\ items' = items
        /\ reservation' \in [Orders -> ReservationStates]
        /\ order' \in [Orders -> OrderStates]
        /\ refunded' = refunded
    <3>1. CASE Close(o, "EXPIRED")
      BY <1>17, <3>1
    <3>2. CASE KeepOrder
      BY <3>2 DEF KeepOrder, TypeOK
    <3>3. QED
      BY <1>21, <3>1, <3>2 DEF CommitAnswer
  <2>4. QED
    BY <1>21, <2>1, <2>2, <2>3 DEF TypeOK, CommitAnswer, Committing
<1>22. ASSUME NEW o \in Orders, NEW a \in Attempts, CommitAsk(o, a) PROVE TypeOK'
  BY <1>22 DEF TypeOK, CommitAsk, Committing, KeepOrder, RecordRefund, RefundStates
<1>23. ASSUME NEW o \in Orders, CommitRefund(o) PROVE TypeOK'
  BY <1>23 DEF TypeOK, CommitRefund, LeavesOrder, Committing, KeepOrder, SettleRefund, RefundStates
<1>24. ASSUME NEW o \in Orders, CommitReturn(o) PROVE TypeOK'
  BY <1>24 DEF TypeOK, CommitReturn, Committing, SettleRefund, SetSeats, RefundStates, SeatStates,
               ReservationStates, OrderStates
<1>25. ASSUME NEW o \in Orders, Rollback(o) PROVE TypeOK'
  BY <1>25 DEF TypeOK, Rollback
<1>26. QED
  BY <1>1, <1>2, <1>3, <1>4, <1>5, <1>6, <1>7, <1>8, <1>9, <1>10, <1>11, <1>12, <1>13, <1>14,
     <1>15, <1>16, <1>18, <1>19, <1>20, <1>21, <1>22, <1>23, <1>24, <1>25, NextCases

\* Every row keeps the shape the schema's CHECK constraints demand.
THEOREM TypeCorrect == Spec => []TypeOK
  BY TypeInit, TypeStep, PTL DEF Spec

-----------------------------------------------------------------------------
(* The seat ledger: SeatsHaveOneOwner is not inductive, because a SOLD     *)
(* seat does not say whose it is.  The rows and the seats are tied          *)
(* together from both sides.                                                *)

\* reservations.status follows orders.status.
RowsAgree ==
    \A o \in Orders :
        /\ order[o] \in {"NONE", "CANCELLED", "EXPIRED"} => reservation[o] = order[o]
        /\ order[o] = "PENDING_PAYMENT" => reservation[o] = "ACTIVE"
        /\ order[o] = "PAID" => reservation[o] = "CONFIRMED"
        /\ refunded[o] => order[o] = "CANCELLED"

\* What an order says of its seats.
OrdersHaveSeats ==
    \A o \in Orders :
        /\ Live(o) => items[o] # {}
        /\ order[o] = "PENDING_PAYMENT" =>
              \A s \in items[o] : seatStatus[s] = "HELD" /\ seatHolder[s] = o
        /\ order[o] = "PAID" =>
              \A s \in items[o] : seatStatus[s] = "SOLD" /\ seatHolder[s] = NoOrder

\* What a seat says of its order.
SeatsHaveOrders ==
    \A s \in Seats :
        /\ seatStatus[s] = "AVAILABLE" => seatHolder[s] = NoOrder
        /\ seatStatus[s] = "HELD" => /\ seatHolder[s] \in Orders
                                     /\ order[seatHolder[s]] = "PENDING_PAYMENT"
                                     /\ s \in items[seatHolder[s]]
        /\ seatStatus[s] = "SOLD" => /\ seatHolder[s] = NoOrder
                                     /\ \E o \in Orders : order[o] = "PAID" /\ s \in items[o]

PaidOrdersAreDisjoint ==
    \A o, p \in Orders :
        order[o] = "PAID" /\ order[p] = "PAID" /\ o # p => items[o] \cap items[p] = {}

SeatLedger == RowsAgree /\ OrdersHaveSeats /\ SeatsHaveOrders /\ PaidOrdersAreDisjoint

\* A step either leaves the ledger alone or is one of the four that write it.
LEMMA LedgerSteps ==
    ASSUME [Next]_vars
    PROVE  \/ KeepOrder
           \/ \E o \in Orders, S \in SUBSET Seats : CreateReservation(o, S)
           \/ \E o \in Orders, t \in {"CANCELLED", "EXPIRED"} :
                 Close(o, t) /\ (CommitCancel(o) \/ CommitExpire(o) \/ CommitAnswer(o))
           \/ \E o \in Orders : CommitAccept(o)
           \/ \E o \in Orders : CommitReturn(o)
<1> USE DEF KeepOrder
<1>1. CASE UNCHANGED vars
  BY <1>1 DEF vars
<1>2. CASE Next
  <2>1. CASE SessionStarts \/ \E o \in Orders : OrderExpires(o) \/ Rollback(o)
    BY <2>1 DEF SessionStarts, OrderExpires, Rollback
  <2>2. CASE \E a \in Attempts : \/ GraceEnds(a) \/ OpenPayment(a) \/ CustomerPays(a)
                                 \/ ChannelRefunds(a) \/ BeginCallback(a) \/ BeginRefund(a)
    BY <2>2 DEF GraceEnds, OpenPayment, CustomerPays, ChannelRefunds, BeginCallback, BeginRefund,
                Begin
  <2>3. CASE \E o \in Orders : BeginPay(o) \/ BeginCancel(o) \/ BeginAsk(o) \/ BeginExpire(o)
    BY <2>3 DEF BeginPay, BeginCancel, BeginAsk, BeginExpire, Begin
  <2>4. CASE \E o \in Orders, a \in Attempts : CommitNewAttempt(o, a) \/ CommitAsk(o, a)
    BY <2>4 DEF CommitNewAttempt, CommitAsk
  <2>5. CASE \E o \in Orders : CommitTimeOut(o) \/ CommitRefund(o)
    BY <2>5 DEF CommitTimeOut, CommitRefund, LeavesOrder
  <2>6. CASE \E o \in Orders : CommitCancel(o) \/ CommitExpire(o) \/ CommitAnswer(o)
    BY <2>6 DEF CommitCancel, CommitExpire, CommitAnswer
  <2>7. QED
    BY <1>2, <2>1, <2>2, <2>3, <2>4, <2>5, <2>6, NextCases
<1>3. QED
  BY <1>1, <1>2

LEMMA LedgerInit == Init => SeatLedger
  BY OrderIds DEF Init, SeatLedger, RowsAgree, OrdersHaveSeats, SeatsHaveOrders,
                  PaidOrdersAreDisjoint, Live

\* The lifecycle transactions keep rows and seats together.
LEMMA LedgerStep == TypeOK /\ SeatLedger /\ [Next]_vars => SeatLedger'
<1> SUFFICES ASSUME TypeOK, SeatLedger, [Next]_vars PROVE SeatLedger'
  OBVIOUS
<1> USE OrderIds DEF SeatLedger, RowsAgree, OrdersHaveSeats, SeatsHaveOrders,
                     PaidOrdersAreDisjoint, Live, TypeOK
<1>1. CASE KeepOrder
  BY <1>1 DEF KeepOrder, seatVars, orderVars
<1>2. ASSUME NEW o \in Orders, NEW S \in SUBSET Seats, CreateReservation(o, S)
      PROVE  SeatLedger'
  <2>1. RowsAgree'
    BY <1>2 DEF CreateReservation, Fresh, OnSale
  <2>2. OrdersHaveSeats'
    BY <1>2 DEF CreateReservation, Fresh, OnSale
  <2>3. SeatsHaveOrders'
    BY <1>2 DEF CreateReservation, Fresh, OnSale
  <2>4. PaidOrdersAreDisjoint'
    BY <1>2 DEF CreateReservation, Fresh, OnSale
  <2>5. QED
    BY <2>1, <2>2, <2>3, <2>4
<1>3. ASSUME NEW o \in Orders, NEW t \in {"CANCELLED", "EXPIRED"}, Close(o, t)
      PROVE  SeatLedger'
  <2> USE DEF Close, Intact, SetSeats
  <2>1. RowsAgree'
    BY <1>3
  <2>2. OrdersHaveSeats'
    BY <1>3
  <2>3. SeatsHaveOrders'
    BY <1>3
  <2>4. PaidOrdersAreDisjoint'
    BY <1>3
  <2>5. QED
    BY <2>1, <2>2, <2>3, <2>4
<1>4. ASSUME NEW o \in Orders, CommitAccept(o) PROVE SeatLedger'
  <2> USE DEF CommitAccept, Acceptable, Pending, Intact, SetSeats
  <2>1. RowsAgree'
    BY <1>4
  <2>2. OrdersHaveSeats'
    BY <1>4
  <2>3. SeatsHaveOrders'
    BY <1>4
  <2>4. PaidOrdersAreDisjoint'
    BY <1>4
  <2>5. QED
    BY <2>1, <2>2, <2>3, <2>4
<1>5. ASSUME NEW o \in Orders, CommitReturn(o) PROVE SeatLedger'
  <2> USE DEF CommitReturn, SetSeats
  <2>1. RowsAgree'
    BY <1>5
  <2>2. OrdersHaveSeats'
    BY <1>5
  <2>3. SeatsHaveOrders'
    BY <1>5
  <2>4. PaidOrdersAreDisjoint'
    BY <1>5
  <2>5. QED
    BY <2>1, <2>2, <2>3, <2>4
<1>6. QED
  BY <1>1, <1>2, <1>3, <1>4, <1>5, LedgerSteps

\* The ledger holds in every state.
THEOREM LedgerCorrect == Spec => []SeatLedger
  BY TypeInit, TypeStep, TypeCorrect, LedgerInit, LedgerStep, PTL DEF Spec

\* No seat is sold twice: every seat that is HELD or SOLD has exactly one pending
\* or paid order, although a SOLD seat no longer points to it.
THEOREM OneOwner == Spec => []SeatsHaveOneOwner
<1>1. SeatLedger /\ TypeOK => SeatsHaveOneOwner
  <2> SUFFICES ASSUME SeatLedger, TypeOK PROVE SeatsHaveOneOwner
    OBVIOUS
  <2> USE OrderIds DEF SeatLedger, OrdersHaveSeats, SeatsHaveOrders, PaidOrdersAreDisjoint, Live
  <2> SUFFICES ASSUME NEW s \in Seats
               PROVE  LET owners == {o \in Orders : Live(o) /\ s \in items[o]} IN
                      /\ seatStatus[s] = "AVAILABLE" => owners = {} /\ seatHolder[s] = NoOrder
                      /\ seatStatus[s] = "HELD" => /\ owners = {seatHolder[s]}
                                                   /\ order[seatHolder[s]] = "PENDING_PAYMENT"
                      /\ seatStatus[s] = "SOLD" =>
                            /\ seatHolder[s] = NoOrder
                            /\ \E o \in Orders : owners = {o} /\ order[o] = "PAID"
    BY DEF SeatsHaveOneOwner
  <2> DEFINE owners == {o \in Orders : Live(o) /\ s \in items[o]}
  <2>1. CASE seatStatus[s] = "AVAILABLE"
    BY <2>1
  <2>2. CASE seatStatus[s] = "HELD"
    BY <2>2
  <2>3. CASE seatStatus[s] = "SOLD"
    <3>1. PICK o \in Orders : order[o] = "PAID" /\ s \in items[o]
      BY <2>3
    <3>2. \A p \in Orders : Live(p) /\ s \in items[p] => p = o
      BY <2>3, <3>1
    <3>3. owners = {o}
      BY <3>1, <3>2
    <3>4. QED
      BY <2>3, <3>1, <3>3
  <2>4. QED
    BY <2>1, <2>2, <2>3 DEF TypeOK, SeatStates
<1>2. QED
  BY <1>1, TypeCorrect, LedgerCorrect, PTL

\* The lifecycle services never meet the rows they log an invariant failure about.
THEOREM ChecksHold == Spec => []LifecycleChecksHold
<1>1. SeatLedger => LifecycleChecksHold
  <2> SUFFICES ASSUME SeatLedger, NEW o \in Orders
               PROVE  /\ order[o] = "PENDING_PAYMENT" => Intact(o)
                      /\ order[o] = "PAID" => reservation[o] = "CONFIRMED" /\ SoleOwner(o) /\ ~refunded[o]
                      /\ order[o] \in {"NONE", "CANCELLED", "EXPIRED"} => reservation[o] = order[o]
    BY DEF LifecycleChecksHold
  <2> USE DEF SeatLedger, RowsAgree, OrdersHaveSeats, PaidOrdersAreDisjoint, Live
  <2>1. order[o] = "PENDING_PAYMENT" => Intact(o)
    BY DEF Intact
  <2>2. order[o] = "PAID" => SoleOwner(o)
    <3> SUFFICES ASSUME order[o] = "PAID", NEW s \in items[o]
                 PROVE  {p \in Orders : s \in items[p] /\ reservation[p] = "CONFIRMED"
                                                       /\ order[p] = "PAID"} = {o}
      BY DEF SoleOwner
    <3>1. \A p \in Orders : order[p] = "PAID" /\ s \in items[p] => p = o
      OBVIOUS
    <3>2. QED
      BY <3>1
  <2>3. QED
    BY <2>1, <2>2
<1>2. QED
  BY <1>1, LedgerCorrect, PTL

-----------------------------------------------------------------------------
(* TicketOrders implements SeatSales: every lifecycle transaction is a     *)
(* Hold, Sell or GiveBack of a whole order's seats, or does not show.      *)

\* What the seats show.
ShowsSeats ==
    \A s \in Seats :
        /\ seatStatus[s] = "AVAILABLE" => SeatView(s) = Sales!Free
        /\ seatStatus[s] = "HELD" => SeatView(s) = Sales!Claim(seatHolder[s], "held")
        /\ \A o \in Orders : seatStatus[s] = "SOLD" /\ order[o] = "PAID" /\ s \in items[o] =>
              SeatView(s) = Sales!Claim(o, "sold")

\* The view is the one intended, when the ledger is in order.
LEMMA Views == TypeOK /\ SeatLedger => ShowsSeats
<1> SUFFICES ASSUME TypeOK, SeatLedger, NEW s \in Seats
             PROVE  /\ seatStatus[s] = "AVAILABLE" => SeatView(s) = Sales!Free
                    /\ seatStatus[s] = "HELD" => SeatView(s) = Sales!Claim(seatHolder[s], "held")
                    /\ \A o \in Orders :
                          seatStatus[s] = "SOLD" /\ order[o] = "PAID" /\ s \in items[o] =>
                             SeatView(s) = Sales!Claim(o, "sold")
  BY DEF ShowsSeats
<1>1. seatStatus[s] = "AVAILABLE" => SeatView(s) = Sales!Free
  BY DEF SeatView, Sales!Free
<1>2. seatStatus[s] = "HELD" => SeatView(s) = Sales!Claim(seatHolder[s], "held")
  BY DEF SeatView, Sales!Claim
<1>3. ASSUME NEW o \in Orders, seatStatus[s] = "SOLD", order[o] = "PAID", s \in items[o]
      PROVE  SeatView(s) = Sales!Claim(o, "sold")
  <2> DEFINE owner == CHOOSE p \in Orders : order[p] = "PAID" /\ s \in items[p]
  <2>1. owner \in Orders /\ order[owner] = "PAID" /\ s \in items[owner]
    BY <1>3
  <2>2. owner = o
    <3> HIDE DEF owner
    <3>1. QED
      BY <1>3, <2>1 DEF SeatLedger, PaidOrdersAreDisjoint
  <2>3. SeatView(s) = [by |-> owner, how |-> "sold"]
    BY <1>3 DEF SeatView
  <2>4. QED
    BY <2>2, <2>3 DEF Sales!Claim
<1>4. QED
  BY <1>1, <1>2, <1>3

\* A live order is shown with exactly its items, held or sold to it as a whole.
LEMMA LiveOrdersShowItems ==
    ASSUME TypeOK, SeatLedger, NEW o \in Orders, Live(o)
    PROVE  /\ Sales!SeatsOf(o) = items[o]
           /\ order[o] = "PENDING_PAYMENT" =>
                 \A s \in items[o] : SeatView(s) = Sales!Claim(o, "held")
<1>1. \A s \in Seats : /\ seatStatus[s] = "AVAILABLE" => SeatView(s).by = NoOrder
                       /\ seatStatus[s] = "HELD" => SeatView(s).by = seatHolder[s]
                       /\ \A p \in Orders : seatStatus[s] = "SOLD" /\ order[p] = "PAID" /\ s \in items[p]
                             => SeatView(s).by = p
  BY Views DEF ShowsSeats, Sales!Free, Sales!Claim
<1>2. \A s \in Seats : seatStatus[s] \in SeatStates
  BY DEF TypeOK
<1>3. \A s \in Seats : SeatView(s).by = o <=> s \in items[o]
  <2> SUFFICES ASSUME NEW s \in Seats PROVE SeatView(s).by = o <=> s \in items[o]
    OBVIOUS
  <2>1. CASE seatStatus[s] = "AVAILABLE"
    BY <1>1, <2>1, OrderIds DEF SeatLedger, OrdersHaveSeats, Live
  <2>2. CASE seatStatus[s] = "HELD"
    BY <1>1, <2>2, OrderIds DEF SeatLedger, OrdersHaveSeats, SeatsHaveOrders, Live
  <2>3. CASE seatStatus[s] = "SOLD"
    <3>1. PICK p \in Orders : order[p] = "PAID" /\ s \in items[p]
      BY <2>3 DEF SeatLedger, SeatsHaveOrders
    <3>2. SeatView(s).by = p
      BY <1>1, <2>3, <3>1
    <3>3. s \in items[o] => o = p
      BY <2>3, <3>1 DEF SeatLedger, OrdersHaveSeats, PaidOrdersAreDisjoint, Live
    <3>4. QED
      BY <3>1, <3>2, <3>3
  <2>4. QED
    BY <1>2, <2>1, <2>2, <2>3 DEF SeatStates
<1>4. Sales!SeatsOf(o) = items[o]
  BY <1>3 DEF Sales!SeatsOf, TypeOK
<1>5. order[o] = "PENDING_PAYMENT" => \A s \in items[o] : SeatView(s) = Sales!Claim(o, "held")
  BY Views DEF ShowsSeats, SeatLedger, OrdersHaveSeats, TypeOK
<1>6. QED
  BY <1>4, <1>5

LEMMA ViewsPrimed == ASSUME TypeOK', SeatLedger' PROVE ShowsSeats'
<1>1. (TypeOK /\ SeatLedger => ShowsSeats)'
  BY Views, PTL
<1>2. QED
  BY <1>1

\* A seat shows the same after a step that leaves its row and its owner alone.
LEMMA ViewKept ==
    ASSUME TypeOK, SeatLedger, TypeOK', SeatLedger', NEW s \in Seats,
           seatStatus'[s] = seatStatus[s], seatHolder'[s] = seatHolder[s],
           \A p \in Orders : order[p] = "PAID" /\ s \in items[p] =>
              order'[p] = "PAID" /\ s \in items'[p]
    PROVE  SeatView(s)' = SeatView(s)
<1>1. ShowsSeats /\ ShowsSeats'
  BY Views, ViewsPrimed
<1>2. CASE seatStatus[s] \in {"AVAILABLE", "HELD"}
  BY <1>1, <1>2 DEF ShowsSeats, Sales!Free, Sales!Claim
<1>3. CASE seatStatus[s] = "SOLD"
  <2>1. PICK p \in Orders : order[p] = "PAID" /\ s \in items[p]
    BY <1>3 DEF SeatLedger, SeatsHaveOrders
  <2>2. SeatView(s) = Sales!Claim(p, "sold") /\ SeatView(s)' = Sales!Claim(p, "sold")
    BY <1>1, <1>3, <2>1 DEF ShowsSeats, Sales!Claim
  <2>3. QED
    BY <2>2
<1>4. QED
  BY <1>2, <1>3 DEF TypeOK, SeatStates

\* A reservation is a Hold.
LEMMA HoldStep ==
    ASSUME TypeOK, SeatLedger, TypeOK', SeatLedger',
           NEW o \in Orders, NEW S \in SUBSET Seats, CreateReservation(o, S)
    PROVE  Sales!Hold(o, S)
<1>1. ShowsSeats /\ ShowsSeats'
  BY Views, ViewsPrimed
<1>2. /\ o \notin {p \in Orders : order[p] # "NONE"} /\ S # {}
      /\ \A s \in S : SeatView(s) = Sales!Free
  BY <1>1 DEF CreateReservation, Fresh, OnSale, ShowsSeats
<1>3. {p \in Orders : order[p] # "NONE"}' = {p \in Orders : order[p] # "NONE"} \cup {o}
  BY DEF CreateReservation, Fresh, OnSale, TypeOK
<1>4. ASSUME NEW s \in Seats
      PROVE  SeatView(s)' = IF s \in S THEN Sales!Claim(o, "held") ELSE SeatView(s)
  <2>1. CASE s \in S
    BY <1>1, <2>1 DEF CreateReservation, Fresh, OnSale, ShowsSeats
  <2>2. CASE s \notin S
    BY <2>2, ViewKept DEF CreateReservation, Fresh, OnSale, TypeOK
  <2>3. QED
    BY <2>1, <2>2
<1>5. [s \in Seats |-> SeatView(s)]' =
         [s \in Seats |-> IF s \in S THEN Sales!Claim(o, "held") ELSE SeatView(s)]
  BY <1>4
<1>6. QED
  BY <1>2, <1>3, <1>5 DEF Sales!Hold, Sales!Move

\* An accepted payment is a Sell.
LEMMA SellStep ==
    ASSUME TypeOK, SeatLedger, TypeOK', SeatLedger', NEW o \in Orders, CommitAccept(o)
    PROVE  Sales!Sell(o)
<1>1. ShowsSeats'
  BY ViewsPrimed
<1>2. order[o] = "PENDING_PAYMENT" /\ Intact(o)
  BY DEF CommitAccept, Acceptable, Pending
<1>3. /\ Sales!SeatsOf(o) = items[o] /\ items[o] # {}
      /\ \A s \in items[o] : SeatView(s) = Sales!Claim(o, "held")
  BY <1>2, LiveOrdersShowItems DEF Live, Intact
<1>4. ASSUME NEW s \in Seats
      PROVE  SeatView(s)' = IF s \in items[o] THEN Sales!Claim(o, "sold") ELSE SeatView(s)
  <2>1. CASE s \in items[o]
    BY <1>1, <2>1 DEF CommitAccept, SetSeats, ShowsSeats, TypeOK
  <2>2. CASE s \notin items[o]
    BY <2>2, ViewKept DEF CommitAccept, SetSeats, TypeOK
  <2>3. QED
    BY <2>1, <2>2
<1>5. [s \in Seats |-> SeatView(s)]' =
         [s \in Seats |-> IF s \in items[o] THEN Sales!Claim(o, "sold") ELSE SeatView(s)]
  BY <1>4
<1>6. {p \in Orders : order[p] # "NONE"}' = {p \in Orders : order[p] # "NONE"}
  BY <1>2 DEF CommitAccept, TypeOK
<1>7. items[o] \subseteq Seats
  BY DEF TypeOK
<1>8. QED
  BY <1>3, <1>5, <1>6, <1>7 DEF Sales!Sell, Sales!Move

\* Closing a pending order and returning a paid one are both a GiveBack.
LEMMA GiveBackStep ==
    ASSUME TypeOK, SeatLedger, TypeOK', SeatLedger', NEW o \in Orders,
           NEW t \in {"CANCELLED", "EXPIRED"},
           Live(o), SetSeats(o, "AVAILABLE"), order' = [order EXCEPT ![o] = t]
    PROVE  Sales!GiveBack(o)
<1>1. ShowsSeats'
  BY ViewsPrimed
<1>2. Sales!SeatsOf(o) = items[o] /\ items[o] # {}
  BY LiveOrdersShowItems DEF SeatLedger, OrdersHaveSeats
<1>3. ASSUME NEW s \in Seats
      PROVE  SeatView(s)' = IF s \in items[o] THEN Sales!Free ELSE SeatView(s)
  <2>1. CASE s \in items[o]
    BY <1>1, <2>1 DEF SetSeats, ShowsSeats, TypeOK
  <2>2. CASE s \notin items[o]
    BY <2>2, ViewKept DEF SetSeats, TypeOK
  <2>3. QED
    BY <2>1, <2>2
<1>4. [s \in Seats |-> SeatView(s)]' =
         [s \in Seats |-> IF s \in items[o] THEN Sales!Free ELSE SeatView(s)]
  BY <1>3
<1>5. {p \in Orders : order[p] # "NONE"}' = {p \in Orders : order[p] # "NONE"}
  BY DEF TypeOK, Live
<1>6. QED
  BY <1>2, <1>4, <1>5 DEF Sales!GiveBack, Sales!Move

\* Every transaction is a step of SeatSales or does not show.
LEMMA SalesStep ==
    TypeOK /\ SeatLedger /\ TypeOK' /\ SeatLedger' /\ [Next]_vars => [Sales!Next]_(Sales!vars)
<1> SUFFICES ASSUME TypeOK, SeatLedger, TypeOK', SeatLedger', [Next]_vars
             PROVE  [Sales!Next]_(Sales!vars)
  OBVIOUS
<1>1. CASE KeepOrder
  <2>1. \A s \in Seats : SeatView(s)' = SeatView(s)
    BY <1>1, ViewKept DEF KeepOrder, seatVars, orderVars
  <2>2. [s \in Seats |-> SeatView(s)]' = [s \in Seats |-> SeatView(s)]
    BY <2>1
  <2>3. {p \in Orders : order[p] # "NONE"}' = {p \in Orders : order[p] # "NONE"}
    BY <1>1 DEF KeepOrder, orderVars
  <2>4. QED
    BY <2>2, <2>3 DEF Sales!vars
<1>2. ASSUME NEW o \in Orders, NEW S \in SUBSET Seats, CreateReservation(o, S)
      PROVE  Sales!Next
  BY <1>2, HoldStep DEF Sales!Next
<1>3. ASSUME NEW o \in Orders, NEW t \in {"CANCELLED", "EXPIRED"}, Close(o, t)
      PROVE  Sales!Next
  <2>1. Live(o)
    BY <1>3 DEF Close, Intact, Live, SeatLedger, RowsAgree, TypeOK, OrderStates
  <2>2. QED
    BY <1>3, <2>1, GiveBackStep DEF Close, Sales!Next
<1>4. ASSUME NEW o \in Orders, CommitAccept(o) PROVE Sales!Next
  BY <1>4, SellStep DEF Sales!Next
<1>5. ASSUME NEW o \in Orders, CommitReturn(o) PROVE Sales!Next
  BY <1>5, GiveBackStep DEF CommitReturn, Live, Sales!Next
<1>6. QED
  BY <1>1, <1>2, <1>3, <1>4, <1>5, LedgerSteps

\* Orders, payments and refunds implement the seat sales the backend promises.
THEOREM Implements == Spec => ImplementsSeatSales
<1>1. Init => Sales!Init
  BY DEF Init, Sales!Init, SeatView, Sales!Free
<1>2. Spec => [](TypeOK /\ SeatLedger)
  BY TypeCorrect, LedgerCorrect, PTL
<1>3. QED
  BY <1>1, <1>2, SalesStep, PTL DEF Spec, ImplementsSeatSales, Sales!Spec

-----------------------------------------------------------------------------
(* What a transaction read when it took the row lock.                      *)

\* The attempt a transaction answers, and the channel's answer it carries.
CarriedAnswers ==
    \A o \in Orders :
        /\ tx[o].kind \in {"callback", "refund"} => tx[o].attempt \in Attempts
        /\ tx[o].kind = "refund" =>
              refundChannel[tx[o].attempt] = IF tx[o].ok THEN "succeeded" ELSE "failed"

LockInv == LockedReadsStayTrue /\ CarriedAnswers /\ MoneyAccountedFor

LEMMA LockInit == Init => LockInv
  BY DEF Init, LockInv, LockedReadsStayTrue, CarriedAnswers, MoneyAccountedFor, NoTx

\* Opening a transaction reads the rows as they are.
LEMMA LockBegin ==
    ASSUME TypeOK, LockInv, NEW o \in Orders,
           NEW kind \in TxKinds, NEW a \in Attempts \cup {NoAttempt}, NEW ok \in BOOLEAN,
           Begin(o, kind, a, ok),
           kind \in {"pay", "cancel", "expire"} => Pending(o),
           kind = "ask" => order[o] = "PAID",
           kind \in {"callback", "refund"} => a \in Attempts /\ orderOf[a] = o,
           kind = "callback" => Completable(a),
           kind = "refund" => /\ refund[a] = "PROCESSING"
                              /\ refundChannel[a] = IF ok THEN "succeeded" ELSE "failed"
    PROVE  LockInv'
<1>1. \A p \in Orders : tx'[p] = IF p = o THEN [kind |-> kind, expired |-> expired[o],
                                               attempt |-> a, ok |-> ok] ELSE tx[p]
  BY DEF Begin, TypeOK
<1>2. LockedReadsStayTrue'
  BY <1>1 DEF LockInv, LockedReadsStayTrue, Begin, Pending, Completable, seatVars, orderVars,
              attemptVars, refundVars, clockVars, channelVars
<1>3. CarriedAnswers'
  BY <1>1 DEF LockInv, CarriedAnswers, Begin, channelVars
<1>4. MoneyAccountedFor'
  BY DEF LockInv, MoneyAccountedFor, Begin, attemptVars, refundVars
<1>5. QED
  BY <1>2, <1>3, <1>4 DEF LockInv

\* A transaction of another order keeps what this one read.
LEMMA LockStep == TypeOK /\ SeatLedger /\ LockInv /\ [Next]_vars => LockInv'
<1> SUFFICES ASSUME TypeOK, SeatLedger, LockInv, [Next]_vars PROVE LockInv'
  OBVIOUS
<1> USE DEF seatVars, orderVars, attemptVars, refundVars, clockVars, channelVars
<1>0. \A o \in Orders : tx[o].kind \in TxKinds /\ tx[o].expired \in BOOLEAN /\ tx[o].ok \in BOOLEAN
  BY DEF TypeOK, Txs
<1> USE DEF LockInv, LockedReadsStayTrue, CarriedAnswers, MoneyAccountedFor, Completable, Pending,
            Committing, NoTx, TypeOK
<1>1. CASE UNCHANGED vars
  BY <1>1 DEF vars
<1>2. CASE SessionStarts
  BY <1>2 DEF SessionStarts
<1>3. ASSUME NEW o \in Orders, OrderExpires(o) PROVE LockInv'
  BY <1>3 DEF OrderExpires
<1>4. ASSUME NEW a \in Attempts, GraceEnds(a) PROVE LockInv'
  BY <1>4 DEF GraceEnds
<1>5. ASSUME NEW a \in Attempts, OpenPayment(a) PROVE LockInv'
  BY <1>5 DEF OpenPayment
<1>6. ASSUME NEW a \in Attempts, CustomerPays(a) PROVE LockInv'
  BY <1>6 DEF CustomerPays
<1>7. ASSUME NEW a \in Attempts, ChannelRefunds(a) PROVE LockInv'
  BY <1>7 DEF ChannelRefunds
<1>8. ASSUME NEW o \in Orders, NEW S \in SUBSET Seats, CreateReservation(o, S) PROVE LockInv'
  BY <1>8 DEF CreateReservation, Fresh, OnSale
<1>9. ASSUME NEW o \in Orders, BeginPay(o) PROVE LockInv'
  BY <1>9, LockBegin DEF BeginPay, TxKinds
<1>10. ASSUME NEW o \in Orders, BeginCancel(o) PROVE LockInv'
  BY <1>10, LockBegin DEF BeginCancel, TxKinds
<1>11. ASSUME NEW o \in Orders, BeginAsk(o) PROVE LockInv'
  BY <1>11, LockBegin DEF BeginAsk, TxKinds
<1>12. ASSUME NEW o \in Orders, BeginExpire(o) PROVE LockInv'
  BY <1>12, LockBegin DEF BeginExpire, TxKinds
<1>13. ASSUME NEW a \in Attempts, orderOf[a] \in Orders, BeginCallback(a) PROVE LockInv'
  BY <1>13, LockBegin DEF BeginCallback, TxKinds
<1>14. ASSUME NEW a \in Attempts, orderOf[a] \in Orders, BeginRefund(a) PROVE LockInv'
  BY <1>14, LockBegin DEF BeginRefund, TxKinds
<1>15. ASSUME NEW o \in Orders, NEW a \in Attempts, CommitNewAttempt(o, a) PROVE LockInv'
  BY <1>15 DEF CommitNewAttempt, TimeOut, Stale, Processing, KeepOrder
<1>16. ASSUME NEW o \in Orders, CommitTimeOut(o) PROVE LockInv'
  BY <1>16 DEF CommitTimeOut, TimeOut, Stale, Processing, KeepOrder
<1>17. ASSUME NEW o \in Orders, CommitCancel(o) \/ CommitExpire(o) PROVE LockInv'
  <2> USE <1>17 DEF CommitCancel, CommitExpire
  <2>1. /\ tx[o].kind \in {"cancel", "expire"} /\ tx' = [tx EXCEPT ![o] = NoTx]
        /\ attempt' = TimeOut(Stale(o))
        /\ UNCHANGED <<orderOf, inTime, accepted, refundVars, clockVars, channelVars>>
    OBVIOUS
  <2>2. \A p \in Orders : p # o => order'[p] = order[p]
    BY DEF Close
  <2> HIDE <1>17
  <2>3. QED
    BY <2>1, <2>2 DEF TimeOut, Stale, Processing
<1>20. ASSUME NEW o \in Orders, CommitAccept(o) PROVE LockInv'
  BY <1>20 DEF CommitAccept, Answered, SetSeats
<1>21. ASSUME NEW o \in Orders, CommitAnswer(o) PROVE LockInv'
  <2> DEFINE a == tx[o].attempt
  <2>1. /\ tx[o].kind = "callback" /\ tx' = [tx EXCEPT ![o] = NoTx]
        /\ UNCHANGED <<orderOf, inTime, accepted, clockVars, channelVars>>
        /\ a \in Attempts /\ orderOf[a] = o
        /\ attempt[a] \in {"PROCESSING", "TIMED_OUT"}
    BY <1>21 DEF CommitAnswer
  <2>2. \A p \in Orders : p # o => order'[p] = order[p]
    BY <1>21 DEF CommitAnswer, Close, KeepOrder
  <2>3. /\ attempt'[a] = AnswerStatus(o)
        /\ \A b \in Attempts : b # a =>
              \/ attempt'[b] = attempt[b]
              \/ attempt[b] = "PROCESSING" /\ attempt'[b] = "TIMED_OUT"
    <3> DEFINE g == TimeOut(Others(o))
    <3>1. \/ attempt' = [attempt EXCEPT ![a] = AnswerStatus(o)]
          \/ attempt' = [g EXCEPT ![a] = AnswerStatus(o)]
      BY <1>21 DEF CommitAnswer, Answered
    <3>2. /\ DOMAIN g = Attempts
          /\ \A b \in Attempts : \/ g[b] = attempt[b]
                                 \/ attempt[b] = "PROCESSING" /\ g[b] = "TIMED_OUT"
      BY DEF TimeOut, Others, Processing
    <3> HIDE DEF a, g
    <3>3. QED
      BY <2>1, <3>1, <3>2
  <2>4. ~accepted[a] /\ refund[a] = "NONE" /\ source[a] = "NONE"
    BY <2>1
  <2>5. /\ \A b \in Attempts : b # a => refund'[b] = refund[b] /\ source'[b] = source[b]
        /\ tx[o].ok => refund'[a] = "PROCESSING" /\ source'[a] = "SYSTEM"
        /\ ~tx[o].ok => refund'[a] = "NONE" /\ source'[a] = "NONE"
    <3>1. CASE tx[o].ok
      <4>1. RecordRefund(a, "SYSTEM")
        BY <1>21, <3>1 DEF CommitAnswer, RecordAnswer, Answered
      <4>2. QED
        BY <2>1, <2>4, <3>1, <4>1 DEF RecordRefund
    <3>2. CASE ~tx[o].ok
      <4>1. UNCHANGED refundVars
        BY <1>21, <3>2 DEF CommitAnswer, RecordAnswer
      <4>2. QED
        BY <2>4, <3>2, <4>1
    <3>3. QED
      BY <3>1, <3>2
  <2>6. MoneyAccountedFor'
    BY <2>1, <2>3, <2>4, <2>5 DEF AnswerStatus
  <2>7. LockedReadsStayTrue' /\ CarriedAnswers'
    BY <2>1, <2>2, <2>3, <2>5
  <2>8. QED
    BY <2>6, <2>7
<1>22. ASSUME NEW o \in Orders, NEW a \in Attempts, CommitAsk(o, a) PROVE LockInv'
  BY <1>22 DEF CommitAsk, RecordRefund, KeepOrder
<1>23. ASSUME NEW o \in Orders, CommitRefund(o) PROVE LockInv'
  BY <1>23 DEF CommitRefund, LeavesOrder, Answered, SettleRefund, KeepOrder
<1>24. ASSUME NEW o \in Orders, CommitReturn(o) PROVE LockInv'
  BY <1>24 DEF CommitReturn, Answered, SettleRefund, SetSeats
<1>25. ASSUME NEW o \in Orders, Rollback(o) PROVE LockInv'
  BY <1>25 DEF Rollback
<1>26. QED
  BY <1>1, <1>2, <1>3, <1>4, <1>5, <1>6, <1>7, <1>8, <1>9, <1>10, <1>11, <1>12, <1>13, <1>14,
     <1>15, <1>16, <1>17, <1>20, <1>21, <1>22, <1>23, <1>24, <1>25, NextCases

\* Transactions see the truth for as long as they hold the order's row.
THEOREM LockedReads == Spec => [](LockInv /\ LockedReadsStayTrue)
<1>1. LockInv => LockedReadsStayTrue
  BY DEF LockInv
<1>2. QED
  BY <1>1, LockInit, LockStep, TypeCorrect, LedgerCorrect, PTL DEF Spec

\* A reported success is accepted or owed back, and nothing else is ever refunded.
THEOREM MoneyIsAccountedFor == Spec => []MoneyAccountedFor
<1>1. LockInv => MoneyAccountedFor
  BY DEF LockInv
<1>2. QED
  BY <1>1, LockedReads, PTL

-----------------------------------------------------------------------------
(* Who paid for what.                                                      *)

Taken(o) == {a \in Attempts : orderOf[a] = o /\ accepted[a]}

\* PaidByOneAttempt in the words of the proofs.
LEMMA PaidByOneAttemptDef ==
    PaidByOneAttempt <=>
        \A o \in Orders :
            /\ order[o] = "PAID" => \E a \in Attempts : Taken(o) = {a} /\ refund[a] # "SUCCEEDED"
            /\ refunded[o] => \E a \in Attempts : /\ Taken(o) = {a} /\ order[o] = "CANCELLED"
                                                  /\ source[a] = "BUYER" /\ refund[a] = "SUCCEEDED"
            /\ order[o] # "PAID" /\ ~refunded[o] => Taken(o) = {}
  BY DEF PaidByOneAttempt, Taken

LEMMA PaidInit == Init => PaidByOneAttempt
  BY DEF Init, PaidByOneAttempt

\* A step that accepts no attempt, gives no order away and settles no refund of an
\* accepted attempt keeps who paid for what.
LEMMA PaidKept ==
    ASSUME TypeOK, LockInv, PaidByOneAttempt,
           \A o \in Orders : refunded'[o] = refunded[o] /\ (order'[o] = order[o] \/ Intact(o)),
           SeatLedger,
           \A o \in Orders : order'[o] # order[o] => order'[o] # "PAID",
           accepted' = accepted,
           \A a \in Attempts : orderOf'[a] = orderOf[a] \/ attempt[a] = "NONE",
           \A a \in Attempts : accepted[a] => refund'[a] = refund[a] /\ source'[a] = source[a]
    PROVE  PaidByOneAttempt'
<1>1. \A a \in Attempts : accepted[a] => attempt[a] = "SUCCEEDED"
  BY DEF LockInv, MoneyAccountedFor
<1>2. \A o \in Orders : Taken(o)' = Taken(o)
  BY <1>1 DEF Taken
<1>3. \A o \in Orders : Intact(o) => order[o] # "PAID" /\ order[o] # "CANCELLED"
  BY DEF Intact, SeatLedger, RowsAgree, TypeOK, OrderStates
<1>4. SUFFICES ASSUME NEW o \in Orders
               PROVE  /\ order'[o] = "PAID" => \E a \in Attempts : Taken(o)' = {a} /\ refund'[a] # "SUCCEEDED"
                      /\ refunded'[o] => \E a \in Attempts :
                            /\ Taken(o)' = {a} /\ order'[o] = "CANCELLED"
                            /\ source'[a] = "BUYER" /\ refund'[a] = "SUCCEEDED"
                      /\ order'[o] # "PAID" /\ ~refunded'[o] => Taken(o)' = {}
  BY DEF PaidByOneAttempt, Taken
<1>5. \A a \in Attempts : Taken(o) = {a} => accepted[a]
  BY DEF Taken
<1>6. refunded[o] => order'[o] = order[o]
  BY <1>3, PaidByOneAttemptDef
<1>7. QED
  BY <1>2, <1>3, <1>5, <1>6, PaidByOneAttemptDef

\* Three transactions change who paid for what; the others are PaidKept.
LEMMA PaidStep ==
    TypeOK /\ SeatLedger /\ LockInv /\ PaidByOneAttempt /\ [Next]_vars => PaidByOneAttempt'
<1> SUFFICES ASSUME TypeOK, SeatLedger, LockInv, PaidByOneAttempt, [Next]_vars
             PROVE  PaidByOneAttempt'
  OBVIOUS
<1> USE DEF seatVars, orderVars, attemptVars, refundVars, clockVars, channelVars
<1>1. CASE UNCHANGED vars
  BY <1>1, PaidKept DEF vars
<1>2. CASE SessionStarts \/ \E o \in Orders : OrderExpires(o) \/ Rollback(o)
  BY <1>2, PaidKept DEF SessionStarts, OrderExpires, Rollback
<1>3. CASE \E a \in Attempts : \/ GraceEnds(a) \/ OpenPayment(a) \/ CustomerPays(a)
                               \/ ChannelRefunds(a) \/ BeginCallback(a) \/ BeginRefund(a)
  BY <1>3, PaidKept DEF GraceEnds, OpenPayment, CustomerPays, ChannelRefunds, BeginCallback,
                        BeginRefund, Begin
<1>4. CASE \E o \in Orders : BeginPay(o) \/ BeginCancel(o) \/ BeginAsk(o) \/ BeginExpire(o)
  BY <1>4, PaidKept DEF BeginPay, BeginCancel, BeginAsk, BeginExpire, Begin
<1>5. ASSUME NEW o \in Orders, NEW S \in SUBSET Seats, CreateReservation(o, S)
      PROVE  PaidByOneAttempt'
  <2>1. order[o] = "NONE" /\ order' = [order EXCEPT ![o] = "PENDING_PAYMENT"]
        /\ UNCHANGED <<refunded, orderOf, accepted, refund, source>>
    BY <1>5 DEF CreateReservation, Fresh, OnSale
  <2>2. QED
    BY <2>1 DEF PaidByOneAttempt, TypeOK
<1>6. ASSUME NEW o \in Orders, NEW a \in Attempts, CommitNewAttempt(o, a)
      PROVE  PaidByOneAttempt'
  <2>1. /\ attempt[a] = "NONE" /\ orderOf' = [orderOf EXCEPT ![a] = o]
        /\ UNCHANGED <<order, refunded, accepted, refund, source>>
    BY <1>6 DEF CommitNewAttempt, KeepOrder
  <2>2. QED
    BY <2>1, PaidKept DEF TypeOK
<1>7. ASSUME NEW o \in Orders, CommitTimeOut(o) PROVE PaidByOneAttempt'
  BY <1>7, PaidKept DEF CommitTimeOut, KeepOrder
<1>8. ASSUME NEW o \in Orders, NEW t \in {"CANCELLED", "EXPIRED"}, Close(o, t),
             UNCHANGED <<orderOf, accepted>>,
             \A a \in Attempts : accepted[a] => refund'[a] = refund[a] /\ source'[a] = source[a]
      PROVE  PaidByOneAttempt'
  BY <1>8, PaidKept DEF Close, TypeOK
<1>9. ASSUME NEW o \in Orders, CommitCancel(o) \/ CommitExpire(o) PROVE PaidByOneAttempt'
  BY <1>8, <1>9 DEF CommitCancel, CommitExpire
<1>10. ASSUME NEW o \in Orders, CommitAnswer(o) PROVE PaidByOneAttempt'
  <2>1. tx[o].attempt \in Attempts /\ ~accepted[tx[o].attempt]
    BY <1>10 DEF CommitAnswer, Committing, LockInv, LockedReadsStayTrue, CarriedAnswers,
                 MoneyAccountedFor, Completable
  <2>2. \A a \in Attempts : accepted[a] => refund'[a] = refund[a] /\ source'[a] = source[a]
    BY <1>10, <2>1 DEF CommitAnswer, RecordAnswer, RecordRefund, Answered, TypeOK
  <2>3. CASE Close(o, "EXPIRED")
    BY <1>8, <1>10, <2>2, <2>3 DEF CommitAnswer
  <2>4. CASE KeepOrder
    BY <1>10, <2>2, <2>4, PaidKept DEF CommitAnswer, KeepOrder
  <2>5. QED
    BY <1>10, <2>3, <2>4 DEF CommitAnswer
<1>11. ASSUME NEW o \in Orders, CommitAccept(o) PROVE PaidByOneAttempt'
  <2> DEFINE a == tx[o].attempt
  <2>1. a \in Attempts /\ orderOf[a] = o /\ refund[a] = "NONE"
    BY <1>11 DEF CommitAccept, Committing, LockInv, LockedReadsStayTrue, CarriedAnswers,
                 MoneyAccountedFor, Completable
  <2>2. order[o] = "PENDING_PAYMENT" /\ ~refunded[o]
    BY <1>11 DEF CommitAccept, Acceptable, Pending, SeatLedger, RowsAgree
  <2>3. /\ accepted' = [accepted EXCEPT ![a] = TRUE]
        /\ order' = [order EXCEPT ![o] = "PAID"]
        /\ UNCHANGED <<refunded, orderOf, refund, source>>
    BY <1>11 DEF CommitAccept, Answered
  <2>4. Taken(o)' = {a} /\ \A p \in Orders \ {o} : Taken(p)' = Taken(p)
    BY <2>1, <2>2, <2>3, PaidByOneAttemptDef DEF Taken, TypeOK
  <2>5. \A p \in Orders : order'[p] = IF p = o THEN "PAID" ELSE order[p]
    BY <2>3 DEF TypeOK
  <2> HIDE DEF a
  <2>6. ASSUME NEW p \in Orders
        PROVE  /\ order'[p] = "PAID" => \E b \in Attempts : Taken(p)' = {b} /\ refund'[b] # "SUCCEEDED"
               /\ refunded'[p] => \E b \in Attempts :
                     /\ Taken(p)' = {b} /\ order'[p] = "CANCELLED"
                     /\ source'[b] = "BUYER" /\ refund'[b] = "SUCCEEDED"
               /\ order'[p] # "PAID" /\ ~refunded'[p] => Taken(p)' = {}
    BY <2>1, <2>2, <2>3, <2>4, <2>5, PaidByOneAttemptDef
  <2>7. QED
    BY <2>6 DEF PaidByOneAttempt, Taken
<1>12. ASSUME NEW o \in Orders, NEW a \in Attempts, CommitAsk(o, a) PROVE PaidByOneAttempt'
  <2>1. /\ UNCHANGED <<order, refunded, orderOf, accepted>>
        /\ \A b \in Attempts : refund'[b] # refund[b] => refund[b] = "NONE" /\ refund'[b] = "PROCESSING"
        /\ \A b \in Attempts : refund[b] # "NONE" => source'[b] = source[b] /\ refund'[b] = refund[b]
    BY <1>12 DEF CommitAsk, KeepOrder, RecordRefund, TypeOK, LockInv, MoneyAccountedFor
  <2>2. QED
    BY <2>1 DEF PaidByOneAttempt
<1>13. ASSUME NEW o \in Orders, CommitRefund(o) PROVE PaidByOneAttempt'
  <2> DEFINE a == tx[o].attempt
  <2>1. /\ a \in Attempts /\ refund[a] = "PROCESSING" /\ (accepted[a] => ~tx[o].ok)
        /\ refund' = [refund EXCEPT ![a] = IF tx[o].ok THEN "SUCCEEDED" ELSE "FAILED"]
        /\ UNCHANGED <<order, refunded, orderOf, accepted, source>>
    BY <1>13 DEF CommitRefund, LeavesOrder, Committing, Answered, SettleRefund, KeepOrder, LockInv,
                 LockedReadsStayTrue, CarriedAnswers
  <2>2. \A b \in Attempts : accepted[b] /\ refund'[b] # refund[b] => refund'[b] = "FAILED" /\ refund[b] = "PROCESSING"
    BY <2>1 DEF TypeOK
  <2>3. \A p \in Orders, b \in Attempts : Taken(p) = {b} => accepted[b]
    BY DEF Taken
  <2>4. \A p \in Orders : Taken(p)' = Taken(p)
    BY <2>1 DEF Taken
  <2>5. QED
    BY <2>1, <2>2, <2>3, <2>4 DEF PaidByOneAttempt, Taken
<1>14. ASSUME NEW o \in Orders, CommitReturn(o) PROVE PaidByOneAttempt'
  <2> DEFINE a == tx[o].attempt
  <2>1. /\ a \in Attempts /\ orderOf[a] = o /\ accepted[a] /\ source[a] = "BUYER"
        /\ refund[a] = "PROCESSING" /\ order[o] = "PAID"
        /\ refund' = [refund EXCEPT ![a] = "SUCCEEDED"]
        /\ order' = [order EXCEPT ![o] = "CANCELLED"]
        /\ refunded' = [refunded EXCEPT ![o] = TRUE]
        /\ UNCHANGED <<orderOf, accepted, source>>
    BY <1>14 DEF CommitReturn, Committing, Answered, SettleRefund, LockInv,
                 LockedReadsStayTrue, CarriedAnswers
  <2>2. Taken(o) = {a} /\ \A p \in Orders : Taken(p)' = Taken(p)
    BY <2>1 DEF PaidByOneAttempt, Taken
  <2>3. \A p \in Orders \ {o} : /\ order'[p] = order[p] /\ refunded'[p] = refunded[p]
                                /\ \A b \in Attempts : Taken(p) = {b} => refund'[b] = refund[b]
    BY <2>1 DEF TypeOK, Taken
  <2>4. order'[o] = "CANCELLED" /\ refunded'[o] /\ refund'[a] = "SUCCEEDED"
    BY <2>1 DEF TypeOK
  <2> HIDE DEF a
  <2>5. ASSUME NEW p \in Orders
        PROVE  /\ order'[p] = "PAID" => \E b \in Attempts : Taken(p)' = {b} /\ refund'[b] # "SUCCEEDED"
               /\ refunded'[p] => \E b \in Attempts :
                     /\ Taken(p)' = {b} /\ order'[p] = "CANCELLED"
                     /\ source'[b] = "BUYER" /\ refund'[b] = "SUCCEEDED"
               /\ order'[p] # "PAID" /\ ~refunded'[p] => Taken(p)' = {}
    BY <2>1, <2>2, <2>3, <2>4, PaidByOneAttemptDef
  <2>6. QED
    BY <2>5 DEF PaidByOneAttempt, Taken
<1>15. QED
  BY <1>1, <1>2, <1>3, <1>4, <1>5, <1>6, <1>7, <1>9, <1>10, <1>11, <1>12, <1>13, <1>14, NextCases

\* A paid order has exactly one accepted attempt, and a cancelled order keeps one
\* only after that money was returned to the buyer.
THEOREM PaidOnce == Spec => []PaidByOneAttempt
  BY PaidInit, PaidStep, TypeCorrect, LedgerCorrect, LockedReads, PTL DEF Spec

-----------------------------------------------------------------------------
(* The partial unique index on processing attempts never has to fire.      *)

\* A new attempt is the only processing one, and nothing else starts one.
LEMMA OneProcessingStep == TypeOK /\ OneProcessingAttempt /\ [Next]_vars => OneProcessingAttempt'
<1> SUFFICES ASSUME TypeOK, OneProcessingAttempt, [Next]_vars PROVE OneProcessingAttempt'
  OBVIOUS
<1> USE DEF attemptVars
<1>1. ASSUME UNCHANGED orderOf,
             \A b \in Attempts : attempt'[b] = "PROCESSING" => attempt[b] = "PROCESSING"
      PROVE  OneProcessingAttempt'
  BY <1>1 DEF OneProcessingAttempt, Processing
<1>2. CASE UNCHANGED vars
  BY <1>1, <1>2 DEF vars
<1>3. CASE SessionStarts \/ \E o \in Orders : OrderExpires(o) \/ Rollback(o)
  BY <1>1, <1>3 DEF SessionStarts, OrderExpires, Rollback
<1>4. CASE \E a \in Attempts : \/ GraceEnds(a) \/ OpenPayment(a) \/ CustomerPays(a)
                               \/ ChannelRefunds(a) \/ BeginCallback(a) \/ BeginRefund(a)
  BY <1>1, <1>4 DEF GraceEnds, OpenPayment, CustomerPays, ChannelRefunds, BeginCallback,
                    BeginRefund, Begin
<1>5. CASE \E o \in Orders : BeginPay(o) \/ BeginCancel(o) \/ BeginAsk(o) \/ BeginExpire(o)
  BY <1>1, <1>5 DEF BeginPay, BeginCancel, BeginAsk, BeginExpire, Begin
<1>6. CASE \E o \in Orders, S \in SUBSET Seats : CreateReservation(o, S)
  BY <1>1, <1>6 DEF CreateReservation, Fresh, OnSale
<1>7. ASSUME NEW o \in Orders, NEW a \in Attempts, CommitNewAttempt(o, a)
      PROVE  OneProcessingAttempt'
  <2>1. /\ \A b \in Attempts : b # a /\ attempt'[b] = "PROCESSING" =>
              attempt[b] = "PROCESSING" /\ orderOf[b] # o
        /\ orderOf' = [orderOf EXCEPT ![a] = o]
    <3> DEFINE g == TimeOut(Stale(o))
    <3>1. /\ attempt' = [g EXCEPT ![a] = "PROCESSING"]
          /\ \A p \in Processing(o) : ~Valid(p)
          /\ orderOf' = [orderOf EXCEPT ![a] = o]
      BY <1>7 DEF CommitNewAttempt
    <3>2. \A b \in Attempts : g[b] = "PROCESSING" => attempt[b] = "PROCESSING" /\ orderOf[b] # o
      BY <3>1 DEF TimeOut, Stale, Processing
    <3>3. g \in [Attempts -> AttemptStates]
      BY DEF TimeOut, TypeOK, AttemptStates
    <3> HIDE DEF g
    <3>4. QED
      BY <3>1, <3>2, <3>3
  <2>2. \A b \in Attempts : b # a => orderOf'[b] = orderOf[b]
    BY <2>1 DEF TypeOK
  <2>3. orderOf'[a] = o
    BY <2>1 DEF TypeOK
  <2>4. QED
    BY <2>1, <2>2, <2>3 DEF OneProcessingAttempt, Processing
<1>8. CASE \E o \in Orders : CommitTimeOut(o) \/ CommitCancel(o) \/ CommitExpire(o)
  BY <1>1, <1>8 DEF CommitTimeOut, CommitCancel, CommitExpire, TimeOut
<1>9. ASSUME NEW o \in Orders, CommitAnswer(o) PROVE OneProcessingAttempt'
  <2> DEFINE g == TimeOut(Others(o))
  <2>1. \/ attempt' = [attempt EXCEPT ![tx[o].attempt] = AnswerStatus(o)]
        \/ attempt' = [g EXCEPT ![tx[o].attempt] = AnswerStatus(o)]
    BY <1>9 DEF CommitAnswer, Answered
  <2>2. /\ g \in [Attempts -> AttemptStates]
        /\ \A b \in Attempts : g[b] = "PROCESSING" => attempt[b] = "PROCESSING"
    BY DEF TimeOut, TypeOK, AttemptStates
  <2>3. AnswerStatus(o) # "PROCESSING"
    BY DEF AnswerStatus
  <2> HIDE DEF g
  <2>4. \A b \in Attempts : attempt'[b] = "PROCESSING" => attempt[b] = "PROCESSING"
    BY <2>1, <2>2, <2>3 DEF TypeOK
  <2>5. QED
    BY <1>1, <1>9, <2>4 DEF CommitAnswer
<1>10. CASE \E o \in Orders : CommitAccept(o)
  BY <1>1, <1>10 DEF CommitAccept, TypeOK
<1>11. CASE \E o \in Orders, a \in Attempts : CommitAsk(o, a)
  BY <1>1, <1>11 DEF CommitAsk
<1>12. CASE \E o \in Orders : CommitRefund(o) \/ CommitReturn(o)
  BY <1>1, <1>12 DEF CommitRefund, LeavesOrder, CommitReturn
<1>13. QED
  BY <1>2, <1>3, <1>4, <1>5, <1>6, <1>7, <1>8, <1>9, <1>10, <1>11, <1>12, NextCases

\* No interleaving of transactions processes two attempts of an order at once.
THEOREM ProcessingIsUnique == Spec => []OneProcessingAttempt
<1>1. Init => OneProcessingAttempt
  BY DEF Init, OneProcessingAttempt, Processing
<1>2. QED
  BY <1>1, OneProcessingStep, TypeCorrect, PTL DEF Spec

-----------------------------------------------------------------------------
(* What a step may never do.                                               *)

\* A SOLD seat is put on sale again only by the buyer's refund of its order, after
\* the channel returned the money, and together with the order's other seats.
THEOREM ReturnsFollowRefunds == Spec => SoldSeatsComeBackByRefund
<1> DEFINE Back == \A s \in Seats : seatStatus[s] = "SOLD" /\ seatStatus'[s] # "SOLD" =>
                     \E a \in Attempts :
                        /\ source[a] = "BUYER" /\ refund[a] = "PROCESSING" /\ refund'[a] = "SUCCEEDED"
                        /\ refundChannel[a] = "succeeded"
                        /\ s \in items[orderOf[a]] /\ order[orderOf[a]] = "PAID"
                        /\ \A t \in items[orderOf[a]] : seatStatus'[t] = "AVAILABLE"
<1>1. TypeOK /\ SeatLedger /\ LockInv /\ [Next]_vars => Back
  <2> SUFFICES ASSUME TypeOK, SeatLedger, LockInv, [Next]_vars PROVE Back
    OBVIOUS
  <2>1. CASE KeepOrder
    BY <2>1 DEF KeepOrder, seatVars
  <2>2. CASE \E o \in Orders, S \in SUBSET Seats : CreateReservation(o, S)
    BY <2>2 DEF CreateReservation, Fresh, OnSale
  <2>3. CASE \E o \in Orders, t \in {"CANCELLED", "EXPIRED"} : Close(o, t)
    BY <2>3 DEF Close, Intact, SetSeats
  <2>4. CASE \E o \in Orders : CommitAccept(o)
    BY <2>4 DEF CommitAccept, Intact, SetSeats
  <2>5. ASSUME NEW o \in Orders, CommitReturn(o) PROVE Back
    <3> DEFINE a == tx[o].attempt
    <3>1. /\ a \in Attempts /\ orderOf[a] = o /\ source[a] = "BUYER" /\ refund[a] = "PROCESSING"
          /\ refundChannel[a] = "succeeded" /\ order[o] = "PAID"
      BY <2>5 DEF CommitReturn, Committing, Answered, LockInv, LockedReadsStayTrue, CarriedAnswers
    <3>2. refund'[a] = "SUCCEEDED"
      BY <2>5, <3>1 DEF CommitReturn, SettleRefund, Answered, TypeOK
    <3>3. \A s \in Seats : seatStatus'[s] = IF s \in items[o] THEN "AVAILABLE" ELSE seatStatus[s]
      BY <2>5 DEF CommitReturn, SetSeats
    <3> HIDE DEF a
    <3>4. items[o] \subseteq Seats
      BY DEF TypeOK
    <3>5. QED
      BY <3>1, <3>2, <3>3, <3>4
  <2>6. QED
    BY <2>1, <2>2, <2>3, <2>4, <2>5, LedgerSteps
<1>2. QED
  BY <1>1, TypeCorrect, LedgerCorrect, LockedReads, PTL DEF Spec, SoldSeatsComeBackByRefund

\* A late success revives nothing: EXPIRED and CANCELLED are final, and a PAID
\* order ends only with its refund.
THEOREM ClosedOrdersStayClosed == Spec => NoOrderIsRevived
<1> DEFINE Final == \A o \in Orders :
              /\ order[o] \in {"EXPIRED", "CANCELLED"} => order'[o] = order[o]
              /\ order[o] = "PAID" => \/ order'[o] = "PAID"
                                      \/ order'[o] = "CANCELLED" /\ refunded'[o]
<1>1. TypeOK /\ SeatLedger /\ [Next]_vars => Final
  <2> SUFFICES ASSUME TypeOK, SeatLedger, [Next]_vars PROVE Final
    OBVIOUS
  <2> USE DEF TypeOK, OrderStates, SeatLedger, RowsAgree
  <2>1. CASE KeepOrder
    BY <2>1 DEF KeepOrder, orderVars
  <2>2. CASE \E o \in Orders, S \in SUBSET Seats : CreateReservation(o, S)
    BY <2>2 DEF CreateReservation, Fresh, OnSale
  <2>3. CASE \E o \in Orders, t \in {"CANCELLED", "EXPIRED"} : Close(o, t)
    BY <2>3 DEF Close, Intact
  <2>4. CASE \E o \in Orders : CommitAccept(o)
    BY <2>4 DEF CommitAccept, Acceptable, Pending
  <2>5. CASE \E o \in Orders : CommitReturn(o)
    BY <2>5 DEF CommitReturn
  <2>6. QED
    BY <2>1, <2>2, <2>3, <2>4, <2>5, LedgerSteps
<1>2. QED
  BY <1>1, TypeCorrect, LedgerCorrect, PTL DEF Spec, NoOrderIsRevived

\* No transaction expires an order while a payment of it that began in time may
\* still be accepted, except the one that records this payment's own answer.
THEOREM GraceIsHonoured == Spec => GraceProtectsPayment
<1> DEFINE Safe == \A o \in Orders : order[o] = "PENDING_PAYMENT" /\ order'[o] = "EXPIRED" =>
                     \A a \in Processing(o) : Valid(a) => attempt'[a] \in {"SUCCEEDED", "FAILED"}
<1>1. TypeOK /\ SeatLedger /\ [Next]_vars => Safe
  <2> SUFFICES ASSUME TypeOK, SeatLedger, [Next]_vars PROVE Safe
    OBVIOUS
  <2> USE DEF TypeOK
  <2>1. CASE KeepOrder
    BY <2>1 DEF KeepOrder, orderVars
  <2>2. CASE \E o \in Orders, S \in SUBSET Seats : CreateReservation(o, S)
    BY <2>2 DEF CreateReservation, Fresh, OnSale
  <2>3. CASE \E o \in Orders : CommitAccept(o) \/ CommitReturn(o)
    BY <2>3 DEF CommitAccept, CommitReturn
  <2>4. CASE \E o \in Orders : CommitCancel(o)
    BY <2>4 DEF CommitCancel, Close
  <2>5. CASE \E o \in Orders : CommitExpire(o)
    BY <2>5 DEF CommitExpire, Close
  <2>6. ASSUME NEW p \in Orders, CommitAnswer(p) PROVE Safe
    <3> SUFFICES ASSUME NEW o \in Orders, order[o] = "PENDING_PAYMENT", order'[o] = "EXPIRED",
                        NEW a \in Processing(o), Valid(a)
                 PROVE  attempt'[a] \in {"SUCCEEDED", "FAILED"}
      OBVIOUS
    <3>1. ~KeepOrder
      BY DEF KeepOrder, orderVars
    <3>2. /\ ClosesOrder(p) /\ Close(p, "EXPIRED")
          /\ attempt' = [TimeOut(Others(p)) EXCEPT ![Answered(p)] = AnswerStatus(p)]
      BY <2>6, <3>1 DEF CommitAnswer
    <3>3. o = p
      BY <3>2 DEF Close
    <3>4. a = Answered(p) /\ a \in Attempts
      BY <3>2, <3>3 DEF ClosesOrder, Others, Processing
    <3>5. QED
      BY <3>2, <3>4 DEF TimeOut, AnswerStatus
  <2>7. QED
    BY <2>1, <2>2, <2>3, <2>4, <2>5, <2>6, LedgerSteps
<1>2. QED
  BY <1>1, TypeCorrect, LedgerCorrect, PTL DEF Spec, GraceProtectsPayment
=============================================================================
