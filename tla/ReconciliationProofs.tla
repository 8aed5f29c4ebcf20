------------------------ MODULE ReconciliationProofs ------------------------
(***************************************************************************)
(* Proofs about PaymentReconciliation, for any sets of attempts, worker    *)
(* processes and unknown objects, any batch size and any bounds.           *)
(***************************************************************************)
EXTENDS PaymentReconciliation, TLAPS

\* The ways a step can touch the rows, the channel and the questions under way.
LEMMA NextCases ==
    ASSUME Next
    PROVE  \/ \E o \in Objects : CreateAttempt(o) \/ RequestRefund(o)
           \/ \E o \in Objects : StartProvider(o)
           \/ \E o \in Objects : ChannelSettles(o)
           \/ \E o \in Objects : FallsDue(o) \/ LeaseRunsOut(o)
           \/ \E e \in Event : ReceiveWebhook(e)
           \/ \E w \in Workers : ProcessInbox(w)
           \/ \E w \in Workers : ClaimFails(w) \/ EndRound(w)
           \/ \E w \in Workers : Crash(w)
           \/ \E w \in Workers, S \in SUBSET Payments : ClaimPayments(w, S)
           \/ \E w \in Workers, S \in SUBSET Refunds : ClaimRefunds(w, S)
           \/ \E c \in calls : ChannelAnswers(c)
           \/ \E c \in calls : CallFails(c)
           \/ \E c \in calls : RecordOpen(c)
           \/ \E c \in calls : CompletePayment(c)
           \/ \E c \in calls : CompleteRefund(c)
           \/ \E c \in calls : RecordFailure(c)
           \/ \E c \in calls : RecordingFails(c)
  BY Zenon DEF Next, Record

\* A refund and its payment are different objects.
LEMMA Pairs ==
    /\ \A o \in Refunds : PaymentOf(o) \in Payments /\ o \in Objects
    /\ \A o \in Payments : RefundOf(o) \in Refunds /\ o \in Objects /\ RefundOf(o) # o
    /\ \A o \in Payments : PaymentOf(RefundOf(o)) = o /\ o \notin Refunds
    /\ Payments \subseteq Objects /\ Refunds \subseteq Objects
  BY DEF Payments, Refunds, Objects, PaymentOf, RefundOf

\* The helpers that build rows build rows.
LEMMA RowTypes ==
    /\ NoRow \in Row /\ NewRow \in Row
    /\ \A row \in Row : Released(row) \in Row
    /\ \A row \in Row, c \in Call : Returned(c, row) \in Row
    /\ \A row \in Row, status \in Final : Closed(row, status) \in Row
  BY DEF Row, NoRow, NewRow, Released, Returned, Closed, Final

LEMMA RowUpdates ==
    ASSUME NEW row \in Row
    PROVE  /\ [row EXCEPT !.next = "due"] \in Row
           /\ [row EXCEPT !.next = "later"] \in Row
           /\ [row EXCEPT !.over = TRUE] \in Row
           /\ [row EXCEPT !.id = TRUE, !.next = "later"] \in Row
           /\ \A w \in Workers :
                 [row EXCEPT !.next = "later", !.holder = w, !.over = FALSE] \in Row
  BY DEF Row

-----------------------------------------------------------------------------
(* The types.                                                              *)

LEMMA TypeInit == Init => TypeOK
<1>1. Init => rows \in [Objects -> Row]
  BY RowTypes DEF Init
<1>2. QED
  BY <1>1, BoundsAssumption DEF Init, TypeOK

\* What every action changes keeps its type.
LEMMA TypeNext == TypeOK /\ [Next]_vars => TypeOK'
<1> SUFFICES ASSUME TypeOK, [Next]_vars PROVE TypeOK'
  OBVIOUS
<1> USE DEF TypeOK
<1>1. CASE \E o \in Objects : CreateAttempt(o) \/ RequestRefund(o)
  BY <1>1, RowTypes DEF CreateAttempt, RequestRefund
<1>2. CASE \E o \in Objects : StartProvider(o)
  <2> PICK o \in Objects : StartProvider(o)
    BY <1>2
  <2>1. [by |-> NoToken, obj |-> o, answer |-> "waiting"] \in Call
    BY DEF Call
  <2>2. online' \in 0 .. MaxOnline
    BY BoundsAssumption DEF StartProvider
  <2> QED
    BY <2>1, <2>2 DEF StartProvider
<1>3. CASE \E o \in Objects : ChannelSettles(o)
  BY <1>3 DEF ChannelSettles
<1>4. CASE \E o \in Objects : FallsDue(o) \/ LeaseRunsOut(o)
  <2> PICK o \in Objects : FallsDue(o) \/ LeaseRunsOut(o)
    BY <1>4
  <2>1. rows[o] \in Row
    OBVIOUS
  <2>2. rows' = [rows EXCEPT ![o] = [rows[o] EXCEPT !.next = "due"]]
        \/ rows' = [rows EXCEPT ![o] = [rows[o] EXCEPT !.over = TRUE]]
    BY DEF FallsDue, LeaseRunsOut
  <2>3. rows' \in [Objects -> Row]
    BY <2>1, <2>2, RowUpdates
  <2> QED
    BY <2>3 DEF FallsDue, LeaseRunsOut
<1>5. CASE \E e \in Event : ReceiveWebhook(e)
  BY <1>5 DEF ReceiveWebhook
<1>6. CASE \E w \in Workers : ProcessInbox(w)
  <2> PICK w \in Workers : ProcessInbox(w)
    BY <1>6
  <2>1. \A o \in Objects : Woken(o) \in Row
    BY DEF Woken, Row
  <2>2. rows' \in [Objects -> Row]
    BY <2>1 DEF ProcessInbox
  <2>3. Batch \subseteq Event
    BY DEF Batch
  <2>4. handedOff' \subseteq Event
    BY <2>3 DEF ProcessInbox
  <2> QED
    BY <2>2, <2>4 DEF ProcessInbox
<1>7. CASE \E w \in Workers : ClaimFails(w) \/ EndRound(w)
  BY <1>7 DEF ClaimFails, EndRound
<1>8. CASE \E w \in Workers : Crash(w)
  BY <1>8 DEF Crash
<1>9. ASSUME NEW w \in Workers, NEW S \in SUBSET Objects
      PROVE  Leased(w, S) \in [Objects -> Row] /\ Ask(w, S) \subseteq Call
  <2>1. \A o \in Objects : rows[o] \in Row
    OBVIOUS
  <2>2. Leased(w, S) \in [Objects -> Row]
    BY <2>1, RowUpdates DEF Leased
  <2>3. \A o \in S : [by |-> w, obj |-> o, answer |-> "waiting"] \in Call
    BY DEF Call
  <2> QED
    BY <2>2, <2>3 DEF Ask
<1>10. CASE \E w \in Workers, S \in SUBSET Payments : ClaimPayments(w, S)
  <2> PICK w \in Workers, S \in SUBSET Payments : ClaimPayments(w, S)
    BY <1>10
  <2>1. S \in SUBSET Objects
    BY Pairs
  <2> QED
    BY <1>9, <2>1 DEF ClaimPayments
<1>11. CASE \E w \in Workers, S \in SUBSET Refunds : ClaimRefunds(w, S)
  <2> PICK w \in Workers, S \in SUBSET Refunds : ClaimRefunds(w, S)
    BY <1>11
  <2> DEFINE T == {o \in S : rows[PaymentOf(o)].id}
  <2>1. S \in SUBSET Objects /\ T \in SUBSET Objects
    BY Pairs
  <2>2. rows' \in [Objects -> Row] /\ calls' \subseteq Call
    BY <1>9, <2>1, Zenon DEF ClaimRefunds
  <2> QED
    BY <2>2 DEF ClaimRefunds
<1>12. \A c \in calls : c \in Call /\ c.obj \in Objects
  BY DEF Call
<1>13. \A c \in Call, a \in {"waiting", "open", "retry", "blocked"} \cup Final :
          [c EXCEPT !.answer = a] \in Call
  BY DEF Call
<1>14. CASE \E c \in calls : ChannelAnswers(c)
  <2> PICK c \in calls : ChannelAnswers(c)
    BY <1>14
  <2>1. channel' \in [Objects -> {"absent", "open"} \cup Final]
    BY DEF ChannelAnswers, Created
  <2>2. channel'[c.obj] \in {"open"} \cup Final
    BY <1>12, <2>1 DEF ChannelAnswers, Created
  <2>3. [c EXCEPT !.answer = channel'[c.obj]] \in Call
    BY <1>12, <1>13, <2>2
  <2>4. calls' \subseteq Call
    BY <2>3 DEF ChannelAnswers, Answered
  <2> QED
    BY <2>1, <2>4 DEF ChannelAnswers
<1>15. CASE \E c \in calls : CallFails(c)
  <2> PICK c \in calls : CallFails(c)
    BY <1>15
  <2>1. channel' \in [Objects -> {"absent", "open"} \cup Final]
    BY DEF CallFails, Created
  <2>2. calls' \subseteq Call
    BY <1>12, <1>13 DEF CallFails, Answered
  <2> QED
    BY <2>1, <2>2 DEF CallFails
<1>16. CASE \E c \in calls : RecordOpen(c)
  <2> PICK c \in calls : RecordOpen(c)
    BY <1>16
  <2>1. [rows[c.obj] EXCEPT !.id = TRUE, !.next = "later"] \in Row
    BY <1>12, RowUpdates
  <2>2. rows' \in [Objects -> Row]
    BY <1>12, <2>1, RowTypes DEF RecordOpen
  <2> QED
    BY <2>2 DEF RecordOpen, Finish
<1>17. CASE \E c \in calls : CompletePayment(c)
  <2> PICK c \in calls : CompletePayment(c)
    BY <1>17
  <2>1. Closed(rows[c.obj], c.answer) \in Row
    BY <1>12, RowTypes DEF CompletePayment
  <2>2. rows' \in [Objects -> Row]
    BY <1>12, <2>1, RowTypes DEF CompletePayment
  <2> QED
    BY <2>2 DEF CompletePayment, Finish
<1>18. CASE \E c \in calls : CompleteRefund(c)
  <2> PICK c \in calls : CompleteRefund(c)
    BY <1>18
  <2>1. Closed(rows[c.obj], c.answer) \in Row
    BY <1>12, RowTypes DEF CompleteRefund
  <2>2. rows' \in [Objects -> Row]
    BY <1>12, <2>1 DEF CompleteRefund
  <2> QED
    BY <2>2 DEF CompleteRefund, Finish
<1>19. CASE \E c \in calls : RecordFailure(c)
  <2> PICK c \in calls : RecordFailure(c)
    BY <1>19
  <2>1. [rows[c.obj] EXCEPT !.next = "later"] \in Row /\ rows[c.obj] \in Row
    BY <1>12 DEF Row
  <2>2. rows' \in [Objects -> Row]
    BY <1>12, <2>1, RowTypes DEF RecordFailure
  <2> QED
    BY <2>2 DEF RecordFailure, Finish
<1>20. CASE \E c \in calls : RecordingFails(c)
  BY <1>20 DEF RecordingFails, Finish
<1>21. CASE UNCHANGED vars
  BY <1>21 DEF vars
<1> QED
  BY <1>1, <1>2, <1>3, <1>4, <1>5, <1>6, <1>7, <1>8, <1>10, <1>11, <1>14, <1>15, <1>16, <1>17,
     <1>18, <1>19, <1>20, <1>21, NextCases

\* The shape of the rows, the channel and the questions, for every instance.
THEOREM TypeCorrect == Spec => []TypeOK
  BY TypeInit, TypeNext, PTL DEF Spec

-----------------------------------------------------------------------------
(* The invariant.  What is under way agrees with the channel, and what is  *)
(* recorded was under way.                                                 *)

\* An answer is what the channel has, or had while it was still open.
CallsAgree ==
    \A c \in calls : /\ c.answer = "open" => channel[c.obj] # "absent"
                     /\ c.answer \in Final => channel[c.obj] = c.answer

\* Events are about objects that exist.
EventsAgree ==
    \A i \in 1 .. Len(events) : events[i].obj \in Objects => channel[events[i].obj] # "absent"

\* A final row knows its channel object, and a refund follows a success.
RowsAreComplete ==
    /\ \A o \in Objects : rows[o].status \in Final => rows[o].id
    /\ \A o \in Refunds : rows[o].status # "none" => rows[PaymentOf(o)].status = "SUCCEEDED"

Inv ==
    /\ TypeOK
    /\ ScheduledWhileOpen
    /\ AgreesWithChannel
    /\ CallsAgree
    /\ EventsAgree
    /\ RowsAreComplete

LEMMA InvInit == Init => Inv
<1> SUFFICES ASSUME Init PROVE Inv
  OBVIOUS
<1>1. \A o \in Objects : rows[o] = NoRow
  BY DEF Init
<1>2. \A o \in Refunds : rows[o] = NoRow
  BY <1>1, Pairs
<1>3. ScheduledWhileOpen /\ AgreesWithChannel
  BY <1>1 DEF ScheduledWhileOpen, AgreesWithChannel, NoRow, Open, Final
<1>4. RowsAreComplete
  BY <1>1, <1>2 DEF RowsAreComplete, NoRow, Final
<1>5. CallsAgree /\ EventsAgree
  BY DEF Init, CallsAgree, EventsAgree
<1> QED
  BY <1>3, <1>4, <1>5, TypeInit DEF Inv

\* The channel creates objects and settles them, once.
LEMMA ChannelIsMonotone ==
    ASSUME TypeOK, [Next]_vars, NEW o \in Objects
    PROVE  /\ channel[o] # "absent" => channel'[o] # "absent"
           /\ channel[o] \in Final => channel'[o] = channel[o]
<1>1. CASE \E p \in Objects : ChannelSettles(p)
  BY <1>1 DEF ChannelSettles, TypeOK, Final
<1>2. CASE \E c \in calls : ChannelAnswers(c) \/ CallFails(c)
  BY <1>2 DEF ChannelAnswers, CallFails, Created, TypeOK, Final
<1>3. CASE channel' = channel
  BY <1>3
<1>4. CASE UNCHANGED vars
  BY <1>4 DEF vars
<1>5. QED
  BY <1>1, <1>2, <1>3, <1>4, NextCases
  DEF CreateAttempt, RequestRefund, StartProvider, FallsDue, LeaseRunsOut, ReceiveWebhook,
      ProcessInbox, ClaimFails, EndRound, Crash, ClaimPayments, ClaimRefunds, RecordOpen,
      CompletePayment, CompleteRefund, RecordFailure, RecordingFails

\* All that a step can do to a row: insert it, work on it while it is open, or
\* close it with the result of the channel.
RowStep(o) ==
    \/ rows'[o] = rows[o]
    \/ /\ rows[o].status = "none"
       /\ rows'[o] = NewRow
       /\ o \in Refunds => rows'[PaymentOf(o)].status = "SUCCEEDED"
    \/ /\ rows[o].status = "open"
       /\ rows'[o].status = "open"
       /\ rows'[o].next # "none"
       /\ rows'[o].id => rows[o].id \/ channel[o] # "absent"
    \/ /\ rows[o].status = "open"
       /\ \E result \in Final : rows'[o] = Closed(rows[o], result) /\ channel[o] = result

LEMMA RowSteps ==
    ASSUME Inv, [Next]_vars, NEW o \in Objects
    PROVE  RowStep(o)
<1>0. rows \in [Objects -> Row] /\ rows[o] \in Row /\ calls \subseteq Call
  BY DEF Inv, TypeOK
<1>1. CASE \E p \in Objects : CreateAttempt(p) \/ RequestRefund(p)
  <2> PICK p \in Objects : CreateAttempt(p) \/ RequestRefund(p)
    BY <1>1
  <2>1. rows' = [rows EXCEPT ![p] = NewRow] /\ rows[p].status = "none"
    BY DEF CreateAttempt, RequestRefund
  <2>2. CASE o # p
    BY <1>0, <2>1, <2>2 DEF RowStep
  <2>3. CASE o = p /\ o \in Refunds
    <3>1. rows[PaymentOf(o)].status = "SUCCEEDED"
      BY <2>3, Pairs DEF CreateAttempt, RequestRefund
    <3>2. PaymentOf(o) # o /\ PaymentOf(o) \in Objects
      BY <2>3, Pairs
    <3> QED
      BY <1>0, <2>1, <2>3, <3>1, <3>2 DEF RowStep
  <2>4. CASE o = p /\ o \notin Refunds
    BY <1>0, <2>1, <2>4 DEF RowStep
  <2> QED
    BY <2>2, <2>3, <2>4
<1>2. CASE \E p \in Objects : FallsDue(p) \/ LeaseRunsOut(p)
  <2> PICK p \in Objects : FallsDue(p) \/ LeaseRunsOut(p)
    BY <1>2
  <2>1. rows[p].status = "open" /\ rows[p].next # "none"
    BY TokensAssumption DEF FallsDue, LeaseRunsOut, Inv, ScheduledWhileOpen, Open
  <2>2. rows' = [rows EXCEPT ![p] = [rows[p] EXCEPT !.next = "due"]]
        \/ rows' = [rows EXCEPT ![p] = [rows[p] EXCEPT !.over = TRUE]]
    BY DEF FallsDue, LeaseRunsOut
  <2>3. rows[p] \in Row
    BY <1>0
  <2> QED
    BY <1>0, <2>1, <2>2, <2>3 DEF RowStep, Row
<1>3. CASE \E w \in Workers : ProcessInbox(w)
  <2> PICK w \in Workers : ProcessInbox(w)
    BY <1>3
  <2>1. rows'[o] = rows[o] \/ (\E e \in Batch : e.obj = o /\ rows[o].status # "none" /\ rows'[o] = Woken(o))
    BY DEF ProcessInbox
  <2>2. ASSUME NEW e \in Batch, e.obj = o, rows[o].status # "none", rows'[o] = Woken(o)
        PROVE  RowStep(o)
    <3>1. channel[o] # "absent"
      BY <2>2 DEF Batch, Inv, EventsAgree
    <3>2. CASE rows[o].status = "open"
      BY <1>0, <2>2, <3>1, <3>2 DEF RowStep, Woken, Open, Row
    <3>3. CASE rows[o].status \in Final
      <4>1. rows[o].id = TRUE /\ rows[o].next = "none" /\ ~Open(o)
        BY <1>0, <3>3 DEF Inv, RowsAreComplete, ScheduledWhileOpen, Open, Final, Row
      <4>2. Woken(o) = rows[o]
        BY <1>0, <4>1 DEF Woken, Row
      <4> QED
        BY <2>2, <4>2 DEF RowStep
    <3> QED
      BY <1>0, <2>2, <3>2, <3>3 DEF Row
  <2> QED
    BY <2>1, <2>2 DEF RowStep
<1>4. ASSUME NEW w \in Workers, NEW S, \A p \in S : Open(p), rows' = Leased(w, S)
      PROVE  RowStep(o)
  BY <1>0, <1>4 DEF Leased, RowStep, Open, Row
<1>5. CASE \E w \in Workers, S \in SUBSET Payments : ClaimPayments(w, S)
  BY <1>4, <1>5 DEF ClaimPayments, PaymentIsClaimable
<1>6. CASE \E w \in Workers, S \in SUBSET Refunds : ClaimRefunds(w, S)
  BY <1>4, <1>6 DEF ClaimRefunds, RefundIsClaimable
<1>7. CASE \E c \in calls : RecordOpen(c)
  <2> PICK c \in calls : RecordOpen(c)
    BY <1>7
  <2> DEFINE row == [rows[c.obj] EXCEPT !.id = TRUE, !.next = "later"]
  <2>1. CASE o = c.obj /\ MayRecord(c)
    <3>1. rows'[o] = Returned(c, row) /\ rows[o].status = "open" /\ channel[o] # "absent"
      BY <1>0, <2>1 DEF RecordOpen, MayRecord, Open, Inv, CallsAgree
    <3>2. row.status = "open" /\ row.next = "later" /\ row \in Row
      BY <1>0, <2>1, <3>1 DEF Row
    <3>3. Returned(c, row).status = "open" /\ Returned(c, row).next = "later"
      BY <3>2 DEF Returned, Released, Row
    <3> QED
      BY <3>1, <3>3 DEF RowStep
  <2>2. CASE ~(o = c.obj /\ MayRecord(c))
    BY <1>0, <2>2 DEF RecordOpen, RowStep
  <2> QED
    BY <2>1, <2>2
<1>8. CASE \E c \in calls : CompletePayment(c)
  <2> PICK c \in calls : CompletePayment(c)
    BY <1>8
  <2> DEFINE closed == [rows EXCEPT ![c.obj] = Closed(@, c.answer)]
  <2>1. c.obj \in Payments /\ c.obj \in Objects /\ c.answer \in Final
    BY Pairs DEF CompletePayment
  <2>2. CASE ~MayRecord(c)
    BY <2>2 DEF CompletePayment, RowStep
  <2>3. CASE MayRecord(c)
    <3>1. rows[c.obj].status = "open" /\ channel[c.obj] = c.answer
      BY <2>1, <2>3 DEF MayRecord, Open, Inv, CallsAgree
    <3>2. \/ rows' = closed
          \/ c.answer = "SUCCEEDED" /\ rows' = [closed EXCEPT ![RefundOf(c.obj)] = NewRow]
      BY <2>3 DEF CompletePayment
    <3>3. RefundOf(c.obj) # c.obj /\ RefundOf(c.obj) \in Refunds /\ PaymentOf(RefundOf(c.obj)) = c.obj
      BY <2>1, Pairs
    <3>4. CASE o = c.obj
      <4>1. rows'[o] = Closed(rows[o], c.answer)
        BY <1>0, <2>1, <3>2, <3>3, <3>4
      <4> QED
        BY <2>1, <3>1, <3>4, <4>1 DEF RowStep
    <3>5. CASE o = RefundOf(c.obj) /\ rows'[o] # rows[o]
      <4>1. rows'[o] = NewRow /\ c.answer = "SUCCEEDED"
        BY <1>0, <3>2, <3>3, <3>5
      <4>2. rows[o].status = "none"
        <5>1. rows[PaymentOf(o)].status = "open"
          BY <3>1, <3>3, <3>5
        <5> QED
          BY <3>3, <3>5, <5>1 DEF Inv, RowsAreComplete
      <4>3. rows'[c.obj] = Closed(rows[c.obj], c.answer)
        BY <1>0, <2>1, <3>2, <3>3
      <4>4. rows'[c.obj].status = "SUCCEEDED"
        BY <1>0, <2>1, <4>1, <4>3 DEF Closed, Released, Row
      <4> QED
        BY <3>3, <3>5, <4>1, <4>2, <4>4 DEF RowStep
    <3>6. CASE o # c.obj /\ o # RefundOf(c.obj)
      BY <1>0, <3>2, <3>6 DEF RowStep
    <3> QED
      BY <3>4, <3>5, <3>6 DEF RowStep
  <2> QED
    BY <2>2, <2>3
<1>9. CASE \E c \in calls : CompleteRefund(c)
  <2> PICK c \in calls : CompleteRefund(c)
    BY <1>9
  <2>1. CASE o = c.obj /\ MayRecord(c) /\ rows[PaymentOf(c.obj)].id
    BY <1>0, <2>1 DEF CompleteRefund, RowStep, MayRecord, Open, Inv, CallsAgree
  <2>2. CASE ~(o = c.obj /\ MayRecord(c) /\ rows[PaymentOf(c.obj)].id)
    BY <1>0, <2>2 DEF CompleteRefund, RowStep
  <2> QED
    BY <2>1, <2>2
<1>10. CASE \E c \in calls : RecordFailure(c)
  <2> PICK c \in calls : RecordFailure(c)
    BY <1>10
  <2> DEFINE row == IF c.by = NoToken \/ c.answer = "blocked"
                    THEN [rows[c.obj] EXCEPT !.next = "later"] ELSE rows[c.obj]
  <2>1. CASE o = c.obj /\ MayRecord(c)
    <3>1. rows'[o] = Returned(c, row) /\ rows[o].status = "open" /\ rows[o].next # "none"
      BY <1>0, <2>1 DEF RecordFailure, MayRecord, Open, Inv, ScheduledWhileOpen
    <3>2. row.status = "open" /\ row.next # "none" /\ row \in Row /\ row.id = rows[o].id
      BY <1>0, <2>1, <3>1 DEF Row
    <3>3. /\ Returned(c, row).status = "open" /\ Returned(c, row).next # "none"
          /\ Returned(c, row).id = rows[o].id
      BY <3>2 DEF Returned, Released, Row
    <3> QED
      BY <3>1, <3>3 DEF RowStep
  <2>2. CASE ~(o = c.obj /\ MayRecord(c))
    BY <1>0, <2>2 DEF RecordFailure, RowStep
  <2> QED
    BY <2>1, <2>2
<1>11. CASE UNCHANGED rows
  BY <1>11 DEF RowStep
<1>12. CASE UNCHANGED vars
  BY <1>12 DEF vars, RowStep
<1> QED
  BY <1>1, <1>2, <1>3, <1>5, <1>6, <1>7, <1>8, <1>9, <1>10, <1>11, <1>12, NextCases
  DEF StartProvider, ChannelSettles, ReceiveWebhook, ClaimFails, EndRound, Crash,
      ChannelAnswers, CallFails, RecordingFails

LEMMA ClosedRow ==
    ASSUME NEW row \in Row, NEW status \in Final
    PROVE  /\ Closed(row, status).status = status /\ Closed(row, status).id = TRUE
           /\ Closed(row, status).next = "none" /\ Closed(row, status).holder = NoToken
  BY DEF Closed, Released, Row

LEMMA ScheduledStep == Inv /\ [Next]_vars => ScheduledWhileOpen'
<1> SUFFICES ASSUME Inv, [Next]_vars, NEW o \in Objects
             PROVE  /\ Open(o)' => rows'[o].next # "none"
                    /\ ~Open(o)' => rows'[o].next = "none" /\ rows'[o].holder = NoToken
  BY DEF ScheduledWhileOpen
<1>1. RowStep(o) /\ rows[o] \in Row
  BY RowSteps DEF Inv, TypeOK
<1>2. CASE rows'[o] = rows[o]
  BY <1>2 DEF Inv, ScheduledWhileOpen, Open
<1>3. CASE rows'[o] = NewRow
  BY <1>3 DEF NewRow, NoRow, Open
<1>4. CASE rows'[o].status = "open" /\ rows'[o].next # "none"
  BY <1>4 DEF Open
<1>5. CASE \E result \in Final : rows'[o] = Closed(rows[o], result)
  <2>1. PICK result \in Final : rows'[o] = Closed(rows[o], result)
    BY <1>5
  <2>2. /\ Closed(rows[o], result).status = result /\ Closed(rows[o], result).next = "none"
        /\ Closed(rows[o], result).holder = NoToken
    BY <1>1, ClosedRow
  <2> QED
    BY <2>1, <2>2 DEF Open, Final
<1> QED
  BY <1>1, <1>2, <1>3, <1>4, <1>5 DEF RowStep

LEMMA AgreesStep == Inv /\ [Next]_vars => AgreesWithChannel'
<1> SUFFICES ASSUME Inv, [Next]_vars, NEW o \in Objects
             PROVE  /\ rows'[o].status \in Final => channel'[o] = rows'[o].status
                    /\ rows'[o].id => channel'[o] # "absent"
  BY DEF AgreesWithChannel
<1>1. RowStep(o) /\ rows[o] \in Row
  BY RowSteps DEF Inv, TypeOK
<1>2. /\ channel[o] # "absent" => channel'[o] # "absent"
      /\ channel[o] \in Final => channel'[o] = channel[o]
  BY ChannelIsMonotone DEF Inv
<1>3. /\ rows[o].status \in Final => channel[o] = rows[o].status
      /\ rows[o].id => channel[o] # "absent"
  BY DEF Inv, AgreesWithChannel
<1>4. CASE rows'[o] = rows[o]
  BY <1>2, <1>3, <1>4
<1>5. CASE rows'[o] = NewRow
  BY <1>5 DEF NewRow, NoRow, Final
<1>6. CASE rows'[o].status = "open" /\ (rows'[o].id => rows[o].id \/ channel[o] # "absent")
  BY <1>2, <1>3, <1>6 DEF Final
<1>7. CASE \E result \in Final : rows'[o] = Closed(rows[o], result) /\ channel[o] = result
  BY <1>1, <1>2, <1>7, ClosedRow DEF Final
<1> QED
  BY <1>1, <1>4, <1>5, <1>6, <1>7 DEF RowStep

LEMMA CallsStep == Inv /\ [Next]_vars => CallsAgree'
<1> SUFFICES ASSUME Inv, [Next]_vars PROVE CallsAgree'
  OBVIOUS
<1>0. /\ calls \subseteq Call
      /\ \A c \in calls : c \in Call /\ c.obj \in Objects
      /\ channel \in [Objects -> {"absent", "open"} \cup Final]
  BY DEF Inv, TypeOK, Call
<1>1. \A c \in calls : /\ c.answer = "open" => channel'[c.obj] # "absent"
                       /\ c.answer \in Final => channel'[c.obj] = c.answer
  BY <1>0, ChannelIsMonotone DEF Inv, CallsAgree
<1>2. ASSUME \A c \in calls' \ calls : c.answer = "waiting"  PROVE CallsAgree'
  BY <1>1, <1>2 DEF CallsAgree, Final
<1>3. CASE \E c \in calls : ChannelAnswers(c)
  <2> PICK c \in calls : ChannelAnswers(c)
    BY <1>3
  <2> DEFINE d == [c EXCEPT !.answer = channel'[c.obj]]
  <2>1. d.answer = channel'[c.obj] /\ d.obj = c.obj
    BY <1>0 DEF Call
  <2>2. calls' = (calls \ {c}) \cup {d}
    BY DEF ChannelAnswers, Answered
  <2>3. channel'[c.obj] # "absent"
    BY <1>0 DEF ChannelAnswers, Created, Final
  <2> HIDE DEF d
  <2> QED
    BY <1>1, <2>1, <2>2, <2>3 DEF CallsAgree
<1>4. CASE \E c \in calls : CallFails(c)
  <2> PICK c \in calls : CallFails(c)
    BY <1>4
  <2>1. PICK failure \in {"retry", "blocked"} : calls' = (calls \ {c}) \cup {[c EXCEPT !.answer = failure]}
    BY DEF CallFails, Answered
  <2> DEFINE d == [c EXCEPT !.answer = failure]
  <2>2. d.answer = failure
    BY <1>0 DEF Call
  <2>3. calls' = (calls \ {c}) \cup {d}
    BY <2>1
  <2> HIDE DEF d
  <2> QED
    BY <1>1, <2>2, <2>3 DEF CallsAgree, Final
<1>5. CASE \E o \in Objects : StartProvider(o)
  BY <1>2, <1>5 DEF StartProvider
<1>6. CASE \E w \in Workers, S \in SUBSET Payments : ClaimPayments(w, S)
  BY <1>2, <1>6 DEF ClaimPayments, Ask
<1>7. CASE \E w \in Workers, S \in SUBSET Refunds : ClaimRefunds(w, S)
  BY <1>2, <1>7 DEF ClaimRefunds, Ask
<1>8. CASE calls' \subseteq calls
  BY <1>2, <1>8
<1>9. CASE UNCHANGED vars
  BY <1>2, <1>9 DEF vars
<1> QED
  BY <1>3, <1>4, <1>5, <1>6, <1>7, <1>8, <1>9, NextCases
  DEF CreateAttempt, RequestRefund, ChannelSettles, FallsDue, LeaseRunsOut, ReceiveWebhook,
      ProcessInbox, ClaimFails, EndRound, Crash, RecordOpen, CompletePayment, CompleteRefund,
      RecordFailure, RecordingFails, Finish

LEMMA EventsStep == Inv /\ [Next]_vars => EventsAgree'
<1> SUFFICES ASSUME Inv, [Next]_vars PROVE EventsAgree'
  OBVIOUS
<1>1. \A i \in 1 .. Len(events) : events[i].obj \in Objects => channel'[events[i].obj] # "absent"
  BY ChannelIsMonotone DEF Inv, EventsAgree
<1>2. CASE \E e \in Event : ReceiveWebhook(e)
  <2> PICK e \in Event : ReceiveWebhook(e)
    BY <1>2
  <2>1. events' = Append(events, e) /\ channel' = channel /\ events \in Seq(Event)
    BY DEF ReceiveWebhook, Inv, TypeOK
  <2>2. \A i \in 1 .. Len(events') : events'[i] = e \/ (i \in 1 .. Len(events) /\ events'[i] = events[i])
    BY <2>1
  <2> QED
    BY <1>1, <2>1, <2>2 DEF EventsAgree, ReceiveWebhook
<1>3. CASE events' = events
  BY <1>1, <1>3 DEF EventsAgree
<1>4. CASE UNCHANGED vars
  BY <1>3, <1>4 DEF vars
<1> QED
  BY <1>2, <1>3, <1>4, NextCases
  DEF CreateAttempt, RequestRefund, StartProvider, ChannelSettles, FallsDue, LeaseRunsOut,
      ProcessInbox, ClaimFails, EndRound, Crash, ClaimPayments, ClaimRefunds, ChannelAnswers,
      CallFails, RecordOpen, CompletePayment, CompleteRefund, RecordFailure, RecordingFails

LEMMA CompleteStep == Inv /\ [Next]_vars => RowsAreComplete'
<1> SUFFICES ASSUME Inv, [Next]_vars PROVE RowsAreComplete'
  OBVIOUS
<1>0. \A o \in Objects : RowStep(o) /\ rows[o] \in Row
  BY RowSteps DEF Inv, TypeOK
<1>1. ASSUME NEW o \in Objects, rows'[o].status \in Final  PROVE rows'[o].id
  <2>1. CASE rows'[o] = rows[o]
    BY <1>1, <2>1 DEF Inv, RowsAreComplete
  <2>2. CASE \E result \in Final : rows'[o] = Closed(rows[o], result)
    BY <1>0, <2>2, ClosedRow
  <2> QED
    BY <1>0, <1>1, <2>1, <2>2 DEF RowStep, NewRow, NoRow, Final
<1>2. ASSUME NEW o \in Objects, rows[o].status = "SUCCEEDED"  PROVE rows'[o] = rows[o]
  BY <1>0, <1>2 DEF RowStep
<1>3. ASSUME NEW o \in Refunds, rows'[o].status # "none"
      PROVE  rows'[PaymentOf(o)].status = "SUCCEEDED"
  <2>1. CASE rows[o].status = "none"
    BY <1>0, <1>3, <2>1, Pairs DEF RowStep
  <2>2. CASE rows[o].status # "none"
    BY <1>2, <2>2, Pairs DEF Inv, RowsAreComplete
  <2> QED
    BY <2>1, <2>2
<1> QED
  BY <1>1, <1>3 DEF RowsAreComplete, PaymentOf

LEMMA InvNext == Inv /\ [Next]_vars => Inv'
  BY TypeNext, ScheduledStep, AgreesStep, CallsStep, EventsStep, CompleteStep DEF Inv

\* The inductive invariant: what every round, webhook and payment request preserves.
THEOREM InvCorrect == Spec => []Inv
  BY InvInit, InvNext, PTL DEF Spec

-----------------------------------------------------------------------------
(* What follows from the invariant.                                        *)

\* An open row is never without a schedule, a closed one never has one.
THEOREM WorkIsNeverForgotten == Spec => []ScheduledWhileOpen
<1>1. Inv => ScheduledWhileOpen
  BY DEF Inv
<1> QED
  BY <1>1, InvCorrect, PTL

\* What is recorded as final is what the channel has.
THEOREM ChannelIsTheTruth == Spec => []AgreesWithChannel
<1>1. Inv => AgreesWithChannel
  BY DEF Inv
<1> QED
  BY <1>1, InvCorrect, PTL

\* No refund lacks the payment it returns.
THEOREM NoRefundIsStuck == Spec => []RefundsCanBeSent
<1>1. Inv => RefundsCanBeSent
  <2> SUFFICES ASSUME Inv, NEW o \in Refunds, rows[o].status # "none"
               PROVE  rows[PaymentOf(o)].id /\ channel[PaymentOf(o)] = "SUCCEEDED"
    BY DEF RefundsCanBeSent
  <2>1. rows[PaymentOf(o)].status = "SUCCEEDED" /\ PaymentOf(o) \in Objects
    BY Pairs DEF Inv, RowsAreComplete
  <2> QED
    BY <2>1 DEF Inv, RowsAreComplete, AgreesWithChannel, Final
<1> QED
  BY <1>1, InvCorrect, PTL

\* A final row is never touched again.
THEOREM ClosedForGood == Spec => ClosedRowsStay
<1>1. Inv /\ [Next]_vars =>
         [\A o \in Objects : rows[o].status \in Final => rows'[o] = rows[o]]_vars
  BY RowSteps DEF RowStep, Final
<1> QED
  BY <1>1, InvCorrect, PTL DEF Spec, ClosedRowsStay

\* A round whose lease another round has taken changes nothing.
THEOREM StaleRoundsAreFenced == Spec => StaleRoundsChangeNothing
<1>1. TypeOK /\ [Next]_vars =>
         [\A c \in calls \ calls' :
             c.by # NoToken /\ rows[c.obj].holder # c.by => rows' = rows]_vars
  <2> SUFFICES ASSUME TypeOK, [Next]_vars, NEW c \in calls, c \notin calls',
                      c.by # NoToken, rows[c.obj].holder # c.by
               PROVE  rows' = rows
    OBVIOUS
  <2>1. \A d \in calls : calls' = calls \ {d} => d = c
    OBVIOUS
  <2>2. ~MayRecord(c)
    BY DEF MayRecord, TokenMatches
  <2>3. CASE \E d \in calls : RecordOpen(d)
    BY <2>1, <2>2, <2>3 DEF RecordOpen, Finish
  <2>4. CASE \E d \in calls : CompletePayment(d)
    BY <2>1, <2>2, <2>4 DEF CompletePayment, Finish
  <2>5. CASE \E d \in calls : CompleteRefund(d)
    BY <2>1, <2>2, <2>5 DEF CompleteRefund, Finish
  <2>6. CASE \E d \in calls : RecordFailure(d)
    BY <2>1, <2>2, <2>6 DEF RecordFailure, Finish
  <2>7. CASE rows' = rows
    BY <2>7
  <2>8. CASE calls \subseteq calls'
    BY <2>8
  <2>9. CASE UNCHANGED vars
    BY <2>9 DEF vars
  <2> QED
    BY <2>3, <2>4, <2>5, <2>6, <2>7, <2>8, <2>9, NextCases
    DEF CreateAttempt, RequestRefund, StartProvider, ChannelSettles, FallsDue, LeaseRunsOut,
        ReceiveWebhook, ProcessInbox, ClaimFails, EndRound, Crash, ClaimPayments, ClaimRefunds,
        Ask, ChannelAnswers, CallFails, RecordingFails
<1> QED
  BY <1>1, TypeCorrect, PTL DEF Spec, StaleRoundsChangeNothing

\* What a step may do to the lease of a row whose lease still runs.
LeaseStep(o) ==
    \/ rows'[o].holder = rows[o].holder
    \/ rows'[o].status \in Final
    \/ \E c \in calls \ calls' : c.obj = o /\ c.by = rows[o].holder

LEMMA LeaseSteps ==
    ASSUME Inv, [Next]_vars, NEW o \in Objects, rows[o].holder # NoToken, ~rows[o].over
    PROVE  LeaseStep(o)
<1>0. rows \in [Objects -> Row] /\ rows[o] \in Row /\ calls \subseteq Call
  BY DEF Inv, TypeOK
<1>1. CASE \E p \in Objects : CreateAttempt(p) \/ RequestRefund(p)
  <2> PICK p \in Objects : CreateAttempt(p) \/ RequestRefund(p)
    BY <1>1
  <2>1. p # o
    BY DEF CreateAttempt, RequestRefund, Inv, ScheduledWhileOpen, Open
  <2> QED
    BY <1>0, <2>1 DEF CreateAttempt, RequestRefund, LeaseStep
<1>2. CASE \E p \in Objects : FallsDue(p) \/ LeaseRunsOut(p)
  <2> PICK p \in Objects : FallsDue(p) \/ LeaseRunsOut(p)
    BY <1>2
  <2> QED
    BY <1>0 DEF FallsDue, LeaseRunsOut, LeaseStep, Row
<1>3. CASE \E w \in Workers : ProcessInbox(w)
  <2>1. rows'[o] = rows[o] \/ rows'[o] = Woken(o)
    BY <1>3 DEF ProcessInbox
  <2>2. Woken(o).holder = rows[o].holder
    BY <1>0 DEF Woken, Row
  <2> QED
    BY <2>1, <2>2 DEF LeaseStep
<1>4. ASSUME NEW w \in Workers, NEW S, \A p \in S : Unleased(p), rows' = Leased(w, S)
      PROVE  LeaseStep(o)
  BY <1>4 DEF Leased, Unleased, LeaseStep
<1>5. CASE \E w \in Workers, S \in SUBSET Payments : ClaimPayments(w, S)
  BY <1>4, <1>5 DEF ClaimPayments, PaymentIsClaimable
<1>6. CASE \E w \in Workers, S \in SUBSET Refunds : ClaimRefunds(w, S)
  BY <1>4, <1>6 DEF ClaimRefunds, RefundIsClaimable
\* The round that held the lease gives it back; a handler has none to give.
<1>7. ASSUME NEW c \in calls, MayRecord(c), Finish(c),
             NEW row \in Row, row.holder = rows[c.obj].holder,
             rows' = [rows EXCEPT ![c.obj] = Returned(c, row)]
      PROVE  LeaseStep(o)
  <2>1. CASE o = c.obj /\ c.by = NoToken
    BY <1>0, <1>7, <2>1 DEF Returned, LeaseStep
  <2>2. CASE o = c.obj /\ c.by # NoToken
    BY <1>7, <2>2 DEF MayRecord, TokenMatches, Finish, LeaseStep
  <2>3. CASE o # c.obj
    BY <1>0, <1>7, <2>3 DEF LeaseStep
  <2> QED
    BY <2>1, <2>2, <2>3
<1>8. ASSUME NEW c \in calls, RecordOpen(c)  PROVE LeaseStep(o)
  <2> DEFINE row == [rows[c.obj] EXCEPT !.id = TRUE, !.next = "later"]
  <2>1. rows[c.obj] \in Row
    BY <1>0 DEF Call
  <2>2. row \in Row /\ row.holder = rows[c.obj].holder
    BY <2>1 DEF Row
  <2>3. CASE MayRecord(c)
    <3>1. Finish(c) /\ rows' = [rows EXCEPT ![c.obj] = Returned(c, row)]
      BY Zenon, <1>8, <2>3 DEF RecordOpen
    <3> HIDE DEF row
    <3> QED
      BY <1>7, <2>2, <2>3, <3>1
  <2>4. CASE ~MayRecord(c)
    BY <1>8, <2>4 DEF RecordOpen, LeaseStep
  <2> QED
    BY <2>3, <2>4
<1>9. ASSUME NEW c \in calls, RecordFailure(c)  PROVE LeaseStep(o)
  <2> DEFINE row == IF c.by = NoToken \/ c.answer = "blocked"
                    THEN [rows[c.obj] EXCEPT !.next = "later"] ELSE rows[c.obj]
  <2>1. rows[c.obj] \in Row
    BY <1>0 DEF Call
  <2>2. row \in Row /\ row.holder = rows[c.obj].holder
    BY <2>1 DEF Row
  <2>3. CASE MayRecord(c)
    <3>1. Finish(c) /\ rows' = [rows EXCEPT ![c.obj] = Returned(c, row)]
      BY Zenon, <1>9, <2>3 DEF RecordFailure
    <3> HIDE DEF row
    <3> QED
      BY <1>7, <2>2, <2>3, <3>1
  <2>4. CASE ~MayRecord(c)
    BY <1>9, <2>4 DEF RecordFailure, LeaseStep
  <2> QED
    BY <2>3, <2>4
<1>10. CASE \E c \in calls : CompletePayment(c)
  <2> PICK c \in calls : CompletePayment(c)
    BY <1>10
  <2>1. c.answer \in Final /\ c.obj \in Payments /\ RefundOf(c.obj) # c.obj /\ c.obj \in Objects
    BY Pairs DEF CompletePayment
  <2>2. CASE o = c.obj
    <3>1. rows'[o] = rows[o] \/ rows'[o] = Closed(rows[o], c.answer)
      BY <1>0, <2>1, <2>2 DEF CompletePayment
    <3>2. Closed(rows[o], c.answer).status = c.answer
      BY <1>0, <2>1, ClosedRow
    <3> QED
      BY <2>1, <3>1, <3>2 DEF LeaseStep
  <2>3. CASE o = RefundOf(c.obj)
    <3>1. rows[c.obj].status = "open" => rows[o].status = "none"
      BY <2>1, <2>3, Pairs DEF Inv, RowsAreComplete
    <3>2. rows[o].status # "none"
      BY DEF Inv, ScheduledWhileOpen, Open
    <3> QED
      BY <1>0, <3>1, <3>2 DEF CompletePayment, MayRecord, Open, LeaseStep
  <2>4. CASE o # c.obj /\ o # RefundOf(c.obj)
    BY <1>0, <2>4 DEF CompletePayment, LeaseStep
  <2> QED
    BY <2>2, <2>3, <2>4
<1>11. CASE \E c \in calls : CompleteRefund(c)
  <2> PICK c \in calls : CompleteRefund(c)
    BY <1>11
  <2>1. c.answer \in Final
    BY DEF CompleteRefund
  <2>2. rows'[o] = rows[o] \/ rows'[o] = Closed(rows[o], c.answer)
    BY <1>0 DEF CompleteRefund
  <2>3. Closed(rows[o], c.answer).status = c.answer
    BY <1>0, <2>1, ClosedRow
  <2> QED
    BY <2>1, <2>2, <2>3 DEF LeaseStep
<1>12. CASE UNCHANGED rows
  BY <1>12 DEF LeaseStep
<1>13. CASE UNCHANGED vars
  BY <1>13 DEF vars, LeaseStep
<1> QED
  BY <1>1, <1>2, <1>3, <1>5, <1>6, <1>8, <1>9, <1>10, <1>11, <1>12, <1>13, NextCases
  DEF StartProvider, ChannelSettles, ReceiveWebhook, ClaimFails, EndRound, Crash,
      ChannelAnswers, CallFails, RecordingFails

\* Nobody takes a row from a round whose lease runs, except by closing it.
THEOREM LeasesAreRespected == Spec => LeaseIsRespected
<1>1. Inv /\ [Next]_vars => [\A o \in Objects :
          LET was == rows[o]  is == rows'[o] IN
          was.holder # NoToken /\ ~was.over /\ is.holder # was.holder =>
              \/ is.status \in Final
              \/ \E c \in calls \ calls' : c.obj = o /\ c.by = was.holder]_vars
  BY LeaseSteps DEF LeaseStep, Inv
<1> QED
  BY <1>1, InvCorrect, PTL DEF Spec, LeaseIsRespected
=============================================================================
