---------------------------- MODULE CheckoutProofs ----------------------------
(***************************************************************************)
(* Proofs about the two halves of a checkout.  Its confirmation: an answer *)
(* that confirms is true, a reservation is created once, and while no seat *)
(* comes back none is lost to its checkout.  Its holds: while the services *)
(* answer, a confirmed hold stays and none leaks; and whatever fails, no   *)
(* handler touches a hold of another checkout.  For any sets of seats,     *)
(* checkouts, keys and handlers, and any number of revisions.              *)
(***************************************************************************)
EXTENDS MCCheckout, TLAPS

\* What a handler has been given: nothing before it is called, and a key and seats
\* as soon as it works on a confirmation.
HandlersAreGiven ==
    \A r \in Requests :
        /\ req[r].at = "idle" <=> req[r].checkout = NoCheckout
        /\ req[r].at = "idle" => req[r].key = NoKey
        /\ req[r].at \in Steps \cup {"confirmed"} => req[r].key # NoKey
        /\ req[r].key # NoKey => req[r].seats # {}

Owned(r) == req[r].key # NoKey

\* A key stands for one request.
KeysAreUnique ==
    \A r, q \in Requests : Owned(r) /\ req[r].key = req[q].key => SameRequest(r, q)

\* The key of a checkout is that of handlers that read the selection it has, and every
\* key that created something was used by a handler.
KeysAreHeld ==
    /\ \A r \in Requests : Owned(r) /\ key[req[r].checkout] = req[r].key =>
          req[r].seats = selected[req[r].checkout]
    /\ \A c \in Checkouts : key[c] # NoKey =>
          \E r \in Requests : req[r].checkout = c /\ req[r].key = key[c]
    /\ \A k \in Keys : Created(k) => \E r \in Requests : req[r].key = k

\* What was written into the row, or is about to be, was created.
WrittenIsCreated ==
    /\ \A c \in Checkouts : status[c] = "RESERVED" => reservation[c] = key[c] /\ Created(key[c])
    /\ \A r \in Requests : req[r].at = "finalize" => Created(req[r].key)
    /\ \A r \in Requests : req[r].at = "confirmed" => status[req[r].checkout] = "RESERVED"

\* The handler that has inserted a key is alone, and nothing was created under it.
InsertsAreAlone ==
    \A r \in Requests : req[r].at = "reserve" =>
        /\ ~Created(req[r].key)
        /\ \A q \in Requests : req[q].at = "reserve" /\ req[q].key = req[r].key => q = r

SeatsAreFormal == \A s \in Seats : seatOf[s] \in Keys => s \in formal[seatOf[s]]

\* No reservation can be created for the seats of r any more, unless a seat comes back.
Blocked(r) == ended \/ \E s \in req[r].seats : seatOf[s] \notin {NoKey, req[r].key}

\* A confirmation is given up only when it cannot succeed any more.
GivenUpIsBlocked ==
    ~seatsReturn =>
        \A r \in Requests :
            Owned(r) /\ (key[req[r].checkout] # req[r].key
                         \/ req[r].at \in {"reset", "close", "refused"}) =>
                ~Created(req[r].key) /\ Blocked(r)

IInv ==
    /\ TypeOK /\ HandlersAreGiven /\ KeysAreUnique /\ KeysAreHeld
    /\ WrittenIsCreated /\ InsertsAreAlone /\ SeatsAreFormal /\ GivenUpIsBlocked

-----------------------------------------------------------------------------
LEMMA InitInv == Init => IInv
<1> SUFFICES ASSUME Init PROVE IInv
  OBVIOUS
<1>1. Idle \in Handlers
  BY DEF Idle, Handlers
<1>2. \A r \in Requests : req[r] = Idle
  BY DEF Init
<1>3. TypeOK
  BY <1>1, KeyNames DEF Init, TypeOK
<1>4. HandlersAreGiven
  BY <1>2 DEF HandlersAreGiven, Idle, Steps
<1>5. KeysAreUnique
  BY <1>2 DEF KeysAreUnique, Owned, Idle
<1>6. KeysAreHeld
  BY <1>2 DEF KeysAreHeld, Owned, Idle, Created, Init
<1>7. WrittenIsCreated
  BY <1>2 DEF WrittenIsCreated, Idle, Init
<1>8. InsertsAreAlone
  BY <1>2 DEF InsertsAreAlone, Idle
<1>9. SeatsAreFormal
  BY KeyNames DEF SeatsAreFormal, Init
<1>10. GivenUpIsBlocked
  BY <1>2 DEF GivenUpIsBlocked, Owned, Idle
<1>11. QED
  BY <1>3, <1>4, <1>5, <1>6, <1>7, <1>8, <1>9, <1>10 DEF IInv

\* A handler that works on a confirmation has a checkout, a key and seats.
LEMMA HandlersKnow ==
    ASSUME TypeOK, HandlersAreGiven, NEW r \in Requests
    PROVE  /\ Owned(r) => req[r].checkout \in Checkouts /\ req[r].key \in Keys
           /\ req[r].at \in Steps \cup {"confirmed"} => Owned(r)
           /\ req[r].seats \subseteq Seats
<1>1. req[r] \in Handlers
  BY DEF TypeOK
<1>2. QED
  BY <1>1 DEF Handlers, HandlersAreGiven, Owned

\* Go changes where a handler is, and nothing else of any.
LEMMA GoShape ==
    ASSUME TypeOK, NEW r \in Requests, NEW a \in Steps \cup Answers, Go(r, a)
    PROVE  /\ req' \in [Requests -> Handlers]
           /\ \A q \in Requests :
                /\ req'[q].checkout = req[q].checkout
                /\ req'[q].key = req[q].key
                /\ req'[q].seats = req[q].seats
                /\ req'[q].at = IF q = r THEN a ELSE req[q].at
<1>1. req \in [Requests -> Handlers]
  BY DEF TypeOK
<1>2. req' = [req EXCEPT ![r] = [req[r] EXCEPT !.at = a]]
  BY DEF Go
<1>3. [req[r] EXCEPT !.at = a] \in Handlers
  BY <1>1 DEF Handlers
<1>4. \A q \in Requests : req'[q] = IF q = r THEN [req[r] EXCEPT !.at = a] ELSE req[q]
  BY <1>1, <1>2
<1>5. /\ [req[r] EXCEPT !.at = a].checkout = req[r].checkout
      /\ [req[r] EXCEPT !.at = a].key = req[r].key
      /\ [req[r] EXCEPT !.at = a].seats = req[r].seats
      /\ [req[r] EXCEPT !.at = a].at = a
  BY <1>1 DEF Handlers
<1>6. QED
  BY <1>1, <1>2, <1>3, <1>4, <1>5

-----------------------------------------------------------------------------
\* A handler goes on, and nothing else changes.
LEMMA GoKeeps ==
    ASSUME IInv, NEW r \in Requests, NEW a \in Steps \cup Answers,
           req[r].at \in Steps, Go(r, a),
           UNCHANGED <<rowVars, selected, formal, seatOf, ended, seatsReturn>>,
           a = "finalize" => Created(req[r].key),
           a = "confirmed" => status[req[r].checkout] = "RESERVED",
           a = "reserve" => ~Created(req[r].key) /\ KeyIsFree(r),
           a \in {"reset", "close", "refused"} /\ ~seatsReturn =>
              ~Created(req[r].key) /\ Blocked(r)
    PROVE  IInv'
<1> USE DEF IInv
<1>1. /\ req' \in [Requests -> Handlers]
      /\ \A q \in Requests :
            /\ req'[q].checkout = req[q].checkout
            /\ req'[q].key = req[q].key
            /\ req'[q].seats = req[q].seats
            /\ req'[q].at = IF q = r THEN a ELSE req[q].at
  BY GoShape
<1>2. /\ status' = status /\ key' = key /\ reservation' = reservation /\ selected' = selected
      /\ formal' = formal /\ seatOf' = seatOf /\ ended' = ended /\ seatsReturn' = seatsReturn
  BY DEF rowVars
<1>3. /\ \A q \in Requests : Owned(q)' <=> Owned(q)
      /\ \A q \in Requests : Blocked(q)' <=> Blocked(q)
      /\ \A k \in Keys : Created(k)' <=> Created(k)
  BY <1>1, <1>2 DEF Owned, Blocked, Created
<1>4. TypeOK'
  BY <1>1, <1>2 DEF TypeOK
<1>5. HandlersAreGiven'
  BY <1>1, HandlersKnow DEF HandlersAreGiven, Owned, Steps, Answers
<1>6. KeysAreUnique'
  BY <1>1, <1>2, <1>3 DEF KeysAreUnique, SameRequest
<1>7. KeysAreHeld'
  BY <1>1, <1>2, <1>3 DEF KeysAreHeld
<1>8. WrittenIsCreated'
  BY <1>1, <1>2 DEF WrittenIsCreated, Created
<1>9. InsertsAreAlone'
  BY <1>1, <1>2 DEF InsertsAreAlone, KeyIsFree, Created
<1>10. SeatsAreFormal'
  BY <1>2 DEF SeatsAreFormal
<1>11. GivenUpIsBlocked'
  <2> SUFFICES ASSUME ~seatsReturn', NEW q \in Requests, Owned(q)',
                      (key[req[q].checkout] # req[q].key \/ req[q].at \in {"reset", "close", "refused"})'
               PROVE  ~Created(req[q].key)' /\ Blocked(q)'
    BY DEF GivenUpIsBlocked
  <2>1. ~seatsReturn /\ Owned(q)
    BY <1>2, <1>3
  <2>2. ~Created(req[q].key) /\ Blocked(q)
    <3>1. CASE q = r /\ a \in {"reset", "close", "refused"}
      BY <2>1, <3>1
    <3>2. CASE ~(q = r /\ a \in {"reset", "close", "refused"})
      BY <1>1, <1>2, <2>1, <3>2 DEF GivenUpIsBlocked
    <3>3. QED
      BY <3>1, <3>2
  <2>3. QED
    BY <1>1, <1>2, <1>3, <2>2 DEF Created
<1>12. QED
  BY <1>4, <1>5, <1>6, <1>7, <1>8, <1>9, <1>10, <1>11

-----------------------------------------------------------------------------
\* The world outside: sales end, and seats are bought and freed by others.
LEMMA WorldKeeps ==
    ASSUME IInv, World, UNCHANGED seatsReturn
    PROVE  IInv'
<1> USE DEF IInv
<1>1. UNCHANGED <<status, key, reservation, selected, formal, seatsReturn, req>>
  BY DEF World, SalesEnd, OtherBuys, OrderCloses, rowVars
<1>7. ended' \in BOOLEAN /\ (ended => ended')
  BY DEF World, SalesEnd, OtherBuys, OrderCloses, TypeOK
<1> DEFINE Traded ==
      /\ seatOf' \in [Seats -> Keys \cup {NoKey, Other}]
      /\ \A s \in Seats : seatOf'[s] \in {seatOf[s], NoKey, Other}
      /\ ~seatsReturn =>
            \A s \in Seats : seatOf'[s] = seatOf[s] \/ (seatOf[s] = NoKey /\ seatOf'[s] = Other)
<1>2. Traded
  <2>5. seatOf \in [Seats -> Keys \cup {NoKey, Other}]
    BY DEF TypeOK
  <2>1. CASE SalesEnd
    <3>1. seatOf' = seatOf
      BY <2>1 DEF SalesEnd
    <3>2. QED
      BY <3>1, <2>5
  <2>2. ASSUME NEW s \in Seats, OtherBuys(s) PROVE Traded
    <3>1. seatOf[s] = NoKey /\ seatOf' = [seatOf EXCEPT ![s] = Other]
      BY <2>2 DEF OtherBuys
    <3>2. QED
      BY <3>1, <2>5
  <2>3. ASSUME NEW b \in Keys \cup {Other}, OrderCloses(b) PROVE Traded
    BY <2>3 DEF OrderCloses, TypeOK
  <2>4. QED
    BY <2>1, <2>2, <2>3 DEF World
<1>3. TypeOK'
  BY <1>1, <1>2, <1>7 DEF TypeOK
<1>8. HandlersAreGiven' /\ KeysAreUnique' /\ KeysAreHeld' /\ WrittenIsCreated' /\ InsertsAreAlone'
  <2>1. HandlersAreGiven' /\ InsertsAreAlone'
    BY <1>1 DEF HandlersAreGiven, InsertsAreAlone, Created
  <2>2. KeysAreUnique'
    BY <1>1 DEF KeysAreUnique, Owned, SameRequest
  <2>3. KeysAreHeld'
    BY <1>1 DEF KeysAreHeld, Owned, Created
  <2>4. WrittenIsCreated'
    BY <1>1 DEF WrittenIsCreated, Created
  <2>5. QED
    BY <2>1, <2>2, <2>3, <2>4
<1>4. SeatsAreFormal'
  BY <1>1, <1>2, KeyNames DEF SeatsAreFormal
<1>5. GivenUpIsBlocked'
  <2> SUFFICES ASSUME ~seatsReturn, NEW r \in Requests, Owned(r),
                      key[req[r].checkout] # req[r].key \/ req[r].at \in {"reset", "close", "refused"}
               PROVE  ~Created(req[r].key)' /\ Blocked(r)'
    BY <1>1 DEF GivenUpIsBlocked, Owned
  <2>1. ~Created(req[r].key) /\ Blocked(r)
    BY DEF GivenUpIsBlocked
  <2>2. Blocked(r)'
    BY <1>1, <1>2, <1>7, <2>1, HandlersKnow, KeyNames DEF Blocked
  <2>3. QED
    BY <1>1, <2>1, <2>2 DEF Created
<1>6. QED
  BY <1>3, <1>8, <1>4, <1>5

\* The row of a checkout without a confirmation changes, and no handler with it.
LEMMA SelectingKeeps ==
    ASSUME IInv, Selecting, UNCHANGED seatsReturn
    PROVE  IInv'
<1> USE DEF IInv
<1>1. UNCHANGED <<formal, seatOf, ended, seatsReturn, req>>
  BY DEF Selecting, Abandon, Create, Replace
<1>2. PICK c \in Checkouts :
        /\ status[c] \in {"NONE", "SELECTING"} /\ status' = [status EXCEPT ![c] = status'[c]]
        /\ status'[c] \in {"SELECTING", "ABANDONED"}
        /\ key' = key /\ key[c] = NoKey
        /\ reservation' = reservation
        /\ selected' \in [Checkouts -> SUBSET Seats]
        /\ \A d \in Checkouts : d # c => selected'[d] = selected[d]
  <2>1. ASSUME NEW c \in Checkouts, Abandon(c) \/ \E S \in SUBSET Seats : Create(c, S)
        PROVE  /\ status[c] \in {"NONE", "SELECTING"} /\ status' = [status EXCEPT ![c] = status'[c]]
               /\ status'[c] \in {"SELECTING", "ABANDONED"}
               /\ key' = [key EXCEPT ![c] = NoKey] /\ reservation' = [reservation EXCEPT ![c] = NoKey]
               /\ selected' \in [Checkouts -> SUBSET Seats]
               /\ \A d \in Checkouts : d # c => selected'[d] = selected[d]
    BY <2>1 DEF Abandon, Create, SetRow, TypeOK
  <2>2. ASSUME NEW c \in Checkouts, status[c] \in {"NONE", "SELECTING"}
        PROVE  /\ key[c] = NoKey /\ [key EXCEPT ![c] = NoKey] = key
               /\ [reservation EXCEPT ![c] = NoKey] = reservation
               /\ status[c] = "SELECTING" => status = [status EXCEPT ![c] = status[c]]
    BY <2>2 DEF TypeOK
  <2>3. ASSUME NEW c \in Checkouts, NEW S \in SUBSET Seats, Replace(c, S)
        PROVE  /\ status[c] = "SELECTING" /\ status' = status
               /\ key' = key /\ reservation' = reservation
               /\ selected' \in [Checkouts -> SUBSET Seats]
               /\ \A d \in Checkouts : d # c => selected'[d] = selected[d]
    BY <2>3 DEF Replace, rowVars, TypeOK
  <2>4. QED
    BY <2>1, <2>2, <2>3 DEF Selecting
<1>3. \A d \in Checkouts : d # c => status'[d] = status[d] /\ selected'[d] = selected[d]
  BY <1>2 DEF TypeOK
<1>4. TypeOK'
  BY <1>1, <1>2, <1>3 DEF TypeOK
<1>5. KeysAreHeld'
  BY <1>1, <1>2, <1>3, HandlersKnow DEF KeysAreHeld, Owned, Created
<1>6. WrittenIsCreated'
  BY <1>1, <1>2, <1>3, HandlersKnow DEF WrittenIsCreated, Created
<1>7. HandlersAreGiven' /\ KeysAreUnique'
  BY <1>1 DEF HandlersAreGiven, KeysAreUnique, Owned, SameRequest
<1>8. InsertsAreAlone' /\ SeatsAreFormal'
  BY <1>1 DEF InsertsAreAlone, SeatsAreFormal, Created
<1>9. GivenUpIsBlocked'
  BY <1>1, <1>2 DEF GivenUpIsBlocked, Owned, Created, Blocked
<1>10. QED
  BY <1>4, <1>5, <1>6, <1>7, <1>8, <1>9

-----------------------------------------------------------------------------
\* Handle gives an idle handler its work, and changes no other.
LEMMA HandleShape ==
    ASSUME TypeOK, NEW r \in Requests, NEW c \in Checkouts, NEW k \in Keys \cup {NoKey},
           NEW a \in Steps \cup Answers, Handle(r, c, k, a)
    PROVE  /\ req' \in [Requests -> Handlers]
           /\ req'[r].at = a /\ req'[r].checkout = c /\ req'[r].key = k
           /\ req'[r].seats = selected[c]
           /\ \A q \in Requests : q # r => req'[q] = req[q]
<1>1. [at |-> a, checkout |-> c, key |-> k, seats |-> selected[c]] \in Handlers
  BY DEF TypeOK, Handlers
<1>2. QED
  BY <1>1 DEF Handle, TypeOK

\* The key of a checkout: its handlers read the selection, and others have other keys.
LEMMA KeyIsKnown ==
    ASSUME IInv, NEW c \in Checkouts, key[c] # NoKey
    PROVE  /\ key[c] \in Keys /\ selected[c] # {}
           /\ \A q \in Requests : req[q].key = key[c] =>
                 req[q].checkout = c /\ req[q].seats = selected[c]
           /\ formal[key[c]] \in {{}, selected[c]}
<1> USE DEF IInv
<1>1. key[c] \in Keys
  BY DEF TypeOK
<1>2. PICK h \in Requests : req[h].checkout = c /\ req[h].key = key[c]
  BY DEF KeysAreHeld
<1>3. Owned(h) /\ req[h].seats = selected[c] /\ req[h].seats # {}
  BY <1>2 DEF Owned, KeysAreHeld, HandlersAreGiven
<1>4. \A q \in Requests : req[q].key = key[c] => SameRequest(h, q)
  BY <1>2, <1>3 DEF KeysAreUnique
<1>5. SameRequest(h, h)
  BY <1>2, <1>4
<1>6. QED
  BY <1>1, <1>2, <1>3, <1>4, <1>5 DEF SameRequest

\* A confirmation begins, under a key nobody has used.
LEMMA FreezeKeeps ==
    ASSUME IInv, NEW r \in Requests, NEW c \in Checkouts, NEW k \in Keys, Freeze(r, c, k),
           UNCHANGED seatsReturn
    PROVE  IInv'
<1> USE DEF IInv
<1>1. /\ req[r].at = "idle" /\ status[c] = "SELECTING" /\ selected[c] # {}
      /\ \A q \in Requests : req[q].key # k
      /\ status' = [status EXCEPT ![c] = "SUBMITTING"] /\ key' = [key EXCEPT ![c] = k]
      /\ reservation' = [reservation EXCEPT ![c] = NoKey]
      /\ UNCHANGED <<selected, formal, seatOf, ended, seatsReturn>>
  BY DEF Freeze, SetRow
<1>2. /\ req' \in [Requests -> Handlers]
      /\ req'[r].at = "lookup" /\ req'[r].checkout = c /\ req'[r].key = k
      /\ req'[r].seats = selected[c]
      /\ \A q \in Requests : q # r => req'[q] = req[q]
  BY HandleShape DEF Freeze, Steps
<1>3. /\ k # NoKey /\ formal[k] = {}
      /\ key[c] = NoKey /\ req[r].key = NoKey /\ c # NoCheckout
  BY <1>1, KeyNames, CheckoutNames DEF TypeOK, KeysAreHeld, Created, HandlersAreGiven
<1>4. /\ \A d \in Checkouts : d # c => status'[d] = status[d] /\ key'[d] = key[d]
                                     /\ reservation'[d] = reservation[d]
      /\ status'[c] = "SUBMITTING" /\ key'[c] = k /\ reservation'[c] = NoKey
  BY <1>1 DEF TypeOK
<1>5. TypeOK'
  BY <1>1, <1>2, <1>3, <1>4 DEF TypeOK
<1>6. HandlersAreGiven'
  BY <1>1, <1>2, <1>3 DEF HandlersAreGiven, Steps
<1>7. KeysAreUnique'
  <2> SUFFICES ASSUME NEW p \in Requests, NEW q \in Requests,
                      req'[p].key # NoKey, req'[p].key = req'[q].key
               PROVE  /\ req'[p].checkout = req'[q].checkout /\ req'[p].seats = req'[q].seats
                      /\ formal'[req'[p].key] \in {{}, req'[p].seats}
    BY DEF KeysAreUnique, SameRequest, Owned
  <2>1. CASE p = r \/ q = r
    BY <1>1, <1>2, <1>3, <2>1
  <2>2. CASE p # r /\ q # r
    <3>1. SameRequest(p, q)
      BY <1>2, <2>2 DEF KeysAreUnique, Owned
    <3>2. QED
      BY <1>1, <1>2, <2>2, <3>1 DEF SameRequest
  <2>3. QED
    BY <2>1, <2>2
<1>8. KeysAreHeld'
  <2>1. ASSUME NEW q \in Requests, req'[q].key # NoKey, key'[req'[q].checkout] = req'[q].key
        PROVE  req'[q].seats = selected'[req'[q].checkout]
    <3>1. CASE q = r
      BY <1>1, <1>2, <3>1
    <3>2. CASE q # r
      BY <1>1, <1>2, <1>4, <2>1, <3>2, HandlersKnow DEF KeysAreHeld, Owned
    <3>3. QED
      BY <3>1, <3>2
  <2>2. ASSUME NEW d \in Checkouts, key'[d] # NoKey
        PROVE  \E q \in Requests : req'[q].checkout = d /\ req'[q].key = key'[d]
    <3>1. CASE d = c
      BY <1>2, <1>4, <3>1
    <3>2. CASE d # c
      BY <1>2, <1>3, <1>4, <2>2, <3>2 DEF KeysAreHeld
    <3>3. QED
      BY <3>1, <3>2
  <2>3. \A j \in Keys : formal'[j] # {} => \E q \in Requests : req'[q].key = j
    BY <1>1, <1>2, <1>3, KeyNames DEF KeysAreHeld, Created
  <2>4. QED
    BY <2>1, <2>2, <2>3 DEF KeysAreHeld, Owned, Created
<1>9. WrittenIsCreated'
  <2>1. \A d \in Checkouts : status'[d] = "RESERVED" =>
           reservation'[d] = key'[d] /\ formal'[key'[d]] # {}
    BY <1>1, <1>4 DEF WrittenIsCreated, Created
  <2>2. \A q \in Requests : req'[q].at = "finalize" => formal'[req'[q].key] # {}
    BY <1>1, <1>2 DEF WrittenIsCreated, Created
  <2>3. \A q \in Requests : req'[q].at = "confirmed" => status'[req'[q].checkout] = "RESERVED"
    BY <1>1, <1>2, <1>4, HandlersKnow DEF WrittenIsCreated
  <2>4. QED
    BY <2>1, <2>2, <2>3 DEF WrittenIsCreated, Created
<1>10. InsertsAreAlone'
  BY <1>1, <1>2 DEF InsertsAreAlone, Created
<1>11. SeatsAreFormal'
  BY <1>1 DEF SeatsAreFormal
<1>12. GivenUpIsBlocked'
  <2> SUFFICES ASSUME ~seatsReturn', NEW q \in Requests, req'[q].key # NoKey,
                      \/ key'[req'[q].checkout] # req'[q].key
                      \/ req'[q].at \in {"reset", "close", "refused"}
               PROVE  /\ formal'[req'[q].key] = {}
                      /\ \/ ended'
                         \/ \E s \in req'[q].seats : seatOf'[s] \notin {NoKey, req'[q].key}
    BY DEF GivenUpIsBlocked, Owned, Blocked, Created
  <2>1. q # r
    BY <1>2, <1>4
  <2>2. req'[q] = req[q]
    BY <1>2, <2>1
  <2>3. key[req[q].checkout] # req[q].key \/ req[q].at \in {"reset", "close", "refused"}
    BY <1>2, <1>3, <1>4, <2>1, <2>2, HandlersKnow DEF Owned
  <2>4. ~Created(req[q].key) /\ Blocked(q)
    BY <1>1, <2>2, <2>3 DEF GivenUpIsBlocked, Owned
  <2>5. QED
    BY <1>1, <2>2, <2>4 DEF Blocked, Created
<1>13. QED
  BY <1>5, <1>6, <1>7, <1>8, <1>9, <1>10, <1>11, <1>12

\* A handler joins the confirmation a checkout has, or has had.
LEMMA JoinKeeps ==
    ASSUME IInv, NEW r \in Requests, NEW c \in Checkouts, req[r].at = "idle",
           status[c] \in {"SUBMITTING", "RESERVED"},
           NEW a \in {"lookup", "confirmed", "unknown"}, Handle(r, c, key[c], a),
           a = "confirmed" => status[c] = "RESERVED",
           UNCHANGED <<rowVars, selected, formal, seatOf, ended, seatsReturn>>
    PROVE  IInv'
<1> USE DEF IInv
<1>1. UNCHANGED <<status, key, reservation, selected, formal, seatOf, ended, seatsReturn>>
  BY DEF rowVars
<1>2. key[c] # NoKey /\ c # NoCheckout /\ req[r].key = NoKey
  BY CheckoutNames DEF TypeOK, HandlersAreGiven
<1>3. /\ key[c] \in Keys /\ selected[c] # {}
      /\ \A q \in Requests : req[q].key = key[c] =>
            req[q].checkout = c /\ req[q].seats = selected[c]
      /\ formal[key[c]] \in {{}, selected[c]}
  BY <1>2, KeyIsKnown
<1>4. /\ req' \in [Requests -> Handlers]
      /\ req'[r].at = a /\ req'[r].checkout = c /\ req'[r].key = key[c]
      /\ req'[r].seats = selected[c]
      /\ \A q \in Requests : q # r => req'[q] = req[q]
  BY <1>3, HandleShape DEF Steps, Answers
<1>5. TypeOK'
  BY <1>1, <1>4 DEF TypeOK
<1>6. HandlersAreGiven'
  BY <1>2, <1>3, <1>4 DEF HandlersAreGiven, Steps
<1>7. KeysAreUnique'
  <2> SUFFICES ASSUME NEW p \in Requests, NEW q \in Requests,
                      req'[p].key # NoKey, req'[p].key = req'[q].key
               PROVE  /\ req'[p].checkout = req'[q].checkout /\ req'[p].seats = req'[q].seats
                      /\ formal'[req'[p].key] \in {{}, req'[p].seats}
    BY DEF KeysAreUnique, SameRequest, Owned
  <2>1. CASE p = r \/ q = r
    BY <1>1, <1>3, <1>4, <2>1
  <2>2. CASE p # r /\ q # r
    <3>1. SameRequest(p, q)
      BY <1>4, <2>2 DEF KeysAreUnique, Owned
    <3>2. QED
      BY <1>1, <1>4, <2>2, <3>1 DEF SameRequest
  <2>3. QED
    BY <2>1, <2>2
<1>8. KeysAreHeld'
  <2>1. ASSUME NEW q \in Requests, req'[q].key # NoKey, key[req'[q].checkout] = req'[q].key
        PROVE  req'[q].seats = selected[req'[q].checkout]
    BY <1>4, <2>1 DEF KeysAreHeld, Owned
  <2>2. ASSUME NEW d \in Checkouts, key[d] # NoKey
        PROVE  \E q \in Requests : req'[q].checkout = d /\ req'[q].key = key[d]
    BY <1>2, <1>4, <2>2 DEF KeysAreHeld
  <2>3. \A j \in Keys : formal[j] # {} => \E q \in Requests : req'[q].key = j
    BY <1>2, <1>4, KeyNames DEF KeysAreHeld, Created
  <2>4. QED
    BY <1>1, <2>1, <2>2, <2>3 DEF KeysAreHeld, Owned, Created
<1>9. WrittenIsCreated'
  BY <1>1, <1>4 DEF WrittenIsCreated, Created
<1>10. InsertsAreAlone'
  BY <1>1, <1>4 DEF InsertsAreAlone, Created
<1>11. SeatsAreFormal'
  BY <1>1 DEF SeatsAreFormal
<1>12. GivenUpIsBlocked'
  BY <1>1, <1>4 DEF GivenUpIsBlocked, Owned, Blocked, Created
<1>13. QED
  BY <1>5, <1>6, <1>7, <1>8, <1>9, <1>10, <1>11, <1>12

\* A confirm that comes after the sales closes the checkout.
LEMMA CloseSelectingKeeps ==
    ASSUME IInv, NEW r \in Requests, NEW c \in Checkouts, CloseSelecting(r, c),
           UNCHANGED seatsReturn
    PROVE  IInv'
<1> USE DEF IInv
<1>1. /\ req[r].at = "idle" /\ status[c] = "SELECTING"
      /\ status' = [status EXCEPT ![c] = "ABANDONED"] /\ key' = [key EXCEPT ![c] = NoKey]
      /\ reservation' = [reservation EXCEPT ![c] = NoKey]
      /\ UNCHANGED <<selected, formal, seatOf, ended, seatsReturn>>
  BY DEF CloseSelecting, SetRow
<1>2. /\ req' \in [Requests -> Handlers]
      /\ req'[r].at = "refused" /\ req'[r].checkout = c /\ req'[r].key = NoKey
      /\ req'[r].seats = selected[c]
      /\ \A q \in Requests : q # r => req'[q] = req[q]
  BY HandleShape DEF CloseSelecting, Answers
<1>3. key[c] = NoKey /\ reservation[c] = NoKey /\ req[r].key = NoKey /\ c # NoCheckout
  BY <1>1, CheckoutNames DEF TypeOK, HandlersAreGiven
<1>4. /\ key' = key /\ reservation' = reservation
      /\ \A d \in Checkouts : d # c => status'[d] = status[d]
      /\ status'[c] = "ABANDONED"
  BY <1>1, <1>3 DEF TypeOK
<1>5. TypeOK'
  BY <1>1, <1>2, <1>3, <1>4 DEF TypeOK
<1>6. HandlersAreGiven'
  BY <1>1, <1>2, <1>3 DEF HandlersAreGiven, Steps
<1>7. KeysAreUnique'
  <2> SUFFICES ASSUME NEW p \in Requests, NEW q \in Requests,
                      req'[p].key # NoKey, req'[p].key = req'[q].key
               PROVE  /\ req'[p].checkout = req'[q].checkout /\ req'[p].seats = req'[q].seats
                      /\ formal'[req'[p].key] \in {{}, req'[p].seats}
    BY DEF KeysAreUnique, SameRequest, Owned
  <2>1. req'[p] = req[p] /\ req'[q] = req[q]
    BY <1>2
  <2>2. SameRequest(p, q)
    BY <2>1 DEF KeysAreUnique, Owned
  <2>3. QED
    BY <1>1, <2>1, <2>2 DEF SameRequest
<1>8. KeysAreHeld'
  BY <1>1, <1>2, <1>3, <1>4, KeyNames DEF KeysAreHeld, Owned, Created
<1>9. WrittenIsCreated'
  BY <1>1, <1>2, <1>3, <1>4, HandlersKnow DEF WrittenIsCreated, Created
<1>10. InsertsAreAlone'
  BY <1>1, <1>2 DEF InsertsAreAlone, Created
<1>11. SeatsAreFormal'
  BY <1>1 DEF SeatsAreFormal
<1>12. GivenUpIsBlocked'
  BY <1>1, <1>2, <1>4 DEF GivenUpIsBlocked, Owned, Blocked, Created
<1>13. QED
  BY <1>5, <1>6, <1>7, <1>8, <1>9, <1>10, <1>11, <1>12

-----------------------------------------------------------------------------
\* The formal reservation is created.
LEMMA ReserveKeeps ==
    ASSUME IInv, NEW r \in Requests, Reserve(r), UNCHANGED seatsReturn
    PROVE  IInv'
<1> USE DEF IInv
<1> DEFINE k == req[r].key
<1>1. /\ req[r].at = "reserve" /\ Owned(r) /\ k \in Keys /\ k # NoKey
      /\ req[r].seats \subseteq Seats /\ req[r].seats # {} /\ formal[k] = {}
      /\ \A q \in Requests : req[q].at = "reserve" /\ req[q].key = k => q = r
  BY HandlersKnow DEF Reserve, Steps, Owned, HandlersAreGiven, InsertsAreAlone, Created
<1>2. /\ ~ended /\ \A s \in req[r].seats : seatOf[s] = NoKey
      /\ formal' = [formal EXCEPT ![k] = req[r].seats]
      /\ seatOf' = [s \in Seats |-> IF s \in req[r].seats THEN k ELSE seatOf[s]]
      /\ UNCHANGED <<status, key, reservation, selected, ended, seatsReturn>>
  BY DEF Reserve, rowVars
<1>3. /\ req' \in [Requests -> Handlers]
      /\ \A q \in Requests :
            /\ req'[q].checkout = req[q].checkout
            /\ req'[q].key = req[q].key
            /\ req'[q].seats = req[q].seats
            /\ req'[q].at = IF q = r THEN "finalize" ELSE req[q].at
  BY GoShape DEF Reserve, Steps
<1>4. /\ formal'[k] = req[r].seats
      /\ \A j \in Keys : j # k => formal'[j] = formal[j]
  BY <1>1, <1>2 DEF TypeOK
<1>5. \A q \in Requests : req[q].key = k =>
         req[q].checkout = req[r].checkout /\ req[q].seats = req[r].seats
  BY <1>1 DEF KeysAreUnique, SameRequest
<1>6. TypeOK'
  BY <1>1, <1>2, <1>3 DEF TypeOK
<1>7. HandlersAreGiven'
  BY <1>1, <1>3 DEF HandlersAreGiven, Steps, Owned
<1>8. KeysAreUnique'
  <2> SUFFICES ASSUME NEW p \in Requests, NEW q \in Requests,
                      req'[p].key # NoKey, req'[p].key = req'[q].key
               PROVE  /\ req'[p].checkout = req'[q].checkout /\ req'[p].seats = req'[q].seats
                      /\ formal'[req'[p].key] \in {{}, req'[p].seats}
    BY DEF KeysAreUnique, SameRequest, Owned
  <2>1. /\ req[p].checkout = req[q].checkout /\ req[p].seats = req[q].seats
        /\ formal[req[p].key] \in {{}, req[p].seats} /\ req[p].key \in Keys
    BY <1>3, HandlersKnow DEF KeysAreUnique, SameRequest, Owned
  <2>2. CASE req[p].key = k
    BY <1>3, <1>4, <1>5, <2>1, <2>2
  <2>3. CASE req[p].key # k
    BY <1>3, <1>4, <2>1, <2>3
  <2>4. QED
    BY <2>2, <2>3
<1>9. KeysAreHeld'
  BY <1>1, <1>2, <1>3, <1>4 DEF KeysAreHeld, Owned, Created
<1>10. WrittenIsCreated'
  <2>1. \A j \in Keys : formal[j] # {} => formal'[j] # {}
    BY <1>1, <1>4
  <2>2. \A c \in Checkouts : status[c] = "RESERVED" => key[c] \in Keys
    BY DEF TypeOK
  <2>3. \A q \in Requests : req[q].at = "finalize" => req[q].key \in Keys
    BY HandlersKnow DEF Steps
  <2>4. QED
    BY <1>1, <1>2, <1>3, <1>4, <2>1, <2>2, <2>3 DEF WrittenIsCreated, Created
<1>11. InsertsAreAlone'
  BY <1>1, <1>3, <1>4, HandlersKnow DEF InsertsAreAlone, Created, Steps
<1>12. SeatsAreFormal'
  BY <1>1, <1>2, <1>4 DEF SeatsAreFormal, TypeOK
<1>13. GivenUpIsBlocked'
  <2> SUFFICES ASSUME ~seatsReturn, NEW q \in Requests, Owned(q),
                      key[req[q].checkout] # req[q].key
                        \/ (q # r /\ req[q].at \in {"reset", "close", "refused"})
               PROVE  ~Created(req[q].key)' /\ Blocked(q)'
    BY <1>2, <1>3 DEF GivenUpIsBlocked, Owned
  <2>1. ~Created(req[q].key) /\ Blocked(q) /\ req[q].key \in Keys /\ req[q].seats \subseteq Seats
    BY HandlersKnow DEF GivenUpIsBlocked
  <2>2. PICK s \in req[q].seats : seatOf[s] \notin {NoKey, req[q].key}
    BY <1>2, <2>1 DEF Blocked
  <2>3. s \in Seats /\ s \notin req[r].seats /\ seatOf'[s] = seatOf[s]
    BY <1>2, <2>1, <2>2
  <2>4. req[q].key # k
    BY <1>5, <2>2, <2>3
  <2>5. QED
    BY <1>3, <1>4, <2>1, <2>2, <2>3, <2>4 DEF Created, Blocked
<1>14. QED
  BY <1>6, <1>7, <1>8, <1>9, <1>10, <1>11, <1>12, <1>13

-----------------------------------------------------------------------------
\* A reservation is written into the row whose confirmation created it, by a handler
\* or by a GET.
LEMMA ConfirmRowKeeps ==
    ASSUME IInv, NEW c \in Checkouts, status[c] = "SUBMITTING", Created(key[c]),
           SetRow(c, "RESERVED", key[c], key[c]),
           \/ UNCHANGED req
           \/ \E r \in Requests : req[r].at = "finalize" /\ req[r].checkout = c /\ Go(r, "confirmed"),
           UNCHANGED <<selected, formal, seatOf, ended, seatsReturn>>
    PROVE  IInv'
<1> USE DEF IInv
<1>1. key[c] \in Keys /\ key[c] # NoKey
  BY DEF TypeOK
<1>2. /\ status'[c] = "RESERVED" /\ reservation'[c] = key[c] /\ key' = key
      /\ \A d \in Checkouts : d # c => status'[d] = status[d] /\ reservation'[d] = reservation[d]
      /\ UNCHANGED <<selected, formal, seatOf, ended, seatsReturn>>
  BY DEF SetRow, TypeOK
<1>3. /\ req' \in [Requests -> Handlers]
      /\ \A q \in Requests :
            /\ req'[q].checkout = req[q].checkout
            /\ req'[q].key = req[q].key
            /\ req'[q].seats = req[q].seats
            /\ \/ req'[q].at = req[q].at
               \/ req'[q].at = "confirmed" /\ req[q].at = "finalize" /\ req[q].checkout = c
  <2>1. CASE UNCHANGED req
    BY <2>1 DEF TypeOK
  <2>2. ASSUME NEW r \in Requests, req[r].at = "finalize", req[r].checkout = c, Go(r, "confirmed")
        PROVE  /\ req' \in [Requests -> Handlers]
               /\ \A q \in Requests :
                     /\ req'[q].checkout = req[q].checkout
                     /\ req'[q].key = req[q].key
                     /\ req'[q].seats = req[q].seats
                     /\ \/ req'[q].at = req[q].at
                        \/ req'[q].at = "confirmed" /\ req[q].at = "finalize" /\ req[q].checkout = c
    BY <2>2, GoShape DEF Answers
  <2>3. QED
    BY <2>1, <2>2
<1>4. TypeOK'
  BY <1>1, <1>2, <1>3 DEF TypeOK, SetRow
<1>5. HandlersAreGiven'
  BY <1>3 DEF HandlersAreGiven, Steps
<1>6. KeysAreUnique'
  <2> SUFFICES ASSUME NEW p \in Requests, NEW q \in Requests,
                      req'[p].key # NoKey, req'[p].key = req'[q].key
               PROVE  /\ req'[p].checkout = req'[q].checkout /\ req'[p].seats = req'[q].seats
                      /\ formal'[req'[p].key] \in {{}, req'[p].seats}
    BY DEF KeysAreUnique, SameRequest, Owned
  <2>1. SameRequest(p, q)
    BY <1>3 DEF KeysAreUnique, Owned
  <2>2. QED
    BY <1>2, <1>3, <2>1 DEF SameRequest
<1>7. KeysAreHeld'
  BY <1>2, <1>3 DEF KeysAreHeld, Owned, Created
<1>8. WrittenIsCreated'
  BY <1>2, <1>3, HandlersKnow DEF WrittenIsCreated, Created
<1>9. InsertsAreAlone'
  BY <1>2, <1>3 DEF InsertsAreAlone, Created
<1>10. SeatsAreFormal'
  BY <1>2 DEF SeatsAreFormal
<1>11. GivenUpIsBlocked'
  BY <1>2, <1>3 DEF GivenUpIsBlocked, Owned, Blocked, Created
<1>12. QED
  BY <1>4, <1>5, <1>6, <1>7, <1>8, <1>9, <1>10, <1>11

\* A confirmation is given up by a handler that saw it refused.
LEMMA WithdrawKeeps ==
    ASSUME IInv, NEW r \in Requests, req[r].at \in {"reset", "close"}, StillOurs(r),
           NEW st \in {"SELECTING", "ABANDONED"}, SetRow(req[r].checkout, st, NoKey, NoKey),
           Go(r, "refused"), UNCHANGED <<selected, formal, seatOf, ended, seatsReturn>>
    PROVE  IInv'
<1> USE DEF IInv
<1> DEFINE c == req[r].checkout
<1>1. /\ c \in Checkouts /\ Owned(r) /\ status[c] = "SUBMITTING" /\ key[c] = req[r].key
      /\ key[c] # NoKey
  BY HandlersKnow DEF Steps, StillOurs, Owned
<1>2. /\ status'[c] = st /\ reservation'[c] = NoKey /\ key'[c] = NoKey
      /\ \A d \in Checkouts : d # c => /\ status'[d] = status[d] /\ key'[d] = key[d]
                                      /\ reservation'[d] = reservation[d]
      /\ UNCHANGED <<selected, formal, seatOf, ended, seatsReturn>>
  BY <1>1 DEF SetRow, TypeOK
<1>3. /\ req' \in [Requests -> Handlers]
      /\ \A q \in Requests :
            /\ req'[q].checkout = req[q].checkout
            /\ req'[q].key = req[q].key
            /\ req'[q].seats = req[q].seats
            /\ req'[q].at = IF q = r THEN "refused" ELSE req[q].at
  BY GoShape DEF Answers
<1>4. \A q \in Requests : req[q].key = key[c] => req[q].checkout = c /\ req[q].seats = req[r].seats
  BY <1>1, KeyIsKnown
<1>5. TypeOK'
  BY <1>1, <1>2, <1>3 DEF TypeOK, SetRow
<1>6. HandlersAreGiven'
  BY <1>1, <1>3 DEF HandlersAreGiven, Steps
<1>7. KeysAreUnique'
  <2> SUFFICES ASSUME NEW p \in Requests, NEW q \in Requests,
                      req'[p].key # NoKey, req'[p].key = req'[q].key
               PROVE  /\ req'[p].checkout = req'[q].checkout /\ req'[p].seats = req'[q].seats
                      /\ formal'[req'[p].key] \in {{}, req'[p].seats}
    BY DEF KeysAreUnique, SameRequest, Owned
  <2>1. SameRequest(p, q)
    BY <1>3 DEF KeysAreUnique, Owned
  <2>2. QED
    BY <1>2, <1>3, <2>1 DEF SameRequest
<1>8. KeysAreHeld'
  BY <1>2, <1>3, HandlersKnow DEF KeysAreHeld, Owned, Created
<1>9. WrittenIsCreated'
  BY <1>1, <1>2, <1>3, HandlersKnow DEF WrittenIsCreated, Created
<1>10. InsertsAreAlone'
  BY <1>2, <1>3 DEF InsertsAreAlone, Created
<1>11. SeatsAreFormal'
  BY <1>2 DEF SeatsAreFormal
<1>12. GivenUpIsBlocked'
  <2> SUFFICES ASSUME ~seatsReturn, NEW q \in Requests, Owned(q),
                      (key[req[q].checkout] # req[q].key \/ req[q].at \in {"reset", "close", "refused"})'
               PROVE  ~Created(req[q].key)' /\ Blocked(q)'
    BY <1>2, <1>3 DEF GivenUpIsBlocked, Owned
  <2>1. ~Created(req[q].key) /\ Blocked(q)
    <3>1. CASE req[q].key = key[c]
      <4>1. ~Created(req[r].key) /\ Blocked(r)
        BY <1>1 DEF GivenUpIsBlocked
      <4>2. QED
        BY <1>1, <1>4, <3>1, <4>1 DEF Blocked
    <3>2. CASE req[q].key # key[c]
      BY <1>1, <1>2, <1>3, <3>2, HandlersKnow DEF GivenUpIsBlocked
    <3>3. QED
      BY <3>1, <3>2
  <2>2. QED
    BY <1>2, <1>3, <2>1 DEF Created, Blocked
<1>13. QED
  BY <1>5, <1>6, <1>7, <1>8, <1>9, <1>10, <1>11, <1>12

-----------------------------------------------------------------------------
\* What a handler needs to know of its own confirmation, at the place where it is.
LEMMA AtItsStep ==
    ASSUME IInv, NEW r \in Requests, req[r].at \in Steps
    PROVE  /\ req[r].checkout \in Checkouts /\ req[r].key \in Keys /\ req[r].key # NoKey
           /\ req[r].at = "reserve" => ~Created(req[r].key)
           /\ req[r].at = "finalize" => Created(req[r].key)
           /\ req[r].at \in {"reset", "close"} /\ ~seatsReturn => ~Created(req[r].key) /\ Blocked(r)
  BY HandlersKnow DEF IInv, InsertsAreAlone, WrittenIsCreated, GivenUpIsBlocked, Owned

LEMMA PrepareKeeps ==
    ASSUME IInv, NEW r \in Requests, PrepareConfirm(r), UNCHANGED seatsReturn
    PROVE  IInv'
<1>1. ASSUME NEW c \in Checkouts, NEW k \in Keys, Freeze(r, c, k) PROVE IInv'
  BY <1>1, FreezeKeeps
<1>2. ASSUME NEW c \in Checkouts, Reuse(r, c) PROVE IInv'
  BY <1>2, JoinKeeps DEF Reuse
<1>3. ASSUME NEW c \in Checkouts, AnswerReserved(r, c) PROVE IInv'
  BY <1>3, JoinKeeps DEF AnswerReserved
<1>4. ASSUME NEW c \in Checkouts, CloseSelecting(r, c) PROVE IInv'
  BY <1>4, CloseSelectingKeeps
<1>5. QED
  BY <1>1, <1>2, <1>3, <1>4 DEF PrepareConfirm

LEMMA ReservationKeeps ==
    ASSUME IInv, NEW r \in Requests, UNCHANGED seatsReturn,
           Lookup(r) \/ InsertKey(r) \/ Reserve(r) \/ Refuse(r) \/ Die(r)
    PROVE  IInv'
<1>1. CASE Lookup(r)
  <2>1. CASE Created(req[r].key)
    BY <1>1, <2>1, GoKeeps DEF Lookup, Steps
  <2>2. CASE ~Created(req[r].key)
    BY <1>1, <2>2, GoKeeps DEF Lookup, Steps
  <2>3. QED
    BY <2>1, <2>2
<1>2. CASE InsertKey(r)
  <2>1. CASE Created(req[r].key)
    BY <1>2, <2>1, GoKeeps DEF InsertKey, Steps
  <2>2. CASE ~Created(req[r].key)
    BY <1>2, <2>2, GoKeeps DEF InsertKey, Steps
  <2>3. QED
    BY <2>1, <2>2
<1>3. CASE Reserve(r)
  BY <1>3, ReserveKeeps
<1>4. CASE Refuse(r)
  <2>1. req[r].at = "reserve" /\ ~Created(req[r].key)
    BY <1>4, AtItsStep DEF Refuse, Steps
  <2>2. ASSUME NEW s \in req[r].seats, seatOf[s] # NoKey, Go(r, "reset") PROVE IInv'
    <3>1. req[r].key \in Keys /\ s \in Seats
      BY <2>1, AtItsStep, HandlersKnow DEF Steps, IInv
    <3>2. seatOf[s] # req[r].key
      BY <2>1, <3>1 DEF IInv, SeatsAreFormal, Created
    <3>3. Blocked(r)
      BY <2>2, <3>2 DEF Blocked
    <3>4. QED
      BY <1>4, <2>1, <2>2, <3>3, GoKeeps DEF Refuse, Steps
  <2>3. ASSUME ended, Go(r, "close") PROVE IInv'
    <3>1. Blocked(r)
      BY <2>3 DEF Blocked
    <3>2. QED
      BY <1>4, <2>1, <2>3, <3>1, GoKeeps DEF Refuse, Steps
  <2>4. QED
    BY <1>4, <2>2, <2>3 DEF Refuse
<1>5. CASE Die(r)
  BY <1>5, GoKeeps DEF Die, Answers
<1>6. QED
  BY <1>1, <1>2, <1>3, <1>4, <1>5

LEMMA FinalizeKeeps ==
    ASSUME IInv, NEW r \in Requests, Finalize(r), UNCHANGED seatsReturn
    PROVE  IInv'
<1>1. /\ req[r].at = "finalize" /\ Created(req[r].key) /\ req[r].checkout \in Checkouts
      /\ UNCHANGED <<selected, formal, seatOf, ended, seatsReturn>>
  BY AtItsStep DEF Finalize, Steps
<1>2. CASE StillOurs(r) /\ SetRow(req[r].checkout, "RESERVED", req[r].key, req[r].key)
           /\ Go(r, "confirmed")
  BY <1>1, <1>2, ConfirmRowKeeps DEF StillOurs
<1>3. CASE ReservedByUs(r) /\ Go(r, "confirmed") /\ UNCHANGED rowVars
  BY <1>1, <1>3, GoKeeps DEF ReservedByUs, Steps, Answers
<1>4. CASE Go(r, "unknown") /\ UNCHANGED rowVars
  BY <1>1, <1>4, GoKeeps DEF Steps, Answers
<1>5. QED
  BY <1>2, <1>3, <1>4 DEF Finalize

LEMMA ResetKeeps ==
    ASSUME IInv, NEW r \in Requests, Reset(r), UNCHANGED seatsReturn
    PROVE  IInv'
<1>1. /\ req[r].at = "reset"
      /\ ~seatsReturn => ~Created(req[r].key) /\ Blocked(r)
      /\ UNCHANGED <<selected, formal, seatOf, ended, seatsReturn>>
  BY AtItsStep DEF Reset, Steps
<1>2. CASE StillOurs(r) /\ ReopenRow(req[r].checkout) /\ Go(r, "refused")
  BY <1>1, <1>2, WithdrawKeeps DEF ReopenRow
<1>3. ASSUME NEW a \in {"refused", "unknown"}, Go(r, a), UNCHANGED rowVars PROVE IInv'
  BY <1>1, <1>3, GoKeeps DEF Steps, Answers
<1>4. QED
  BY <1>2, <1>3 DEF Reset

LEMMA CloseKeeps ==
    ASSUME IInv, NEW r \in Requests, Close(r), UNCHANGED seatsReturn
    PROVE  IInv'
<1> DEFINE c == req[r].checkout
<1>1. /\ req[r].at = "close"
      /\ ~seatsReturn => ~Created(req[r].key) /\ Blocked(r)
      /\ UNCHANGED <<selected, formal, seatOf, ended, seatsReturn>>
  BY AtItsStep DEF Close, Steps
<1>2. CASE StillOurs(r) /\ SetRow(c, "ABANDONED", NoKey, NoKey) /\ Go(r, "refused")
  BY <1>1, <1>2, WithdrawKeeps
<1>3. ASSUME NEW a \in {"refused", "unknown", "confirmed"}, Go(r, a), UNCHANGED rowVars,
             a = "confirmed" => status[c] = "RESERVED"
      PROVE  IInv'
  BY <1>1, <1>3, GoKeeps DEF Steps, Answers
<1>4. QED
  BY <1>2, <1>3 DEF Close

-----------------------------------------------------------------------------
LEMMA NextKeeps == IInv /\ [Next /\ UNCHANGED seatsReturn]_vars => IInv'
<1> SUFFICES ASSUME IInv, [Next /\ UNCHANGED seatsReturn]_vars PROVE IInv'
  OBVIOUS
<1>1. CASE World /\ UNCHANGED seatsReturn
  BY <1>1, WorldKeeps
<1>2. CASE Selecting /\ UNCHANGED seatsReturn
  BY <1>2, SelectingKeeps
<1>3. ASSUME NEW r \in Requests, Handler(r), UNCHANGED seatsReturn PROVE IInv'
  BY <1>3, PrepareKeeps, ReservationKeeps, FinalizeKeeps, ResetKeeps, CloseKeeps DEF Handler
<1>4. ASSUME NEW c \in Checkouts, Reconcile(c), UNCHANGED seatsReturn PROVE IInv'
  BY <1>4, ConfirmRowKeeps DEF Reconcile
<1>5. CASE UNCHANGED vars
  <2>1. UNCHANGED <<status, key, reservation, selected, formal, seatOf, ended, seatsReturn, req>>
    BY <1>5 DEF vars, rowVars
  <2>2. TypeOK' /\ HandlersAreGiven' /\ KeysAreHeld'
    BY <2>1 DEF IInv, TypeOK, HandlersAreGiven, KeysAreHeld, Owned, Created
  <2>3. KeysAreUnique'
    BY <2>1 DEF IInv, KeysAreUnique, Owned, SameRequest
  <2>4. WrittenIsCreated'
    BY <2>1 DEF IInv, WrittenIsCreated, Created
  <2>5. InsertsAreAlone'
    BY <2>1 DEF IInv, InsertsAreAlone, Created
  <2>6. SeatsAreFormal'
    BY <2>1 DEF IInv, SeatsAreFormal
  <2>7. GivenUpIsBlocked'
    BY <2>1 DEF IInv, GivenUpIsBlocked, Owned, Created, Blocked
  <2>8. QED
    BY <2>2, <2>3, <2>4, <2>5, <2>6, <2>7 DEF IInv
<1>6. QED
  BY <1>1, <1>2, <1>3, <1>4, <1>5 DEF Next

\* The types, the shape of the row (checkout_sessions_state_shape_check) and the rest of
\* the inductive invariant hold in every state of the confirm chain.
THEOREM InvCorrect == Spec => []IInv
  BY InitInv, NextKeeps, PTL DEF Spec

\* Whatever handlers of prepareConfirm, finalize and close overlap, an answer that
\* confirms is true, and a key is never used for two requests.
THEOREM ConfirmedIsTrueCorrect == Spec => []ConfirmedIsTrue
<1>1. IInv => ConfirmedIsTrue
  <2> SUFFICES ASSUME IInv PROVE ConfirmedIsTrue
    OBVIOUS
  <2>1. ASSUME NEW r \in Requests, req[r].at = "confirmed" PROVE AnswerIsTrue(r)
    <3> DEFINE c == req[r].checkout
    <3>1. c \in Checkouts /\ status[c] = "RESERVED" /\ reservation[c] = key[c] /\ Created(key[c])
      BY <2>1, HandlersKnow DEF IInv, WrittenIsCreated
    <3>2. key[c] # NoKey
      BY <3>1 DEF IInv, TypeOK
    <3>3. formal[key[c]] \in {{}, selected[c]}
      BY <3>1, <3>2, KeyIsKnown
    <3>4. QED
      BY <3>1, <3>3 DEF AnswerIsTrue, Created
  <2>2. QED
    BY <2>1 DEF ConfirmedIsTrue, IInv, KeysAreUnique, Owned
<1>2. QED
  BY <1>1, InvCorrect, PTL

\* While no seat comes back, a reservation that confirm has created is never lost to its
\* checkout, and a refusal means that there is none (resetAfterBusinessFailure,
\* closeSubmittingAfterSalesWindow).
THEOREM FormalResultIsKeptCorrect == Spec => []FormalResultIsKept
<1>1. IInv => FormalResultIsKept
  <2> SUFFICES ASSUME IInv, ~seatsReturn
               PROVE  /\ FormalResultIsNeverLost
                      /\ \A r \in Requests : req[r].at = "refused" /\ req[r].key # NoKey =>
                            ~Created(req[r].key)
    BY DEF FormalResultIsKept
  <2>1. \A r \in Requests :
           req[r].key # NoKey /\ (key[req[r].checkout] # req[r].key \/ req[r].at = "refused") =>
              ~Created(req[r].key)
    BY DEF IInv, GivenUpIsBlocked, Owned
  <2>2. FormalResultIsNeverLost
    BY <2>1 DEF FormalResultIsNeverLost, KeysOf
  <2>3. QED
    BY <2>1, <2>2
<1>2. QED
  BY <1>1, InvCorrect, PTL

-----------------------------------------------------------------------------
\* One reservation per key: arbitrateIdempotency lets no second handler insert one, and
\* no seat moves to a key later.
THEOREM CreatedOnceCorrect == Spec => CreatedOnce
<1> DEFINE Once == \A k \in Keys : Created(k) =>
                      /\ formal'[k] = formal[k]
                      /\ \A s \in Seats : seatOf'[s] = k => seatOf[s] = k
<1>1. ASSUME IInv, [Next /\ UNCHANGED seatsReturn]_vars PROVE Once
  <2>1. CASE UNCHANGED <<formal, seatOf>>
    BY <2>1
  <2>2. CASE World
    <3>1. formal' = formal
      BY <2>2 DEF World, SalesEnd, OtherBuys, OrderCloses
    <3>2. seatOf \in [Seats -> Keys \cup {NoKey, Other}]
      BY <1>1 DEF IInv, TypeOK
    <3>3. \A s \in Seats : seatOf'[s] \in {seatOf[s], Other, NoKey}
      BY <2>2, <3>2 DEF World, SalesEnd, OtherBuys, OrderCloses
    <3>4. QED
      BY <3>1, <3>3, KeyNames
  <2>3. ASSUME NEW r \in Requests, Reserve(r) PROVE Once
    <3>1. req[r].key \in Keys /\ ~Created(req[r].key)
      BY <1>1, <2>3, AtItsStep DEF Reserve, Steps
    <3>2. QED
      BY <1>1, <2>3, <3>1 DEF Reserve, Created, IInv, TypeOK
  <2>4. UNCHANGED <<formal, seatOf>> \/ World \/ \E r \in Requests : Reserve(r)
    BY <1>1 DEF Next, vars, Selecting, Abandon, Create, Replace, Handler, PrepareConfirm, Freeze,
       Reuse, AnswerReserved, CloseSelecting, Lookup, InsertKey, Refuse, Finalize, Reset, Close,
       Die, Reconcile
  <2>5. QED
    BY <2>1, <2>2, <2>3, <2>4
<1>2. [][Once]_vars => CreatedOnce
  BY PTL DEF CreatedOnce
<1>3. QED
  BY <1>1, <1>2, InvCorrect, PTL DEF Spec

\* RESERVED and ABANDONED are final, and only a handler whose own reservation was refused
\* withdraws a confirmation (every UPDATE of the row is guarded by its status and key).
THEOREM OutcomesAreFinalCorrect == Spec => OutcomesAreFinal
<1> DEFINE Final ==
             \A c \in Checkouts :
                 /\ status[c] \in {"RESERVED", "ABANDONED"} =>
                       status'[c] = status[c] /\ reservation'[c] = reservation[c]
                 /\ status[c] = "SUBMITTING" /\ status'[c] \in {"SELECTING", "ABANDONED"} =>
                       \E r \in Requests : /\ req[r].at \in {"reset", "close"}
                                           /\ req[r].key = key[c]
<1>1. ASSUME IInv, [Next /\ UNCHANGED seatsReturn]_vars PROVE Final
  <2> USE <1>1 DEF IInv
  <2>1. CASE UNCHANGED rowVars
    BY <2>1 DEF rowVars
  <2>2. ASSUME NEW c \in Checkouts, NEW st, NEW k, NEW res,
               status[c] \in {"NONE", "SELECTING"}, SetRow(c, st, k, res)
        PROVE  Final
    BY <2>2 DEF SetRow, TypeOK
  <2>3. ASSUME NEW c \in Checkouts, NEW k, status[c] = "SUBMITTING", SetRow(c, "RESERVED", k, k)
        PROVE  Final
    BY <2>3 DEF SetRow, TypeOK
  <2>4. ASSUME NEW r \in Requests, req[r].at \in {"reset", "close"}, StillOurs(r),
               NEW st, SetRow(req[r].checkout, st, NoKey, NoKey)
        PROVE  Final
    BY <2>4 DEF SetRow, StillOurs, TypeOK
  <2>5. CASE Selecting
    BY <2>1, <2>2, <2>5 DEF Selecting, Create, Replace, Abandon
  <2>6. ASSUME NEW r \in Requests, Handler(r) PROVE Final
    <3>1. ASSUME Finalize(r) PROVE Final
      <4>1. req[r].checkout \in Checkouts
        BY <3>1, AtItsStep DEF Finalize, Steps
      <4>2. QED
        BY <2>1, <2>3, <3>1, <4>1 DEF Finalize, StillOurs
    <3>2. ASSUME Reset(r) \/ Close(r) PROVE Final
      BY <2>1, <2>4, <3>2 DEF Reset, Close, ReopenRow
    <3>3. ASSUME PrepareConfirm(r) PROVE Final
      BY <2>1, <2>2, <3>3 DEF PrepareConfirm, Freeze, Reuse, AnswerReserved, CloseSelecting
    <3>4. QED
      BY <2>1, <2>6, <3>1, <3>2, <3>3 DEF Handler, Lookup, InsertKey, Reserve, Refuse, Die
  <2>7. ASSUME NEW c \in Checkouts, Reconcile(c) PROVE Final
    BY <2>3, <2>7 DEF Reconcile
  <2>8. World \/ UNCHANGED vars => UNCHANGED rowVars
    BY DEF World, SalesEnd, OtherBuys, OrderCloses, vars
  <2>9. QED
    BY <1>1, <2>1, <2>5, <2>6, <2>7, <2>8 DEF Next
<1>2. [][Final]_vars => OutcomesAreFinal
  BY PTL DEF OutcomesAreFinal
<1>3. QED
  BY <1>1, <1>2, InvCorrect, PTL DEF Spec

-----------------------------------------------------------------------------
(* Temporary holds. *)

\* A handler that was called has a checkout.
TypeInv ==
    /\ Holds!TypeOK
    /\ \A r \in Requests : holdReq[r].at # "idle" => holdReq[r].checkout \in Checkouts

\* The steps of a handler that nobody else may work on the checkout with: it has the
\* row locked, or the row is SUBMITTING on its behalf.
Working(r) == holdReq[r].at \in Holds!LockedSteps \cup {"formal"}

\* What a handler knows of its checkout.  A handler of an older PUT knows that the row
\* has gone on, or is still as it wrote it.
HandlersKnowTheirRow ==
    \A r \in Requests :
        LET at == holdReq[r].at  c == holdReq[r].checkout IN
        /\ at # "abortLate"
        /\ Working(r) => holdReq[r].old = holdSelected[c]
        /\ at \in {"prepare", "write", "abort"} =>
              \/ holdStatus[c] = "NONE" /\ holdReq[r].target = 0
              \/ holdStatus[c] = "SELECTING" /\ holdReq[r].target = revision[c] + 1
        /\ at \in {"ensure", "freeze"} => holdStatus[c] = "SELECTING" /\ holdReq[r].new = holdSelected[c]
        /\ at \in {"formal", "resetRelease", "resetWrite"} => holdStatus[c] = "SUBMITTING"
        /\ at = "finalize" => /\ holdStatus[c] # "NONE" /\ holdReq[r].target <= revision[c]
                              /\ holdReq[r].target = revision[c] => holdSelected[c] = holdReq[r].new
        /\ at = "release" => holdStatus[c] \in {"ABANDONED", "RESERVED"}

NothingBeforeCreation ==
    \A c \in Checkouts : holdStatus[c] = "NONE" => revision[c] = 0 /\ holdSelected[c] = {}

OneAtATime ==
    \A r, q \in Requests :
        Working(r) /\ Working(q) /\ holdReq[r].checkout = holdReq[q].checkout => r = q

\* The seats that a checkout has selected or is about to.
Wanted(c, s) ==
    \/ s \in holdSelected[c]
    \/ \E r \in Requests : holdReq[r].at = "write" /\ holdReq[r].checkout = c /\ s \in holdReq[r].new

SecuredAreWanted == \A c \in Checkouts : \A s \in secured[c] : Wanted(c, s)

SecuredAreHeld ==
    \A c \in Checkouts : holdStatus[c] \notin {"ABANDONED", "RESERVED"} =>
        \A s \in secured[c] : hold[s].owner = c

\* The revision of a hold tells which PUT wrote it: those that are being added have
\* the next one, and those selected none that is newer than the row.
RevisionsTell ==
    /\ \A r \in Requests : holdReq[r].at = "write" =>
          \A s \in holdReq[r].new \ holdReq[r].old :
              hold[s].owner = holdReq[r].checkout => hold[s].revision = holdReq[r].target
    /\ \A c \in Checkouts : \A s \in holdSelected[c] :
          hold[s].owner = c => hold[s].revision <= revision[c]

\* A clean-up behind a commit never meets the hold of a wanted seat that it would
\* delete: what was taken again since has a newer revision.
CleanUpsAreOld ==
    \A r \in Requests : holdReq[r].at = "finalize" =>
        \A s \in holdReq[r].old \ holdReq[r].new :
            Wanted(holdReq[r].checkout, s) /\ hold[s].owner = holdReq[r].checkout =>
                hold[s].revision > holdReq[r].target

\* The clean-up of r, that is to come or never will, is for the hold of s.
Covers(r, s) ==
    /\ holdReq[r].checkout = hold[s].owner
    /\ \/ /\ holdReq[r].at \in {"write", "abort"} /\ s \in holdReq[r].new \ holdReq[r].old
          /\ hold[s].revision = holdReq[r].target
       \/ /\ holdReq[r].at = "finalize" /\ s \in holdReq[r].old \ holdReq[r].new
          /\ hold[s].revision <= holdReq[r].target
       \/ holdReq[r].at = "release" /\ s \in holdReq[r].old
       \/ holdReq[r].at = "dead" /\ s \in holdReq[r].old \cup holdReq[r].new

NothingLeaks ==
    \A s \in Seats, c \in Checkouts : hold[s].owner = c =>
        (Holds!Open(c) /\ s \in holdSelected[c]) \/ \E r \in Requests : Covers(r, s)

Calm ==
    /\ HandlersKnowTheirRow /\ NothingBeforeCreation /\ OneAtATime
    /\ SecuredAreWanted /\ SecuredAreHeld
    /\ RevisionsTell /\ CleanUpsAreOld /\ NothingLeaks

HoldInv == TypeInv /\ (failing = {} => Calm)

-----------------------------------------------------------------------------
Places == Holds!LockedSteps \cup Holds!FreeSteps \cup {"idle", "done", "dead"}

\* Go changes where a handler is, and nothing else of any.
LEMMA HoldGoShape ==
    ASSUME Holds!TypeOK, NEW r \in Requests, NEW a \in Places, Holds!Go(r, a)
    PROVE  /\ holdReq' \in [Requests -> Holds!Handlers]
           /\ \A q \in Requests :
                /\ holdReq'[q].checkout = holdReq[q].checkout
                /\ holdReq'[q].old = holdReq[q].old
                /\ holdReq'[q].new = holdReq[q].new
                /\ holdReq'[q].target = holdReq[q].target
                /\ q # r => holdReq'[q].at = holdReq[q].at
           /\ holdReq'[r].at = a
<1>1. holdReq \in [Requests -> Holds!Handlers]
  BY DEF Holds!TypeOK
<1>2. holdReq' = [holdReq EXCEPT ![r] = [holdReq[r] EXCEPT !.at = a]]
  BY DEF Holds!Go
<1> DEFINE h == [holdReq[r] EXCEPT !.at = a]
<1>3. /\ h \in Holds!Handlers /\ h.checkout = holdReq[r].checkout /\ h.old = holdReq[r].old
      /\ h.new = holdReq[r].new /\ h.target = holdReq[r].target /\ h.at = a
  BY <1>1 DEF Holds!Handlers, Places
<1>4. \A q \in Requests : holdReq'[q] = IF q = r THEN h ELSE holdReq[q]
  BY <1>1, <1>2
<1>5. holdReq' \in [Requests -> Holds!Handlers]
  BY <1>1, <1>2, <1>3
<1>6. QED
  BY <1>3, <1>4, <1>5

\* A call makes an idle handler one of the given checkout.
LEMMA HoldHandleShape ==
    ASSUME Holds!TypeOK, NEW r \in Requests, NEW a \in Places, NEW c \in Checkouts,
           NEW S \in SUBSET Seats, NEW t \in 0..MaxRevision, Holds!Handle(r, a, c, S, t)
    PROVE  /\ holdReq' \in [Requests -> Holds!Handlers]
           /\ holdReq[r].at = "idle" /\ ~Holds!Locked(c)
           /\ \A q \in Requests : q # r => holdReq'[q] = holdReq[q]
           /\ holdReq'[r].at = a /\ holdReq'[r].checkout = c /\ holdReq'[r].old = holdSelected[c]
           /\ holdReq'[r].new = S /\ holdReq'[r].target = t
<1>1. holdReq \in [Requests -> Holds!Handlers] /\ holdSelected[c] \in SUBSET Seats
  BY DEF Holds!TypeOK
<1> DEFINE h == [at |-> a, checkout |-> c, old |-> holdSelected[c], new |-> S, target |-> t]
<1>2. holdReq' = [holdReq EXCEPT ![r] = h]
  BY DEF Holds!Handle
<1>3. h \in Holds!Handlers
  BY <1>1 DEF Holds!Handlers, Places
<1>4. holdReq[r].at = "idle" /\ ~Holds!Locked(c)
  BY DEF Holds!Handle, Holds!Idle
<1>5. \A q \in Requests : holdReq'[q] = IF q = r THEN h ELSE holdReq[q]
  BY <1>1, <1>2
<1>6. QED
  BY <1>1, <1>2, <1>3, <1>4, <1>5

\* What the scripts leave, seat by seat.
LEMMA WithoutShape ==
    ASSUME Holds!ConstantsAssumption, hold \in [Seats -> Holds!Holds], NEW S
    PROVE  /\ Holds!Without(S) \in [Seats -> Holds!Holds]
           /\ \A s \in Seats : Holds!Without(S)[s] = IF s \in S THEN Holds!NoHold ELSE hold[s]
  BY DEF Holds!Without, Holds!NoHold, Holds!Holds, Holds!ConstantsAssumption

LEMMA PreparedShape ==
    ASSUME Holds!TypeOK, NEW r \in Requests, holdReq[r].checkout \in Checkouts
    PROVE  /\ Holds!Prepared(r) \in [Seats -> Holds!Holds]
           /\ \A s \in Seats :
                /\ s \in holdReq[r].new \ holdReq[r].old =>
                      /\ Holds!Prepared(r)[s].owner = holdReq[r].checkout
                      /\ Holds!Prepared(r)[s].revision = holdReq[r].target
                /\ s \in holdReq[r].new \cap holdReq[r].old /\ hold[s] = Holds!NoHold =>
                      /\ Holds!Prepared(r)[s].owner = holdReq[r].checkout
                      /\ Holds!Prepared(r)[s].revision = revision[holdReq[r].checkout]
                /\ s \notin holdReq[r].new \/ (s \in holdReq[r].old /\ hold[s] # Holds!NoHold) =>
                      Holds!Prepared(r)[s] = hold[s]
<1> DEFINE c == holdReq[r].checkout
           h1 == [owner |-> c, revision |-> holdReq[r].target]
           h2 == [owner |-> c, revision |-> revision[c]]
<1>1. /\ holdReq[r] \in Holds!Handlers /\ revision[c] \in 0..MaxRevision
      /\ hold \in [Seats -> Holds!Holds]
  BY DEF Holds!TypeOK
<1>2. h1 \in Holds!Holds /\ h2 \in Holds!Holds
  BY <1>1 DEF Holds!Holds, Holds!Handlers
<1>3. Holds!Prepared(r) = [s \in Seats |->
            IF s \in holdReq[r].new \ holdReq[r].old THEN h1
            ELSE IF s \in holdReq[r].new \cap holdReq[r].old /\ hold[s] = Holds!NoHold THEN h2 ELSE hold[s]]
  BY DEF Holds!Prepared, Holds!Free
<1> HIDE DEF h1, h2
<1>4. \A s \in Seats : Holds!Prepared(r)[s] =
            IF s \in holdReq[r].new \ holdReq[r].old THEN h1
            ELSE IF s \in holdReq[r].new \cap holdReq[r].old /\ hold[s] = Holds!NoHold THEN h2 ELSE hold[s]
  BY <1>3
<1>5. Holds!Prepared(r) \in [Seats -> Holds!Holds]
  BY <1>1, <1>2, <1>3
<1>6. h1.owner = c /\ h1.revision = holdReq[r].target /\ h2.owner = c /\ h2.revision = revision[c]
  BY DEF h1, h2
<1>7. QED
  BY <1>4, <1>5, <1>6

LEMMA EnsuredShape ==
    ASSUME Holds!TypeOK, NEW r \in Requests, holdReq[r].checkout \in Checkouts
    PROVE  /\ Holds!Ensured(r) \in [Seats -> Holds!Holds]
           /\ \A s \in Seats :
                /\ s \in holdSelected[holdReq[r].checkout] /\ hold[s] = Holds!NoHold =>
                      /\ Holds!Ensured(r)[s].owner = holdReq[r].checkout
                      /\ Holds!Ensured(r)[s].revision = revision[holdReq[r].checkout]
                /\ s \notin holdSelected[holdReq[r].checkout] \/ hold[s] # Holds!NoHold =>
                      Holds!Ensured(r)[s] = hold[s]
<1> DEFINE c == holdReq[r].checkout
           h2 == [owner |-> c, revision |-> revision[c]]
<1>1. revision[c] \in 0..MaxRevision /\ hold \in [Seats -> Holds!Holds]
  BY DEF Holds!TypeOK
<1>2. h2 \in Holds!Holds /\ h2.owner = c /\ h2.revision = revision[c]
  BY <1>1 DEF Holds!Holds
<1>3. Holds!Ensured(r) =
        [s \in Seats |-> IF s \in holdSelected[c] /\ hold[s] = Holds!NoHold THEN h2 ELSE hold[s]]
  BY DEF Holds!Ensured, Holds!Free
<1> HIDE DEF h2
<1>4. QED
  BY <1>1, <1>2, <1>3

-----------------------------------------------------------------------------
(* Types. *)

LEMMA InitType == Holds!ConstantsAssumption /\ Holds!Init => TypeInv
<1> SUFFICES ASSUME Holds!ConstantsAssumption, Holds!Init PROVE TypeInv
  OBVIOUS
<1>1. Holds!Idle \in Holds!Handlers /\ Holds!NoHold \in Holds!Holds
  BY DEF Holds!Idle, Holds!Handlers, Holds!NoHold, Holds!Holds, Holds!ConstantsAssumption
<1>2. Holds!TypeOK
  BY <1>1 DEF Holds!TypeOK, Holds!Init, Holds!ConstantsAssumption
<1>3. \A r \in Requests : holdReq[r].at = "idle"
  BY DEF Holds!Init, Holds!Idle
<1>4. QED
  BY <1>2, <1>3 DEF TypeInv

\* A handler goes on, and what it wrote keeps its type.
LEMMA GoKeepsType ==
    ASSUME TypeInv, NEW r \in Requests, NEW a \in Places, Holds!Go(r, a), holdReq[r].at # "idle",
           /\ holdStatus' \in [Checkouts -> {"NONE", "SELECTING", "SUBMITTING", "RESERVED", "ABANDONED"}]
           /\ revision' \in [Checkouts -> 0..MaxRevision]
           /\ holdSelected' \in [Checkouts -> SUBSET Seats]
           /\ hold' \in [Seats -> Holds!Holds]
           /\ failing' = failing
           /\ secured' \in [Checkouts -> SUBSET Seats]
    PROVE  TypeInv'
<1>1. Holds!TypeOK'
  BY HoldGoShape DEF TypeInv, Holds!TypeOK
<1>2. \A q \in Requests : holdReq'[q].at # "idle" => holdReq'[q].checkout \in Checkouts
  BY HoldGoShape DEF TypeInv
<1>3. QED
  BY <1>1, <1>2 DEF TypeInv

LEMMA CallKeepsType ==
    ASSUME Holds!ConstantsAssumption, TypeInv, NEW r \in Requests, Holds!Call(r), UNCHANGED failing
    PROVE  TypeInv'
<1> USE DEF TypeInv
<1>1. ASSUME NEW a \in Places, NEW c \in Checkouts, NEW S \in SUBSET Seats,
             NEW t \in 0..MaxRevision, Holds!Handle(r, a, c, S, t),
             holdStatus' \in [Checkouts -> {"NONE", "SELECTING", "SUBMITTING", "RESERVED", "ABANDONED"}],
             UNCHANGED <<revision, holdSelected, hold, secured>>
      PROVE  TypeInv'
  <2>1. Holds!TypeOK'
    BY <1>1, HoldHandleShape DEF Holds!TypeOK
  <2>2. \A q \in Requests : holdReq'[q].at # "idle" => holdReq'[q].checkout \in Checkouts
    BY <1>1, HoldHandleShape
  <2>3. QED
    BY <2>1, <2>2
<1>2. \A c \in Checkouts : revision[c] \in 0..MaxRevision /\ holdSelected[c] \in SUBSET Seats
  BY DEF Holds!TypeOK
<1>3. ASSUME NEW c \in Checkouts, NEW S \in SUBSET Seats, Holds!BeginCreate(r, c, S) PROVE TypeInv'
  <2>1. 0 \in 0..MaxRevision
    BY DEF Holds!ConstantsAssumption
  <2>2. QED
    BY <1>1, <1>3, <2>1 DEF Holds!BeginCreate, Places, Holds!LockedSteps, Holds!rowVars,
       Holds!TypeOK
<1>4. ASSUME NEW c \in Checkouts, NEW S \in SUBSET Seats, Holds!BeginReplace(r, c, S) PROVE TypeInv'
  <2>1. Holds!TargetRevision(c) \in 0..MaxRevision
    BY <1>2, <1>4 DEF Holds!TargetRevision, Holds!BeginReplace, Holds!ConstantsAssumption
  <2>2. QED
    BY <1>1, <1>4, <2>1 DEF Holds!BeginReplace, Places, Holds!LockedSteps, Holds!rowVars,
       Holds!TypeOK
<1>5. ASSUME NEW c \in Checkouts, Holds!Abandon(r, c) PROVE TypeInv'
  BY <1>1, <1>2, <1>5 DEF Holds!Abandon, Places, Holds!FreeSteps, Holds!TypeOK
<1>6. ASSUME NEW c \in Checkouts, Holds!BeginConfirm(r, c) PROVE TypeInv'
  BY <1>1, <1>2, <1>6 DEF Holds!BeginConfirm, Places, Holds!LockedSteps, Holds!rowVars, Holds!TypeOK
<1>7. QED
  BY <1>3, <1>4, <1>5, <1>6 DEF Holds!Call

LEMMA HandlerKeepsType ==
    ASSUME Holds!ConstantsAssumption, TypeInv, NEW r \in Requests, Holds!Handler(r) \/ Holds!Die(r),
           UNCHANGED failing
    PROVE  TypeInv'
<1> DEFINE c == holdReq[r].checkout
<1>1. /\ holdReq[r].at # "idle" /\ c \in Checkouts /\ holdReq[r].new \in SUBSET Seats
      /\ holdReq[r].target \in 0..MaxRevision
  <2>1. holdReq[r].at # "idle"
    BY DEF Holds!Handler, Holds!Die, Holds!Prepare, Holds!Write, Holds!WriteFails,
       Holds!CommitFails, Holds!Abort, Holds!Finalize, Holds!Ensure, Holds!Freeze,
       Holds!Reserved, Holds!BeginReset, Holds!ResetRelease, Holds!ResetWrite, Holds!Release,
       Holds!LockedSteps, Holds!FreeSteps
  <2>2. holdReq[r] \in Holds!Handlers
    BY DEF TypeInv, Holds!TypeOK
  <2>3. QED
    BY <2>1, <2>2 DEF TypeInv, Holds!Handlers
<1>2. \A S : Holds!Secure(c, S) => secured' \in [Checkouts -> SUBSET Seats]
  BY <1>1 DEF Holds!Secure, TypeInv, Holds!TypeOK
<1>3. \A S : Holds!CleanUp(S) => hold' \in [Seats -> Holds!Holds]
  BY WithoutShape DEF Holds!CleanUp, TypeInv, Holds!TypeOK
<1>4. Holds!Prepared(r) \in [Seats -> Holds!Holds] /\ Holds!Ensured(r) \in [Seats -> Holds!Holds]
  BY <1>1, PreparedShape, EnsuredShape DEF TypeInv
<1>5. ASSUME NEW h \in [Seats -> Holds!Holds], NEW a \in Places, NEW b \in Places,
             Holds!Answer(r, h, a, b),
             UNCHANGED Holds!rowVars
      PROVE  TypeInv'
  <2>1. \/ secured' = [secured EXCEPT ![c] = @ \cup holdReq[r].new]
        \/ secured' = secured
    BY <1>5 DEF Holds!Answer
  <2>2. secured' \in [Checkouts -> SUBSET Seats]
    BY <1>1, <2>1 DEF TypeInv, Holds!TypeOK
  <2>3. hold' \in [Seats -> Holds!Holds]
    BY <1>5 DEF Holds!Answer, TypeInv, Holds!TypeOK
  <2>4. Holds!Go(r, a) \/ Holds!Go(r, b)
    BY <1>5 DEF Holds!Answer
  <2>5. QED
    BY <1>1, <1>5, <2>2, <2>3, <2>4, GoKeepsType DEF TypeInv, Holds!TypeOK, Holds!rowVars
<1>6. CASE Holds!Prepare(r) \/ Holds!Ensure(r)
  BY <1>4, <1>5, <1>6 DEF Holds!Prepare, Holds!Ensure, Places, Holds!LockedSteps
<1>7. Holds!WriteRow(r) => /\ holdStatus' \in [Checkouts -> {"NONE", "SELECTING", "SUBMITTING", "RESERVED", "ABANDONED"}]
                           /\ revision' \in [Checkouts -> 0..MaxRevision]
                           /\ holdSelected' \in [Checkouts -> SUBSET Seats]
  BY <1>1 DEF Holds!WriteRow, TypeInv, Holds!TypeOK
<1>8. CASE Holds!Write(r) \/ Holds!WriteFails(r) \/ Holds!CommitFails(r)
  <2>1. secured' \in [Checkouts -> SUBSET Seats]
    BY <1>2, <1>8 DEF Holds!Write, Holds!WriteFails, Holds!CommitFails
  <2>2. Holds!WriteRow(r) \/ UNCHANGED Holds!rowVars
    BY <1>8 DEF Holds!Write, Holds!WriteFails, Holds!CommitFails
  <2>3. hold' = hold /\ \E a \in {"finalize", "abort", "abortLate"} : Holds!Go(r, a)
    BY <1>8 DEF Holds!Write, Holds!WriteFails, Holds!CommitFails
  <2>4. QED
    BY <1>1, <1>7, <2>1, <2>2, <2>3, GoKeepsType
    DEF Places, Holds!LockedSteps, Holds!FreeSteps, TypeInv, Holds!TypeOK, Holds!rowVars
<1>9. CASE Holds!Abort(r) \/ Holds!Finalize(r) \/ Holds!ResetRelease(r) \/ Holds!Release(r)
  <2>1. hold' \in [Seats -> Holds!Holds]
    BY <1>3, <1>9 DEF Holds!Abort, Holds!Finalize, Holds!ResetRelease, Holds!Release
  <2>2. secured' \in [Checkouts -> SUBSET Seats]
    BY <1>2, <1>9 DEF Holds!Abort, Holds!Finalize, Holds!ResetRelease, Holds!Release, TypeInv,
       Holds!TypeOK
  <2>3. UNCHANGED Holds!rowVars /\ \E a \in {"done", "resetWrite"} : Holds!Go(r, a)
    BY <1>9 DEF Holds!Abort, Holds!Finalize, Holds!ResetRelease, Holds!Release
  <2>4. QED
    BY <1>1, <2>1, <2>2, <2>3, GoKeepsType
    DEF Places, Holds!LockedSteps, TypeInv, Holds!TypeOK, Holds!rowVars
<1>10. CASE Holds!Freeze(r) \/ Holds!Reserved(r) \/ Holds!BeginReset(r) \/ Holds!ResetWrite(r)
  <2>1. UNCHANGED <<revision, holdSelected, hold, secured>>
    BY <1>10 DEF Holds!Freeze, Holds!Reserved, Holds!BeginReset, Holds!ResetWrite, Holds!rowVars
  <2>2. holdStatus' \in [Checkouts -> {"NONE", "SELECTING", "SUBMITTING", "RESERVED", "ABANDONED"}]
    BY <1>1, <1>10 DEF Holds!Freeze, Holds!Reserved, Holds!BeginReset, Holds!ResetWrite,
       Holds!rowVars, TypeInv, Holds!TypeOK
  <2>3. \E a \in {"formal", "release", "resetRelease", "done"} : Holds!Go(r, a)
    BY <1>10 DEF Holds!Freeze, Holds!Reserved, Holds!BeginReset, Holds!ResetWrite
  <2>4. QED
    BY <1>1, <2>1, <2>2, <2>3, GoKeepsType DEF Places, Holds!LockedSteps, Holds!FreeSteps,
       TypeInv, Holds!TypeOK
<1>11. CASE Holds!Die(r)
  <2>1. secured' \in [Checkouts -> SUBSET Seats] /\ UNCHANGED <<Holds!rowVars, hold>> /\ Holds!Go(r, "dead")
    BY <1>2, <1>11 DEF Holds!Die
  <2>2. QED
    BY <1>1, <2>1, GoKeepsType DEF Places, TypeInv, Holds!TypeOK, Holds!rowVars
<1>12. QED
  BY <1>6, <1>8, <1>9, <1>10, <1>11 DEF Holds!Handler

LEMMA ExpiryShape ==
    ASSUME Holds!ConstantsAssumption, TypeInv, NEW s \in Seats, Holds!HoldExpires(s), UNCHANGED failing
    PROVE  /\ TypeInv'
           /\ UNCHANGED <<holdStatus, revision, holdSelected, holdReq>>
           /\ \A t \in Seats : hold'[t] = IF t = s THEN Holds!NoHold ELSE hold[t]
           /\ \A c \in Checkouts : secured'[c] = secured[c] \ {s}
<1>1. hold' \in [Seats -> Holds!Holds] /\ \A t \in Seats : hold'[t] = IF t = s THEN Holds!NoHold ELSE hold[t]
  BY WithoutShape DEF Holds!HoldExpires, TypeInv, Holds!TypeOK
<1>2. /\ secured' = [c \in Checkouts |-> secured[c] \ {s}]
      /\ UNCHANGED <<holdStatus, revision, holdSelected, holdReq>>
  BY DEF Holds!HoldExpires, Holds!rowVars
<1>3. TypeInv'
  BY <1>1, <1>2 DEF TypeInv, Holds!TypeOK
<1>4. QED
  BY <1>1, <1>2, <1>3

-----------------------------------------------------------------------------
(* While the services answer. *)

LEMMA InitCalm == Holds!ConstantsAssumption /\ Holds!Init => Calm
<1> SUFFICES ASSUME Holds!ConstantsAssumption, Holds!Init PROVE Calm
  OBVIOUS
<1>1. /\ \A r \in Requests : holdReq[r].at = "idle"
      /\ \A c \in Checkouts : /\ holdStatus[c] = "NONE" /\ revision[c] = 0
                              /\ holdSelected[c] = {} /\ secured[c] = {}
      /\ \A s \in Seats : hold[s].owner \notin Checkouts
  BY DEF Holds!Init, Holds!Idle, Holds!NoHold, Holds!ConstantsAssumption
<1>2. HandlersKnowTheirRow /\ NothingBeforeCreation /\ OneAtATime
  BY <1>1 DEF HandlersKnowTheirRow, NothingBeforeCreation, OneAtATime, Working, Holds!LockedSteps
<1>3. SecuredAreWanted /\ SecuredAreHeld /\ RevisionsTell /\ CleanUpsAreOld
  BY <1>1 DEF SecuredAreWanted, SecuredAreHeld, RevisionsTell, CleanUpsAreOld
<1>4. NothingLeaks
  BY <1>1 DEF NothingLeaks
<1>5. QED
  BY <1>2, <1>3, <1>4 DEF Calm

LEMMA ExpiryKeepsCalm ==
    ASSUME Holds!ConstantsAssumption, TypeInv, Calm, NEW s \in Seats, Holds!HoldExpires(s), UNCHANGED failing
    PROVE  Calm'
<1> USE DEF Calm
<1>1. /\ UNCHANGED <<holdStatus, revision, holdSelected, holdReq>>
      /\ \A t \in Seats : hold'[t] = IF t = s THEN Holds!NoHold ELSE hold[t]
      /\ \A c \in Checkouts : secured'[c] = secured[c] \ {s}
  BY ExpiryShape
<1>2. Holds!NoHold.owner \notin Checkouts
  BY DEF Holds!NoHold, Holds!ConstantsAssumption
<1>3. /\ \A c \in Checkouts : secured[c] \subseteq Seats /\ holdSelected[c] \subseteq Seats
      /\ \A r \in Requests : holdReq[r].old \subseteq Seats /\ holdReq[r].new \subseteq Seats
      /\ \A r \in Requests : holdReq[r].at # "idle" => holdReq[r].checkout \in Checkouts
  BY DEF TypeInv, Holds!TypeOK, Holds!Handlers
<1>4. HandlersKnowTheirRow' /\ NothingBeforeCreation' /\ OneAtATime'
  BY <1>1 DEF HandlersKnowTheirRow, NothingBeforeCreation, OneAtATime, Working
<1>5. SecuredAreWanted'
  BY <1>1 DEF SecuredAreWanted, Wanted
<1>6. SecuredAreHeld'
  BY <1>1, <1>3 DEF SecuredAreHeld
<1>7. RevisionsTell'
  BY <1>1, <1>2, <1>3 DEF RevisionsTell
<1>8. CleanUpsAreOld'
  BY <1>1, <1>2, <1>3 DEF CleanUpsAreOld, Wanted
<1>9. NothingLeaks'
  BY <1>1, <1>2 DEF NothingLeaks, Covers, Holds!Open
<1>10. QED
  BY <1>4, <1>5, <1>6, <1>7, <1>8, <1>9

\* A handler goes on, and perhaps the row with it, but no hold changes.
LEMMA MoveKeepsCalm ==
    ASSUME Holds!ConstantsAssumption, TypeInv, Calm, NEW r \in Requests, NEW a \in Places, NEW st,
           holdReq[r].at # "idle", Holds!Go(r, a),
           holdStatus' = [holdStatus EXCEPT ![holdReq[r].checkout] = st],
           UNCHANGED <<revision, holdSelected, hold>>,
           \A d \in Checkouts : secured'[d] \subseteq secured[d],
           \/ /\ st = holdStatus[holdReq[r].checkout]
              /\ \/ holdReq[r].at = "prepare" /\ a = "abort"
                 \/ /\ holdReq[r].at = "write" /\ a = "abort"
                    /\ secured'[holdReq[r].checkout] \subseteq holdReq[r].old
                 \/ holdReq[r].at = "ensure" /\ a = "done"
                 \/ holdReq[r].at = "formal" /\ a = "resetRelease"
                 \/ a = "dead" /\ secured'[holdReq[r].checkout] \subseteq holdSelected[holdReq[r].checkout]
           \/ holdReq[r].at = "freeze" /\ a = "formal" /\ st = "SUBMITTING"
           \/ holdReq[r].at = "formal" /\ a = "release" /\ st = "RESERVED"
           \/ holdReq[r].at = "resetWrite" /\ a = "done" /\ st = "SELECTING"
    PROVE  Calm'
<1> USE DEF Calm
<1> DEFINE c == holdReq[r].checkout
<1>1. /\ \A q \in Requests :
           /\ holdReq'[q].checkout = holdReq[q].checkout /\ holdReq'[q].old = holdReq[q].old
           /\ holdReq'[q].new = holdReq[q].new /\ holdReq'[q].target = holdReq[q].target
           /\ q # r => holdReq'[q].at = holdReq[q].at
      /\ holdReq'[r].at = a
  BY HoldGoShape DEF TypeInv
<1>2. c \in Checkouts /\ \A q \in Requests : holdReq[q].at # "idle" => holdReq[q].checkout \in Checkouts
  BY DEF TypeInv
<1>3. holdStatus'[c] = st /\ \A d \in Checkouts : d # c => holdStatus'[d] = holdStatus[d]
  BY <1>2 DEF TypeInv, Holds!TypeOK
<1>4. OneAtATime'
  BY <1>1 DEF OneAtATime, Working, Holds!LockedSteps
<1>5. HandlersKnowTheirRow'
  <2> SUFFICES ASSUME NEW q \in Requests
               PROVE  /\ holdReq'[q].at # "abortLate"
                      /\ Working(q)' => holdReq'[q].old = holdSelected'[holdReq'[q].checkout]
                      /\ holdReq'[q].at \in {"prepare", "write", "abort"} =>
                            \/ holdStatus'[holdReq'[q].checkout] = "NONE" /\ holdReq'[q].target = 0
                            \/ /\ holdStatus'[holdReq'[q].checkout] = "SELECTING"
                               /\ holdReq'[q].target = revision'[holdReq'[q].checkout] + 1
                      /\ holdReq'[q].at \in {"ensure", "freeze"} =>
                            /\ holdStatus'[holdReq'[q].checkout] = "SELECTING"
                            /\ holdReq'[q].new = holdSelected'[holdReq'[q].checkout]
                      /\ holdReq'[q].at \in {"formal", "resetRelease", "resetWrite"} =>
                            holdStatus'[holdReq'[q].checkout] = "SUBMITTING"
                      /\ holdReq'[q].at = "finalize" =>
                            /\ holdStatus'[holdReq'[q].checkout] # "NONE"
                            /\ holdReq'[q].target <= revision'[holdReq'[q].checkout]
                            /\ holdReq'[q].target = revision'[holdReq'[q].checkout] =>
                                  holdSelected'[holdReq'[q].checkout] = holdReq'[q].new
                      /\ holdReq'[q].at = "release" =>
                            holdStatus'[holdReq'[q].checkout] \in {"ABANDONED", "RESERVED"}
    BY DEF HandlersKnowTheirRow
  <2>1. CASE q = r
    BY <1>1, <1>2, <1>3, <2>1 DEF HandlersKnowTheirRow, Working, Holds!LockedSteps
  <2>2. CASE q # r
    BY <1>1, <1>2, <1>3, <2>2 DEF HandlersKnowTheirRow, OneAtATime, Working, Holds!LockedSteps
  <2>3. QED
    BY <2>1, <2>2
<1>6. NothingBeforeCreation'
  BY <1>2, <1>3 DEF NothingBeforeCreation
<1>7. \A d \in Checkouts : \A s \in Seats : Wanted(d, s)' => Wanted(d, s)
  BY <1>1 DEF Wanted
<1>8. SecuredAreWanted'
  BY <1>1, <1>2 DEF SecuredAreWanted, Wanted, HandlersKnowTheirRow, Working, Holds!LockedSteps
<1>9. SecuredAreHeld'
  BY <1>2, <1>3 DEF SecuredAreHeld, HandlersKnowTheirRow
<1>10. RevisionsTell'
  BY <1>1 DEF RevisionsTell
<1>11. CleanUpsAreOld'
  BY <1>1, <1>2, <1>7 DEF CleanUpsAreOld, TypeInv, Holds!TypeOK, Holds!Handlers
<1>12. NothingLeaks'
  <2> SUFFICES ASSUME NEW s \in Seats, NEW d \in Checkouts, hold[s].owner = d
               PROVE  (Holds!Open(d)' /\ s \in holdSelected[d]) \/ \E q \in Requests : Covers(q, s)'
    BY DEF NothingLeaks
  <2>1. CASE Holds!Open(d) /\ s \in holdSelected[d]
    BY <1>1, <1>2, <1>3, <2>1 DEF Holds!Open, Covers, HandlersKnowTheirRow, Working,
       Holds!LockedSteps
  <2>2. ASSUME NEW q \in Requests, Covers(q, s) PROVE Covers(q, s)'
    BY <1>1, <2>2 DEF Covers
  <2>3. QED
    BY <2>1, <2>2 DEF NothingLeaks
<1>13. QED
  BY <1>4, <1>5, <1>6, <1>8, <1>9, <1>10, <1>11, <1>12

\* A clean-up: what it deletes is not wanted, and what it was to delete is deleted.
LEMMA CleanUpKeepsCalm ==
    ASSUME Holds!ConstantsAssumption, TypeInv, Calm, NEW r \in Requests, NEW S \in SUBSET Seats,
           \A s \in S : hold[s].owner = holdReq[r].checkout,
           hold' = Holds!Without(S), UNCHANGED <<holdStatus, revision, holdSelected>>,
           \A d \in Checkouts : secured'[d] \subseteq secured[d],
           \/ /\ holdReq[r].at = "abort" /\ Holds!Go(r, "done")
              /\ S = Holds!Aborts(r)
           \/ /\ holdReq[r].at = "finalize" /\ Holds!Go(r, "done")
              /\ S = Holds!Finalizes(r)
           \/ /\ holdReq[r].at = "release" /\ Holds!Go(r, "done")
              /\ S = Holds!Own(holdReq[r].checkout, holdReq[r].old)
           \/ /\ holdReq[r].at = "resetRelease" /\ Holds!Go(r, "resetWrite")
              /\ S = Holds!Own(holdReq[r].checkout, holdReq[r].old)
              /\ secured'[holdReq[r].checkout] = {}
    PROVE  Calm'
<1> USE DEF Calm
<1> DEFINE c == holdReq[r].checkout
<1>1. /\ \A q \in Requests :
           /\ holdReq'[q].checkout = holdReq[q].checkout /\ holdReq'[q].old = holdReq[q].old
           /\ holdReq'[q].new = holdReq[q].new /\ holdReq'[q].target = holdReq[q].target
           /\ q # r => holdReq'[q].at = holdReq[q].at
      /\ holdReq'[r].at = IF holdReq[r].at = "resetRelease" THEN "resetWrite" ELSE "done"
  BY HoldGoShape DEF TypeInv, Places, Holds!LockedSteps
<1>2. /\ c \in Checkouts
      /\ \A q \in Requests : holdReq[q].at # "idle" => holdReq[q].checkout \in Checkouts
      /\ \A q \in Requests : holdReq[q].old \subseteq Seats /\ holdReq[q].new \subseteq Seats
      /\ \A d \in Checkouts : secured[d] \subseteq Seats /\ holdSelected[d] \subseteq Seats
  BY DEF TypeInv, Holds!TypeOK, Holds!Handlers
<1>3. /\ \A s \in Seats : hold'[s] = IF s \in S THEN Holds!NoHold ELSE hold[s]
      /\ Holds!NoHold.owner \notin Checkouts
  BY WithoutShape DEF TypeInv, Holds!TypeOK, Holds!NoHold, Holds!ConstantsAssumption
<1>4. OneAtATime'
  BY <1>1 DEF OneAtATime, Working, Holds!LockedSteps
<1>5. HandlersKnowTheirRow'
  BY <1>1 DEF HandlersKnowTheirRow, Working, Holds!LockedSteps
<1>6. NothingBeforeCreation'
  BY DEF NothingBeforeCreation
<1>7. \A d \in Checkouts : \A s \in Seats : Wanted(d, s)' <=> Wanted(d, s)
  BY <1>1 DEF Wanted
<1>8. SecuredAreWanted'
  BY <1>2, <1>7 DEF SecuredAreWanted
<1>9. ASSUME NEW s \in S, holdStatus[c] \notin {"ABANDONED", "RESERVED"} PROVE s \notin secured'[c]
  <2>1. CASE holdReq[r].at = "abort"
    <3>1. s \in holdReq[r].new \ holdReq[r].old
      BY <2>1 DEF Holds!Aborts
    <3>2. ~Wanted(c, s)
      BY <2>1, <3>1 DEF Wanted, HandlersKnowTheirRow, OneAtATime, Working, Holds!LockedSteps
    <3>3. QED
      BY <1>2, <3>2 DEF SecuredAreWanted
  <2>2. CASE holdReq[r].at = "finalize"
    <3>1. s \in holdReq[r].old \ holdReq[r].new /\ hold[s].revision <= holdReq[r].target /\ hold[s].owner = c
      BY <2>2 DEF Holds!Finalizes, Holds!Own
    <3>2. hold[s].revision \in Nat /\ holdReq[r].target \in Nat
      BY DEF TypeInv, Holds!TypeOK, Holds!Holds, Holds!Handlers
    <3>3. ~Wanted(c, s)
      BY <2>2, <3>1, <3>2 DEF CleanUpsAreOld
    <3>4. QED
      BY <1>2, <3>3 DEF SecuredAreWanted
  <2>3. CASE holdReq[r].at = "release"
    BY <1>9, <2>3 DEF HandlersKnowTheirRow
  <2>4. CASE holdReq[r].at = "resetRelease"
    BY <2>4
  <2>5. QED
    BY <2>1, <2>2, <2>3, <2>4
<1>10. SecuredAreHeld'
  BY <1>2, <1>3, <1>9 DEF SecuredAreHeld
<1>11. RevisionsTell'
  BY <1>1, <1>2, <1>3 DEF RevisionsTell
<1>12. CleanUpsAreOld'
  BY <1>1, <1>2, <1>3, <1>7 DEF CleanUpsAreOld
<1>13. NothingLeaks'
  <2> SUFFICES ASSUME NEW s \in Seats, NEW d \in Checkouts, s \notin S, hold[s].owner = d,
                      ~(Holds!Open(d) /\ s \in holdSelected[d])
               PROVE  \E q \in Requests : Covers(q, s)'
    BY <1>3 DEF NothingLeaks, Holds!Open
  <2>1. PICK q \in Requests : Covers(q, s)
    BY DEF NothingLeaks
  <2>2. hold'[s] = hold[s]
    BY <1>3
  <2>3. q # r
    <3> SUFFICES ASSUME Covers(r, s) PROVE FALSE
      BY <2>1
    <3>1. hold[s] \in Holds!Holds
      BY DEF TypeInv, Holds!TypeOK
    <3>2. CASE holdReq[r].at = "abort"
      <4>1. /\ s \in holdReq[r].new \ holdReq[r].old /\ hold[s].owner = c
            /\ hold[s].revision = holdReq[r].target
        BY <3>2 DEF Covers
      <4>2. hold[s] = [owner |-> c, revision |-> holdReq[r].target]
        BY <3>1, <4>1 DEF Holds!Holds
      <4>3. QED
        BY <3>2, <4>1, <4>2 DEF Holds!Aborts
    <3>3. CASE holdReq[r].at # "abort"
      BY <3>3 DEF Covers, Holds!Finalizes, Holds!Own
    <3>4. QED
      BY <3>2, <3>3
  <2>4. Covers(q, s)'
    BY <1>1, <2>1, <2>2, <2>3 DEF Covers
  <2>5. QED
    BY <2>4
<1>14. QED
  BY <1>4, <1>5, <1>6, <1>8, <1>10, <1>11, <1>12, <1>13

\* Prepare and ensure, applied: the handler has all the seats it asked for.
LEMMA TakeKeepsCalm ==
    ASSUME Holds!ConstantsAssumption, TypeInv, Calm, NEW r \in Requests,
           Holds!Available(holdReq[r].checkout, holdReq[r].new),
           secured' = [secured EXCEPT ![holdReq[r].checkout] = @ \cup holdReq[r].new],
           UNCHANGED <<holdStatus, revision, holdSelected>>,
           \/ holdReq[r].at = "prepare" /\ Holds!Go(r, "write") /\ hold' = Holds!Prepared(r)
           \/ holdReq[r].at = "ensure" /\ Holds!Go(r, "freeze") /\ hold' = Holds!Ensured(r)
    PROVE  Calm'
<1> USE DEF Calm
<1> DEFINE c == holdReq[r].checkout
<1>1. /\ \A q \in Requests :
           /\ holdReq'[q].checkout = holdReq[q].checkout /\ holdReq'[q].old = holdReq[q].old
           /\ holdReq'[q].new = holdReq[q].new /\ holdReq'[q].target = holdReq[q].target
           /\ q # r => holdReq'[q].at = holdReq[q].at
      /\ holdReq'[r].at = IF holdReq[r].at = "prepare" THEN "write" ELSE "freeze"
  BY HoldGoShape DEF TypeInv, Places, Holds!LockedSteps
<1>2. /\ c \in Checkouts
      /\ \A q \in Requests : holdReq[q].at # "idle" => holdReq[q].checkout \in Checkouts
      /\ \A q \in Requests : /\ holdReq[q].old \subseteq Seats /\ holdReq[q].new \subseteq Seats
                              /\ holdReq[q].target \in Nat
      /\ \A d \in Checkouts : /\ secured[d] \subseteq Seats /\ holdSelected[d] \subseteq Seats
                               /\ revision[d] \in Nat
      /\ \A s \in Seats : hold[s].revision \in Nat
  BY DEF TypeInv, Holds!TypeOK, Holds!Handlers, Holds!Holds
<1>3. Holds!NoHold.owner \notin Checkouts
  BY DEF Holds!NoHold, Holds!ConstantsAssumption
<1>4. /\ holdReq[r].old = holdSelected[c]
      /\ holdReq[r].at = "ensure" => holdReq[r].new = holdSelected[c] /\ holdStatus[c] = "SELECTING"
      /\ holdReq[r].at = "prepare" =>
            \/ holdStatus[c] = "NONE" /\ holdReq[r].target = 0 /\ holdSelected[c] = {}
            \/ holdStatus[c] = "SELECTING" /\ holdReq[r].target = revision[c] + 1
  BY <1>2 DEF HandlersKnowTheirRow, Working, Holds!LockedSteps, NothingBeforeCreation
\* The holds of other checkouts are as they were, and so are those not asked for.
<1>5. /\ \A s \in Seats : s \notin holdReq[r].new => hold'[s] = hold[s]
      /\ \A s \in holdReq[r].new : /\ hold'[s].owner = c
                                   /\ hold[s].owner = c \/ hold[s] = Holds!NoHold
  <2>1. \A s \in holdReq[r].new : hold[s].owner = c \/ hold[s] = Holds!NoHold
    BY DEF Holds!Available, Holds!Own, Holds!Free
  <2>2. CASE holdReq[r].at = "prepare"
    <3>1. hold' = Holds!Prepared(r)
      BY <2>2
    <3>2. \A s \in Seats :
             /\ s \notin holdReq[r].new => hold'[s] = hold[s]
             /\ s \in holdReq[r].new => hold'[s].owner = c \/ (hold'[s] = hold[s] /\ hold[s] # Holds!NoHold)
      <4> TAKE s \in Seats
      <4>1. s \notin holdReq[r].new \/ (s \in holdReq[r].old /\ hold[s] # Holds!NoHold) => hold'[s] = hold[s]
        BY <1>2, <3>1, PreparedShape DEF TypeInv
      <4>2. s \in holdReq[r].new \ holdReq[r].old
            \/ (s \in holdReq[r].new \cap holdReq[r].old /\ hold[s] = Holds!NoHold)
               => hold'[s].owner = c
        BY <1>2, <3>1, PreparedShape DEF TypeInv
      <4>3. QED
        BY <4>1, <4>2
    <3>3. QED
      BY <1>2, <2>1, <3>2
  <2>3. CASE holdReq[r].at = "ensure"
    <3>1. hold' = Holds!Ensured(r) /\ holdReq[r].new = holdSelected[c]
      BY <1>4, <2>3
    <3>2. \A s \in Seats :
             /\ s \notin holdReq[r].new => hold'[s] = hold[s]
             /\ s \in holdReq[r].new => hold'[s].owner = c \/ (hold'[s] = hold[s] /\ hold[s] # Holds!NoHold)
      BY <1>2, <3>1, EnsuredShape DEF TypeInv
    <3>3. QED
      BY <1>2, <2>1, <3>2
  <2>4. QED
    BY <2>2, <2>3
<1>6. \A s \in holdReq[r].new :
         \/ hold'[s] = hold[s] /\ s \in holdSelected[c]
         \/ s \in holdSelected[c] /\ hold'[s].revision = revision[c]
         \/ holdReq[r].at = "prepare" /\ s \notin holdSelected[c] /\ hold'[s].revision = holdReq[r].target
  BY <1>2, <1>4, PreparedShape, EnsuredShape DEF TypeInv
<1>7. OneAtATime'
  BY <1>1 DEF OneAtATime, Working, Holds!LockedSteps
<1>8. HandlersKnowTheirRow'
  BY <1>1 DEF HandlersKnowTheirRow, Working, Holds!LockedSteps
<1>9. NothingBeforeCreation'
  BY DEF NothingBeforeCreation
<1>10. \A d \in Checkouts : \A s \in Seats :
          Wanted(d, s)' <=> Wanted(d, s) \/ (d = c /\ s \in holdReq[r].new)
  BY <1>1, <1>4 DEF Wanted
<1>11. \A d \in Checkouts : \A s \in Seats :
          s \in secured'[d] <=> s \in secured[d] \/ (d = c /\ s \in holdReq[r].new)
  BY <1>2 DEF TypeInv, Holds!TypeOK
<1>12. \A d \in Checkouts : secured'[d] \subseteq Seats
  BY <1>2 DEF TypeInv, Holds!TypeOK
<1>13. SecuredAreWanted'
  BY <1>2, <1>10, <1>11, <1>12 DEF SecuredAreWanted
<1>14. SecuredAreHeld'
  BY <1>2, <1>3, <1>5, <1>11, <1>12 DEF SecuredAreHeld
<1>15. RevisionsTell'
  <2>1. ASSUME NEW q \in Requests, holdReq'[q].at = "write", NEW s \in holdReq[q].new \ holdReq[q].old,
               hold'[s].owner = holdReq[q].checkout
        PROVE  hold'[s].revision = holdReq[q].target
    <3>1. CASE q = r
      BY <1>1, <1>4, <1>6, <2>1, <3>1
    <3>2. CASE q # r
      <4>1. holdReq[q].at = "write" /\ holdReq[q].checkout # c
        BY <1>1, <2>1, <3>2 DEF OneAtATime, Working, Holds!LockedSteps
      <4>2. s \notin holdReq[r].new
        BY <1>5, <2>1, <4>1
      <4>3. QED
        BY <1>2, <1>5, <2>1, <4>1, <4>2 DEF RevisionsTell
    <3>3. QED
      BY <3>1, <3>2
  <2>2. ASSUME NEW d \in Checkouts, NEW s \in holdSelected[d], hold'[s].owner = d
        PROVE  hold'[s].revision <= revision[d]
    <3>1. CASE s \in holdReq[r].new
      BY <1>2, <1>5, <1>6, <2>2, <3>1 DEF RevisionsTell
    <3>2. CASE s \notin holdReq[r].new
      BY <1>2, <1>5, <2>2, <3>2 DEF RevisionsTell
    <3>3. QED
      BY <3>1, <3>2
  <2>3. QED
    BY <1>1, <2>1, <2>2 DEF RevisionsTell
<1>16. CleanUpsAreOld'
  <2> SUFFICES ASSUME NEW q \in Requests, holdReq[q].at = "finalize",
                      NEW s \in holdReq[q].old \ holdReq[q].new,
                      Wanted(holdReq[q].checkout, s)', hold'[s].owner = holdReq[q].checkout
               PROVE  hold'[s].revision > holdReq[q].target
    BY <1>1 DEF CleanUpsAreOld
  <2>1. CASE s \notin holdReq[r].new
    <3>1. holdReq[q].checkout \in Checkouts /\ s \in Seats /\ hold'[s] = hold[s]
      BY <1>2, <1>5, <2>1
    <3>2. Wanted(holdReq[q].checkout, s)
      BY <1>1, <1>10, <2>1, <3>1
    <3>3. QED
      BY <3>1, <3>2 DEF CleanUpsAreOld
  <2>2. CASE s \in holdReq[r].new
    <3>1. holdReq[q].checkout = c
      BY <1>5, <2>2
    <3>2. /\ holdReq[q].target <= revision[c] /\ holdStatus[c] # "NONE"
          /\ holdReq[q].target = revision[c] => holdSelected[c] = holdReq[q].new
      BY <3>1 DEF HandlersKnowTheirRow
    <3>3. CASE s \in holdSelected[c]
      <4>1. revision[c] > holdReq[q].target
        BY <1>2, <3>2, <3>3
      <4>2. CASE hold'[s] = hold[s]
        BY <1>2, <3>1, <3>3, <4>2 DEF CleanUpsAreOld, Wanted
      <4>3. QED
        BY <1>6, <2>2, <3>3, <4>1, <4>2
    <3>4. CASE s \notin holdSelected[c]
      BY <1>2, <1>4, <1>6, <2>2, <3>2, <3>4
    <3>5. QED
      BY <3>3, <3>4
  <2>3. QED
    BY <2>1, <2>2
<1>17. NothingLeaks'
  <2> SUFFICES ASSUME NEW s \in Seats, NEW d \in Checkouts, hold'[s].owner = d
               PROVE  (Holds!Open(d) /\ s \in holdSelected[d]) \/ \E q \in Requests : Covers(q, s)'
    BY DEF NothingLeaks, Holds!Open
  <2>1. CASE hold'[s] = hold[s]
    BY <1>1, <2>1 DEF NothingLeaks, Covers
  <2>2. CASE hold'[s] # hold[s]
    <3>1. s \in holdReq[r].new /\ d = c
      BY <1>5, <2>2
    <3>2. CASE s \in holdSelected[c]
      BY <1>4, <3>1, <3>2 DEF Holds!Open
    <3>3. CASE s \notin holdSelected[c]
      <4>1. Covers(r, s)'
        BY <1>1, <1>4, <1>6, <3>1, <3>3 DEF Covers
      <4>2. QED
        BY <4>1
    <3>4. QED
      BY <3>2, <3>3
  <2>3. QED
    BY <2>1, <2>2
<1>18. QED
  BY <1>7, <1>8, <1>9, <1>13, <1>14, <1>15, <1>16, <1>17

LEMMA WriteKeepsCalm ==
    ASSUME Holds!ConstantsAssumption, TypeInv, Calm, NEW r \in Requests, Holds!Write(r)
    PROVE  Calm'
<1> USE DEF Calm
<1> DEFINE c == holdReq[r].checkout
<1>1. /\ \A q \in Requests :
           /\ holdReq'[q].checkout = holdReq[q].checkout /\ holdReq'[q].old = holdReq[q].old
           /\ holdReq'[q].new = holdReq[q].new /\ holdReq'[q].target = holdReq[q].target
           /\ q # r => holdReq'[q].at = holdReq[q].at
      /\ holdReq'[r].at = "finalize" /\ holdReq[r].at = "write" /\ hold' = hold
  BY HoldGoShape DEF TypeInv, Places, Holds!FreeSteps, Holds!Write
<1>2. /\ c \in Checkouts
      /\ \A q \in Requests : holdReq[q].at # "idle" => holdReq[q].checkout \in Checkouts
      /\ \A q \in Requests : /\ holdReq[q].old \subseteq Seats /\ holdReq[q].new \subseteq Seats
                              /\ holdReq[q].target \in Nat
      /\ \A d \in Checkouts : /\ secured[d] \subseteq Seats /\ holdSelected[d] \subseteq Seats
                               /\ revision[d] \in Nat
      /\ \A s \in Seats : hold[s].revision \in Nat
  BY <1>1 DEF TypeInv, Holds!TypeOK, Holds!Handlers, Holds!Holds
<1>3. /\ holdStatus'[c] = "SELECTING" /\ revision'[c] = holdReq[r].target /\ holdSelected'[c] = holdReq[r].new
      /\ \A s \in secured'[c] : s \in secured[c] /\ s \in holdReq[r].new
      /\ \A d \in Checkouts : d # c =>
            /\ holdStatus'[d] = holdStatus[d] /\ revision'[d] = revision[d]
            /\ holdSelected'[d] = holdSelected[d] /\ secured'[d] = secured[d]
  BY <1>2 DEF Holds!Write, Holds!WriteRow, Holds!Secure, TypeInv, Holds!TypeOK
<1>4. /\ holdReq[r].old = holdSelected[c]
      /\ \/ holdStatus[c] = "NONE" /\ holdReq[r].target = 0 /\ revision[c] = 0
         \/ holdStatus[c] = "SELECTING" /\ holdReq[r].target = revision[c] + 1
  BY <1>1, <1>2 DEF HandlersKnowTheirRow, Working, Holds!LockedSteps, NothingBeforeCreation
<1>5. \A q \in Requests : q # r /\ holdReq[q].checkout = c => ~Working(q)
  BY <1>1 DEF OneAtATime, Working, Holds!LockedSteps
<1>6. OneAtATime'
  BY <1>1 DEF OneAtATime, Working, Holds!LockedSteps, Holds!FreeSteps
<1>7. HandlersKnowTheirRow'
  <2> SUFFICES ASSUME NEW q \in Requests
               PROVE  /\ holdReq'[q].at # "abortLate"
                      /\ Working(q)' => holdReq'[q].old = holdSelected'[holdReq'[q].checkout]
                      /\ holdReq'[q].at \in {"prepare", "write", "abort"} =>
                            \/ holdStatus'[holdReq'[q].checkout] = "NONE" /\ holdReq'[q].target = 0
                            \/ /\ holdStatus'[holdReq'[q].checkout] = "SELECTING"
                               /\ holdReq'[q].target = revision'[holdReq'[q].checkout] + 1
                      /\ holdReq'[q].at \in {"ensure", "freeze"} =>
                            /\ holdStatus'[holdReq'[q].checkout] = "SELECTING"
                            /\ holdReq'[q].new = holdSelected'[holdReq'[q].checkout]
                      /\ holdReq'[q].at \in {"formal", "resetRelease", "resetWrite"} =>
                            holdStatus'[holdReq'[q].checkout] = "SUBMITTING"
                      /\ holdReq'[q].at = "finalize" =>
                            /\ holdStatus'[holdReq'[q].checkout] # "NONE"
                            /\ holdReq'[q].target <= revision'[holdReq'[q].checkout]
                            /\ holdReq'[q].target = revision'[holdReq'[q].checkout] =>
                                  holdSelected'[holdReq'[q].checkout] = holdReq'[q].new
                      /\ holdReq'[q].at = "release" =>
                            holdStatus'[holdReq'[q].checkout] \in {"ABANDONED", "RESERVED"}
    BY DEF HandlersKnowTheirRow
  <2>1. CASE q = r
    BY <1>1, <1>2, <1>3, <2>1 DEF Working, Holds!LockedSteps
  <2>2. CASE q # r /\ holdReq[q].checkout = c
    BY <1>1, <1>2, <1>3, <1>4, <1>5, <2>2 DEF HandlersKnowTheirRow, Working, Holds!LockedSteps
  <2>3. CASE q # r /\ holdReq[q].checkout # c
    BY <1>1, <1>2, <1>3, <2>3 DEF HandlersKnowTheirRow, Working, Holds!LockedSteps
  <2>4. QED
    BY <2>1, <2>2, <2>3
<1>8. NothingBeforeCreation'
  BY <1>3 DEF NothingBeforeCreation
<1>9. /\ \A d \in Checkouts : \A s \in Seats : Wanted(d, s)' => Wanted(d, s)
      /\ \A s \in Seats : Wanted(c, s)' => s \in holdReq[r].new
      /\ \A d \in Checkouts : \A s \in Seats : d # c => (Wanted(d, s)' <=> Wanted(d, s))
  BY <1>1, <1>2, <1>3, <1>5 DEF Wanted, Working, Holds!LockedSteps
<1>10. SecuredAreWanted'
  BY <1>2, <1>3, <1>9 DEF SecuredAreWanted, Wanted
<1>11. SecuredAreHeld'
  BY <1>1, <1>3, <1>4 DEF SecuredAreHeld
<1>12. RevisionsTell'
  <2>1. ASSUME NEW d \in Checkouts, NEW s \in holdSelected'[d], hold[s].owner = d
        PROVE  hold[s].revision <= revision'[d]
    <3>1. CASE d = c
      <4>1. s \in holdReq[r].new /\ s \in Seats
        BY <1>2, <1>3, <2>1, <3>1
      <4>2. CASE s \in holdReq[r].old
        BY <1>2, <1>3, <1>4, <2>1, <3>1, <4>1, <4>2 DEF RevisionsTell
      <4>3. CASE s \notin holdReq[r].old
        BY <1>1, <1>2, <1>3, <2>1, <3>1, <4>1, <4>3 DEF RevisionsTell
      <4>4. QED
        BY <4>2, <4>3
    <3>2. CASE d # c
      BY <1>3, <2>1, <3>2 DEF RevisionsTell
    <3>3. QED
      BY <3>1, <3>2
  <2>2. QED
    BY <1>1, <2>1 DEF RevisionsTell
<1>13. CleanUpsAreOld'
  <2> SUFFICES ASSUME NEW q \in Requests, holdReq'[q].at = "finalize",
                      NEW s \in holdReq[q].old \ holdReq[q].new, NEW d, d = holdReq[q].checkout,
                      Wanted(d, s)', hold[s].owner = d
               PROVE  hold[s].revision > holdReq[q].target
    BY <1>1 DEF CleanUpsAreOld
  <2>1. s \in Seats /\ (q # r => holdReq[q].at = "finalize" /\ d \in Checkouts)
    BY <1>1, <1>2
  <2>2. q # r
    BY <1>1, <1>9, <2>1
  <2>3. Wanted(d, s)
    BY <1>9, <2>1, <2>2
  <2>4. QED
    BY <2>1, <2>2, <2>3 DEF CleanUpsAreOld
<1>14. NothingLeaks'
  <2> SUFFICES ASSUME NEW s \in Seats, NEW d \in Checkouts, hold[s].owner = d
               PROVE  (Holds!Open(d)' /\ s \in holdSelected'[d]) \/ \E q \in Requests : Covers(q, s)'
    BY <1>1 DEF NothingLeaks
  <2>1. CASE Holds!Open(d) /\ s \in holdSelected[d] /\ d # c
    BY <1>3, <2>1 DEF Holds!Open
  <2>2. CASE d = c /\ s \in holdReq[r].new
    BY <1>3, <2>2 DEF Holds!Open
  <2>3. CASE d = c /\ s \in holdSelected[c] /\ s \notin holdReq[r].new
    <3>1. hold[s].revision <= holdReq[r].target
      BY <1>2, <1>4, <2>3 DEF RevisionsTell
    <3>2. Covers(r, s)'
      BY <1>1, <1>4, <2>3, <3>1 DEF Covers
    <3>3. QED
      BY <3>2
  <2>4. ASSUME NEW q \in Requests, Covers(q, s), ~(d = c /\ s \in holdReq[r].new)
        PROVE  \E p \in Requests : Covers(p, s)'
    <3>1. q # r
      BY <1>1, <2>4 DEF Covers
    <3>2. Covers(q, s)'
      BY <1>1, <2>4, <3>1 DEF Covers
    <3>3. QED
      BY <3>2
  <2>5. QED
    BY <2>1, <2>2, <2>3, <2>4 DEF NothingLeaks
<1>15. QED
  BY <1>6, <1>7, <1>8, <1>10, <1>11, <1>12, <1>13, <1>14

\* A call: nobody else works on the checkout.
LEMMA CallKeepsCalm ==
    ASSUME Holds!ConstantsAssumption, TypeInv, Calm, NEW r \in Requests, Holds!Call(r)
    PROVE  Calm'
<1> USE DEF Calm
<1>1. ASSUME NEW c \in Checkouts, NEW S \in SUBSET Seats, NEW t \in 0..MaxRevision,
             NEW a \in Places, NEW st, Holds!Handle(r, a, c, S, t),
             holdStatus' = [holdStatus EXCEPT ![c] = st],
             UNCHANGED <<revision, holdSelected, hold, secured>>,
             \/ a = "prepare" /\ st = holdStatus[c] /\ holdStatus[c] = "NONE" /\ t = 0
             \/ a = "prepare" /\ st = holdStatus[c] /\ holdStatus[c] = "SELECTING" /\ t = revision[c] + 1
             \/ a = "ensure" /\ st = holdStatus[c] /\ holdStatus[c] = "SELECTING" /\ S = holdSelected[c]
             \/ a = "release" /\ st = "ABANDONED" /\ holdStatus[c] = "SELECTING"
      PROVE  Calm'
  <2>1. /\ holdReq[r].at = "idle"
        /\ \A q \in Requests : q # r => holdReq'[q] = holdReq[q]
        /\ holdReq'[r].at = a /\ holdReq'[r].checkout = c /\ holdReq'[r].old = holdSelected[c]
        /\ holdReq'[r].new = S /\ holdReq'[r].target = t
    <3>1. Holds!TypeOK /\ Holds!Handle(r, a, c, S, t)
      BY <1>1 DEF TypeInv
    <3> HIDE DEF Calm
    <3>2. QED
      BY <3>1, HoldHandleShape
  <2>2. \A q \in Requests : q # r /\ holdReq[q].checkout = c => ~Working(q)
    BY <1>1, HoldHandleShape DEF TypeInv, Holds!Locked, HandlersKnowTheirRow, Working
  <2>3. holdStatus'[c] = st /\ \A d \in Checkouts : d # c => holdStatus'[d] = holdStatus[d]
    BY <1>1 DEF TypeInv, Holds!TypeOK
  <2>4. \A q \in Requests : holdReq[q].at # "idle" => holdReq[q].checkout \in Checkouts
    BY DEF TypeInv
  <2>5. OneAtATime'
    BY <2>1, <2>2 DEF OneAtATime, Working
  <2>6. HandlersKnowTheirRow'
    <3> SUFFICES ASSUME NEW q \in Requests
                 PROVE  /\ holdReq'[q].at # "abortLate"
                        /\ Working(q)' => holdReq'[q].old = holdSelected'[holdReq'[q].checkout]
                        /\ holdReq'[q].at \in {"prepare", "write", "abort"} =>
                              \/ holdStatus'[holdReq'[q].checkout] = "NONE" /\ holdReq'[q].target = 0
                              \/ /\ holdStatus'[holdReq'[q].checkout] = "SELECTING"
                                 /\ holdReq'[q].target = revision'[holdReq'[q].checkout] + 1
                        /\ holdReq'[q].at \in {"ensure", "freeze"} =>
                              /\ holdStatus'[holdReq'[q].checkout] = "SELECTING"
                              /\ holdReq'[q].new = holdSelected'[holdReq'[q].checkout]
                        /\ holdReq'[q].at \in {"formal", "resetRelease", "resetWrite"} =>
                              holdStatus'[holdReq'[q].checkout] = "SUBMITTING"
                        /\ holdReq'[q].at = "finalize" =>
                              /\ holdStatus'[holdReq'[q].checkout] # "NONE"
                              /\ holdReq'[q].target <= revision'[holdReq'[q].checkout]
                              /\ holdReq'[q].target = revision'[holdReq'[q].checkout] =>
                                    holdSelected'[holdReq'[q].checkout] = holdReq'[q].new
                        /\ holdReq'[q].at = "release" =>
                              holdStatus'[holdReq'[q].checkout] \in {"ABANDONED", "RESERVED"}
      BY DEF HandlersKnowTheirRow
    <3>1. CASE q = r
      BY <1>1, <2>1, <2>3, <3>1
    <3>2. CASE q # r /\ holdReq[q].checkout = c
      BY <1>1, <2>1, <2>2, <2>3, <3>2 DEF HandlersKnowTheirRow, Working, Holds!LockedSteps
    <3>3. CASE q # r /\ holdReq[q].checkout # c
      BY <1>1, <2>1, <2>3, <2>4, <3>3 DEF HandlersKnowTheirRow, Working, Holds!LockedSteps
    <3>4. QED
      BY <3>1, <3>2, <3>3
  <2>7. NothingBeforeCreation'
    BY <1>1, <2>3 DEF NothingBeforeCreation
  <2>8. \A d \in Checkouts : \A s \in Seats : Wanted(d, s)' <=> Wanted(d, s)
    BY <1>1, <2>1 DEF Wanted
  <2>9. SecuredAreWanted'
    <3>1. \A d \in Checkouts : secured[d] \subseteq Seats
      BY DEF TypeInv, Holds!TypeOK
    <3>2. QED
      BY <1>1, <2>8, <3>1 DEF SecuredAreWanted
  <2>10. SecuredAreHeld'
    BY <1>1, <2>3 DEF SecuredAreHeld
  <2>11. RevisionsTell'
    BY <1>1, <2>1 DEF RevisionsTell
  <2>12. CleanUpsAreOld'
    <3> SUFFICES ASSUME NEW q \in Requests, holdReq'[q].at = "finalize"
                 PROVE  \A s \in holdReq'[q].old \ holdReq'[q].new :
                           Wanted(holdReq[q].checkout, s)' /\ hold'[s].owner = holdReq'[q].checkout =>
                              hold'[s].revision > holdReq'[q].target
      BY DEF CleanUpsAreOld
    <3>1. holdReq'[q] = holdReq[q] /\ holdReq[q].checkout \in Checkouts /\ holdReq[q].old \subseteq Seats
      BY <1>1, <2>1, <2>4 DEF TypeInv, Holds!TypeOK, Holds!Handlers
    <3>2. QED
      BY <1>1, <2>8, <3>1 DEF CleanUpsAreOld
  <2>13. NothingLeaks'
    <3> SUFFICES ASSUME NEW s \in Seats, NEW d \in Checkouts, hold[s].owner = d
                 PROVE  (Holds!Open(d)' /\ s \in holdSelected[d]) \/ \E q \in Requests : Covers(q, s)'
      BY <1>1 DEF NothingLeaks
    <3>1. CASE Holds!Open(d) /\ s \in holdSelected[d]
      BY <1>1, <2>1, <2>3, <3>1 DEF Holds!Open, Covers
    <3>2. ASSUME NEW q \in Requests, Covers(q, s) PROVE Covers(q, s)'
      BY <1>1, <2>1, <3>2 DEF Covers
    <3>3. QED
      BY <3>1, <3>2 DEF NothingLeaks
  <2>14. QED
    BY <2>5, <2>6, <2>7, <2>9, <2>10, <2>11, <2>12, <2>13
<1>2. \A c \in Checkouts : /\ revision[c] \in 0..MaxRevision /\ holdSelected[c] \in SUBSET Seats
                          /\ holdStatus = [holdStatus EXCEPT ![c] = holdStatus[c]]
  BY DEF TypeInv, Holds!TypeOK
<1>3. ASSUME NEW c \in Checkouts, NEW S \in SUBSET Seats, Holds!BeginCreate(r, c, S) PROVE Calm'
  <2>1. 0 \in 0..MaxRevision
    BY DEF Holds!ConstantsAssumption
  <2>2. QED
    BY <1>1, <1>2, <1>3, <2>1 DEF Holds!BeginCreate, Places, Holds!LockedSteps, Holds!rowVars
<1>4. ASSUME NEW c \in Checkouts, NEW S \in SUBSET Seats, Holds!BeginReplace(r, c, S) PROVE Calm'
  <2>1. Holds!TargetRevision(c) \in 0..MaxRevision /\ Holds!TargetRevision(c) = revision[c] + 1
    BY <1>2, <1>4 DEF Holds!TargetRevision, Holds!BeginReplace, Holds!ConstantsAssumption
  <2>2. QED
    BY <1>1, <1>2, <1>4, <2>1 DEF Holds!BeginReplace, Places, Holds!LockedSteps, Holds!rowVars
<1>5. ASSUME NEW c \in Checkouts, Holds!Abandon(r, c) PROVE Calm'
  BY <1>1, <1>2, <1>5 DEF Holds!Abandon, Places, Holds!FreeSteps
<1>6. ASSUME NEW c \in Checkouts, Holds!BeginConfirm(r, c) PROVE Calm'
  BY <1>1, <1>2, <1>6 DEF Holds!BeginConfirm, Places, Holds!LockedSteps, Holds!rowVars
<1>7. QED
  BY <1>3, <1>4, <1>5, <1>6 DEF Holds!Call

LEMMA HandlerKeepsCalm ==
    ASSUME Holds!ConstantsAssumption, TypeInv, Calm, failing = {}, NEW r \in Requests,
           Holds!Handler(r) \/ Holds!Die(r)
    PROVE  Calm'
<1> DEFINE c == holdReq[r].checkout
<1>1. /\ holdReq[r].at # "idle" /\ c \in Checkouts /\ holdReq[r].old \subseteq Seats
      /\ holdReq[r].new \subseteq Seats
  <2>1. holdReq[r].at # "idle"
    BY DEF Holds!Handler, Holds!Die, Holds!Prepare, Holds!Write, Holds!WriteFails,
       Holds!CommitFails, Holds!Abort, Holds!Finalize, Holds!Ensure, Holds!Freeze,
       Holds!Reserved, Holds!BeginReset, Holds!ResetRelease, Holds!ResetWrite, Holds!Release,
       Holds!LockedSteps, Holds!FreeSteps
  <2>2. QED
    BY <2>1 DEF TypeInv, Holds!TypeOK, Holds!Handlers
<1>2. ASSUME NEW S, Holds!Secure(c, S)
      PROVE  /\ \A d \in Checkouts : secured'[d] \subseteq secured[d]
             /\ secured'[c] \subseteq S
  BY <1>1, <1>2 DEF Holds!Secure, TypeInv, Holds!TypeOK
<1>3. holdStatus = [holdStatus EXCEPT ![c] = holdStatus[c]]
  BY <1>1 DEF TypeInv, Holds!TypeOK
<1>4. ASSUME NEW a \in Places, Holds!Go(r, a), 
             UNCHANGED <<holdStatus, revision, holdSelected, hold, secured>>,
             \/ holdReq[r].at = "prepare" /\ a = "abort"
             \/ holdReq[r].at = "ensure" /\ a = "done"
             \/ holdReq[r].at = "formal" /\ a = "resetRelease"
      PROVE  Calm'
  BY <1>1, <1>3, <1>4, MoveKeepsCalm
<1>5. CASE Holds!Prepare(r)
  <2>1. CASE Holds!Available(c, holdReq[r].new) /\ secured' = [secured EXCEPT ![c] = @ \cup holdReq[r].new]
             /\ hold' = Holds!Prepared(r) /\ Holds!Go(r, "write")
    BY <1>5, <2>1, TakeKeepsCalm DEF Holds!Prepare, Holds!rowVars
  <2>2. CASE Holds!Go(r, "abort") /\ UNCHANGED <<hold, secured>>
    BY <1>4, <1>5, <2>2 DEF Holds!Prepare, Holds!rowVars, Places, Holds!LockedSteps
  <2>3. QED
    BY <1>5, <2>1, <2>2 DEF Holds!Prepare, Holds!Answer
<1>6. CASE Holds!Ensure(r)
  <2>1. CASE Holds!Available(c, holdReq[r].new) /\ secured' = [secured EXCEPT ![c] = @ \cup holdReq[r].new]
             /\ hold' = Holds!Ensured(r) /\ Holds!Go(r, "freeze")
    BY <1>6, <2>1, TakeKeepsCalm DEF Holds!Ensure, Holds!rowVars
  <2>2. CASE Holds!Go(r, "done") /\ UNCHANGED <<hold, secured>>
    BY <1>4, <1>6, <2>2 DEF Holds!Ensure, Holds!rowVars, Places, Holds!LockedSteps
  <2>3. QED
    BY <1>6, <2>1, <2>2 DEF Holds!Ensure, Holds!Answer
<1>7. CASE Holds!WriteFails(r)
  BY <1>1, <1>2, <1>3, <1>7, MoveKeepsCalm DEF Holds!WriteFails, Holds!rowVars, Places,
     Holds!LockedSteps
<1>8. CASE Holds!Die(r)
  BY <1>1, <1>2, <1>3, <1>8, MoveKeepsCalm DEF Holds!Die, Holds!rowVars, Places
<1>9. CASE Holds!Freeze(r)
  BY <1>1, <1>9, MoveKeepsCalm DEF Holds!Freeze, Places, Holds!FreeSteps
<1>10. CASE Holds!Reserved(r)
  BY <1>1, <1>10, MoveKeepsCalm DEF Holds!Reserved, Places, Holds!FreeSteps
<1>11. CASE Holds!BeginReset(r)
  BY <1>4, <1>11 DEF Holds!BeginReset, Holds!rowVars, Places, Holds!LockedSteps
<1>12. CASE Holds!ResetWrite(r)
  BY <1>1, <1>12, MoveKeepsCalm DEF Holds!ResetWrite, Places
<1>13. \A S : Holds!CleanUp(S) => hold' = Holds!Without(S)
  BY DEF Holds!CleanUp
<1>14. /\ Holds!Own(c, holdReq[r].old) \subseteq Seats
       /\ \A s \in Holds!Own(c, holdReq[r].old) : hold[s].owner = c
       /\ Holds!Finalizes(r) \subseteq Seats /\ \A s \in Holds!Finalizes(r) : hold[s].owner = c
       /\ Holds!Aborts(r) \subseteq Seats /\ \A s \in Holds!Aborts(r) : hold[s].owner = c
  BY <1>1 DEF Holds!Own, Holds!Finalizes, Holds!Aborts
<1>15. CASE Holds!Abort(r)
  <2>1. holdReq[r].at = "abort"
    BY <1>15 DEF Holds!Abort, Calm, HandlersKnowTheirRow
  <2>2. /\ hold' = Holds!Without(Holds!Aborts(r)) /\ Holds!Go(r, "done")
        /\ UNCHANGED <<holdStatus, revision, holdSelected, secured>>
    BY <1>13, <1>15 DEF Holds!Abort, Holds!rowVars
  <2>3. QED
    BY <1>14, <2>1, <2>2, CleanUpKeepsCalm
<1>16. CASE Holds!Finalize(r)
  <2>1. /\ holdReq[r].at = "finalize" /\ hold' = Holds!Without(Holds!Finalizes(r)) /\ Holds!Go(r, "done")
        /\ UNCHANGED <<holdStatus, revision, holdSelected, secured>>
    BY <1>13, <1>16 DEF Holds!Finalize, Holds!rowVars
  <2>2. QED
    BY <1>14, <2>1, CleanUpKeepsCalm
<1>17. CASE Holds!Release(r)
  <2>1. /\ holdReq[r].at = "release"
        /\ hold' = Holds!Without(Holds!Own(c, holdReq[r].old)) /\ Holds!Go(r, "done")
        /\ UNCHANGED <<holdStatus, revision, holdSelected, secured>>
    BY <1>13, <1>17 DEF Holds!Release, Holds!rowVars
  <2>2. QED
    BY <1>14, <2>1, CleanUpKeepsCalm
<1>18. CASE Holds!ResetRelease(r)
  <2>1. /\ holdReq[r].at = "resetRelease"
        /\ hold' = Holds!Without(Holds!Own(c, holdReq[r].old)) /\ Holds!Go(r, "resetWrite")
        /\ UNCHANGED <<holdStatus, revision, holdSelected>> /\ Holds!Secure(c, {})
    BY <1>13, <1>18 DEF Holds!ResetRelease, Holds!rowVars
  <2>2. secured'[c] = {} /\ \A d \in Checkouts : secured'[d] \subseteq secured[d]
    BY <1>2, <2>1
  <2>3. QED
    BY <1>14, <2>1, <2>2, CleanUpKeepsCalm
<1>19. CASE Holds!Write(r)
  BY <1>19, WriteKeepsCalm
<1>20. ~Holds!CommitFails(r)
  BY DEF Holds!CommitFails
<1>21. QED
  BY <1>5, <1>6, <1>7, <1>8, <1>9, <1>10, <1>11, <1>12, <1>15, <1>16, <1>17, <1>18, <1>19, <1>20
  DEF Holds!Handler

-----------------------------------------------------------------------------
LEMMA HoldNextKeeps ==
    ASSUME Holds!ConstantsAssumption
    PROVE  HoldInv /\ [Holds!Next /\ UNCHANGED failing]_(Holds!vars) => HoldInv'
<1> SUFFICES ASSUME HoldInv, [Holds!Next /\ UNCHANGED failing]_(Holds!vars) PROVE HoldInv'
  OBVIOUS
<1>1. ASSUME NEW s \in Seats, Holds!HoldExpires(s), UNCHANGED failing PROVE HoldInv'
  BY <1>1, ExpiryShape, ExpiryKeepsCalm DEF HoldInv
<1>2. ASSUME NEW r \in Requests, Holds!Call(r), UNCHANGED failing PROVE HoldInv'
  BY <1>2, CallKeepsType, CallKeepsCalm DEF HoldInv
<1>3. ASSUME NEW r \in Requests, Holds!Handler(r) \/ Holds!Die(r), UNCHANGED failing PROVE HoldInv'
  BY <1>3, HandlerKeepsType, HandlerKeepsCalm DEF HoldInv
<1>4. CASE UNCHANGED Holds!vars
  <2>1. UNCHANGED <<holdStatus, revision, holdSelected, hold, failing, secured, holdReq>>
    BY <1>4 DEF Holds!vars, Holds!rowVars
  <2>2. TypeInv'
    BY <2>1 DEF HoldInv, TypeInv, Holds!TypeOK
  <2>3. ASSUME Calm PROVE Calm'
    <3>1. HandlersKnowTheirRow' /\ NothingBeforeCreation' /\ OneAtATime'
      BY <2>1, <2>3 DEF Calm, HandlersKnowTheirRow, NothingBeforeCreation, OneAtATime, Working
    <3>2. SecuredAreWanted' /\ SecuredAreHeld' /\ RevisionsTell' /\ CleanUpsAreOld'
      BY <2>1, <2>3 DEF Calm, SecuredAreWanted, SecuredAreHeld, RevisionsTell, CleanUpsAreOld,
         Wanted
    <3>3. NothingLeaks'
      BY <2>1, <2>3 DEF Calm, NothingLeaks, Covers, Holds!Open
    <3>4. QED
      BY <3>1, <3>2, <3>3 DEF Calm
  <2>4. QED
    BY <2>1, <2>2, <2>3 DEF HoldInv
<1>5. QED
  BY <1>1, <1>2, <1>3, <1>4 DEF Holds!Next

\* Checkout rows, holds and handlers keep their types whatever fails, and while Redis and
\* PostgreSQL answer the parts of Calm hold: handlers know their row, and revisions tell
\* the holds of one PUT from those of another.
THEOREM HoldInvCorrect == ASSUME Holds!ConstantsAssumption PROVE Holds!Spec => []HoldInv
<1>1. Holds!Init => HoldInv
  BY InitType, InitCalm DEF HoldInv
<1>2. HoldInv /\ [Holds!Next /\ UNCHANGED failing]_(Holds!vars) => HoldInv'
  BY HoldNextKeeps
<1>3. QED
  BY <1>1, <1>2, PTL DEF Holds!Spec

\* While the services answer, no late finalize, abort or release takes a hold away that
\* Redis has confirmed and whose seat the checkout has kept selected.
LEMMA SecuredSeatsStay ==
    ASSUME Holds!ConstantsAssumption PROVE Holds!Spec => []Holds!SecuredSeatsStayHeld
<1>1. HoldInv => Holds!SecuredSeatsStayHeld
  BY DEF HoldInv, Calm, SecuredAreHeld, Holds!SecuredSeatsStayHeld, Holds!ConfirmedHoldsStay,
     Holds!Open
<1>2. QED
  BY <1>1, HoldInvCorrect, PTL

\* While the services answer, no hold is left over by a failed create or PUT, a removed
\* seat, an abandoned or a confirmed checkout.
LEMMA NoHoldLeaks == ASSUME Holds!ConstantsAssumption PROVE Holds!Spec => []Holds!NoLeakedHold
<1>1. HoldInv => Holds!NoLeakedHold
  <2> SUFFICES ASSUME HoldInv, failing = {}, NEW s \in Seats, NEW c \in Checkouts,
                      hold[s].owner = c, ~(Holds!Open(c) /\ s \in holdSelected[c])
               PROVE  \E r \in Requests : /\ holdReq[r].checkout = c
                                          /\ holdReq[r].at \notin {"idle", "done"}
                                          /\ s \in holdReq[r].old \cup holdReq[r].new
    BY DEF Holds!NoLeakedHold
  <2>1. PICK r \in Requests : Covers(r, s)
    BY DEF HoldInv, Calm, NothingLeaks
  <2>2. QED
    BY <2>1 DEF Covers
<1>2. QED
  BY <1>1, HoldInvCorrect, PTL

-----------------------------------------------------------------------------
\* Whatever fails, the scripts of a handler change no hold of another checkout: prepare
\* and ensure refuse it, and the clean-ups compare the owner.
THEOREM ForeignHoldsAreSafeCorrect ==
    ASSUME Holds!ConstantsAssumption PROVE Holds!Spec => Holds!ForeignHoldsAreSafe
<1> DEFINE Safe == \A s \in Seats : hold[s] # Holds!NoHold /\ hold'[s] # hold[s] /\ holdReq' # holdReq =>
                      \E r \in Requests : holdReq'[r] # holdReq[r] /\ holdReq[r].checkout = hold[s].owner
<1>1. ASSUME HoldInv, [Holds!Next /\ UNCHANGED failing]_(Holds!vars) PROVE Safe
  <2> SUFFICES ASSUME NEW s \in Seats, hold[s] # Holds!NoHold, hold'[s] # hold[s], holdReq' # holdReq
               PROVE  \E r \in Requests : holdReq'[r] # holdReq[r] /\ holdReq[r].checkout = hold[s].owner
    OBVIOUS
  <2>1. PICK r \in Requests : Holds!Call(r) \/ Holds!Handler(r) \/ Holds!Die(r)
    BY <1>1 DEF Holds!Next, Holds!HoldExpires, Holds!vars
  <2>2. ~Holds!Call(r) /\ ~Holds!Die(r)
    BY DEF Holds!Call, Holds!Die, Holds!BeginCreate, Holds!BeginReplace, Holds!Abandon,
       Holds!BeginConfirm
  <2>3. \/ Holds!Prepare(r) \/ Holds!Ensure(r) \/ Holds!Abort(r) \/ Holds!Finalize(r)
        \/ Holds!ResetRelease(r) \/ Holds!Release(r)
    BY <2>1, <2>2 DEF Holds!Handler, Holds!Write, Holds!WriteFails, Holds!CommitFails,
       Holds!Freeze, Holds!Reserved, Holds!BeginReset, Holds!ResetWrite
  <2>4. /\ \E a \in Places \ {holdReq[r].at} : Holds!Go(r, a)
    BY <2>3 DEF Holds!Prepare, Holds!Ensure, Holds!Answer, Holds!Abort, Holds!Finalize,
       Holds!ResetRelease, Holds!Release, Places,
       Holds!LockedSteps, Holds!FreeSteps
  <2>5. holdReq'[r] # holdReq[r]
    BY <1>1, <2>4, HoldGoShape DEF HoldInv, TypeInv
  <2>6. holdReq[r].checkout \in Checkouts /\ hold \in [Seats -> Holds!Holds]
    BY <1>1, <2>3 DEF HoldInv, TypeInv, Holds!TypeOK, Holds!Prepare, Holds!Ensure, Holds!Abort,
       Holds!Finalize, Holds!ResetRelease, Holds!Release
  <2>7. CASE Holds!Prepare(r) \/ Holds!Ensure(r)
    <3>1. /\ Holds!Available(holdReq[r].checkout, holdReq[r].new)
          /\ hold' = Holds!Prepared(r) \/ hold' = Holds!Ensured(r)
      BY <2>7 DEF Holds!Prepare, Holds!Ensure, Holds!Answer
    <3>2. s \in holdReq[r].new
      BY <1>1, <2>6, <3>1, PreparedShape, EnsuredShape DEF HoldInv, TypeInv
    <3>3. QED
      BY <2>5, <3>1, <3>2 DEF Holds!Available, Holds!Own, Holds!Free
  <2>8. CASE Holds!Abort(r) \/ Holds!Finalize(r) \/ Holds!ResetRelease(r) \/ Holds!Release(r)
    <3>1. PICK S : /\ hold' = Holds!Without(S)
                   /\ \A t \in S : hold[t].owner = holdReq[r].checkout
      BY <2>8 DEF Holds!Abort, Holds!Finalize, Holds!ResetRelease, Holds!Release, Holds!CleanUp,
         Holds!Aborts, Holds!Finalizes, Holds!Own
    <3>2. s \in S
      BY <2>6, <3>1, WithoutShape
    <3>3. QED
      BY <2>5, <3>1, <3>2
  <2>9. QED
    BY <2>3, <2>7, <2>8
<1>2. [][Safe]_(Holds!vars) => Holds!ForeignHoldsAreSafe
  BY PTL DEF Holds!ForeignHoldsAreSafe
<1>3. QED
  BY <1>1, <1>2, HoldInvCorrect, PTL DEF Holds!Spec

-----------------------------------------------------------------------------
(* The two halves side by side. *)

\* A behaviour of the two halves is one of each.
LEMMA HalvesAreWhole == CheckoutSpec => Spec /\ Holds!Spec
<1>1. CheckoutInit => Init /\ Holds!Init
  BY DEF CheckoutInit
<1>2. [CheckoutNext]_<<half, vars, holdVars>> => [Next /\ UNCHANGED seatsReturn]_vars
  BY DEF CheckoutNext
<1>3. [CheckoutNext]_<<half, vars, holdVars>> => [Holds!Next /\ UNCHANGED failing]_(Holds!vars)
  BY DEF CheckoutNext, holdVars, Holds!vars, Holds!rowVars
<1>4. QED
  BY <1>1, <1>2, <1>3, PTL DEF CheckoutSpec, Spec, Holds!Spec

\* While the services answer, no late finalize, abort or release takes a hold away that
\* Redis has confirmed and whose seat the checkout has kept selected.
THEOREM SecuredSeatsStayHeldCorrect == CheckoutSpec => []SecuredSeatsStayHeld
  BY HalvesAreWhole, HoldsAreValid, SecuredSeatsStay, PTL DEF SecuredSeatsStayHeld

\* While the services answer, no hold is left over by a failed create or PUT, a removed
\* seat, an abandoned or a confirmed checkout.
THEOREM NoLeakedHoldCorrect == CheckoutSpec => []NoLeakedHold
  BY HalvesAreWhole, HoldsAreValid, NoHoldLeaks, PTL DEF NoLeakedHold

\* A late step of a handler undoes nothing: one reservation per key, outcomes are final,
\* and holds of other checkouts are left alone whatever fails.
THEOREM LateStepsAreHarmlessCorrect == CheckoutSpec => LateStepsAreHarmless
  BY HalvesAreWhole, HoldsAreValid, ForeignHoldsAreSafeCorrect, CreatedOnceCorrect,
     OutcomesAreFinalCorrect, PTL DEF LateStepsAreHarmless
=============================================================================
