-------------------------- MODULE AvailabilityReadModel --------------------------
(***************************************************************************)
(* The seat map that customers poll: a read model of one session in Redis,  *)
(* derived from the inventory in PostgreSQL and from the seat holds.        *)
(*                                                                         *)
(* A change of inventory reaches it through an outbox that projection       *)
(* workers empty under leases.  A model that is missing is rebuilt by the   *)
(* poll that takes the init lock: it reads the inventory and publishes what *)
(* it has read, two steps between which the inventory goes on changing.     *)
(* Scripts that change holds bring the model along, and a poll first sweeps *)
(* the holds that have run out.  A client follows the stream of changes by  *)
(* a cursor and patches its view.                                           *)
(*                                                                         *)
(* Every Lua script is one step.  One zone; a raw hold and its entry in the *)
(* model run out at the same instant.  MAXLEN ~ trims as much of the stream *)
(* beyond KeepEvents as it likes.                                           *)
(***************************************************************************)
EXTENDS Naturals, FiniteSets, Sequences, SequencesExt

CONSTANTS
    Seats,
    Owners,           \* checkout sessions
    Polls,            \* clients, each with one request at a time
    Followers,        \* those that keep the cursor; the others ask for the map anew
    Workers,
    NoOne,
    Traded,           \* the seats that orders change
    MaxVersion,       \* a bound on formal_version
    MaxStream,        \* holds are only changed while a generation has fewer changes
    MaxFaults,        \* a bound on what goes wrong
    KeepEvents,       \* stream_maxlen
    DeltaLimit,       \* delta_scan_limit
    ExpiryBatch,      \* expiry_cleanup_batch
    ProjectionBatch   \* batch_size

ASSUME FiniteSeats == IsFiniteSet(Seats)
ASSUME Names == NoOne \notin Owners \cup Polls \cup Workers \cup Seats
ASSUME FollowingPolls == Followers \subseteq Polls
ASSUME TradedSeats == Traded \subseteq Seats
ASSUME Bounds == MaxVersion \in Nat /\ MaxStream \in Nat /\ MaxFaults \in Nat
ASSUME Limits == {KeepEvents, DeltaLimit, ExpiryBatch, ProjectionBatch} \subseteq Nat \ {0}

VARIABLES
    inventory,        \* session_seats: status and formal_version
    queued,           \* seat_availability_outbox
    lease,            \* who has leased an event, and whether the lease is over
    todo,             \* the events of a worker's round it has not applied
    answer,           \* the answer a worker has for an event, at most one
    model,            \* the derived keys
    raw,              \* the Redis hold of a seat: its owner
    lock,             \* the init lock: the poll whose token it holds
    poll,             \* the requests
    sync,             \* a client's generation, cursor and view; generation 0: none
    faults

outboxVars == <<queued, lease, todo, answer>>
clientVars == <<poll, sync>>
vars == <<inventory, outboxVars, model, raw, lock, clientVars, faults>>

Statuses == {"AVAILABLE", "HELD", "SOLD"}
Formal == [status : Statuses, version : 0..MaxVersion]
Event == [seat : Seats, status : Statuses, version : 0..MaxVersion]
Owner == Owners \cup {NoOne}

\* A seat's row in an answer.  "hidden" is not sent: the row left out the owner of a
\* hold that had run out and was not swept.
Row == [status : Statuses, owner : Owner, hidden : BOOLEAN]

\* The generations there can be: every one but the first follows a fault.
Generations == 0..MaxFaults + 1

Unleased == [by |-> NoOne, over |-> FALSE]
Fresh == [status |-> "AVAILABLE", version |-> 0]
Unsynced == [generation |-> 0, cursor |-> 0,
             view |-> [s \in Seats |-> [status |-> "AVAILABLE", owner |-> NoOne,
                                        hidden |-> FALSE]]]
Asleep == [at |-> "idle", rows |-> [s \in Seats |-> Fresh], rebuilt |-> FALSE]

\* Without its meta key nothing of a model is read before init.lua has replaced it.  The
\* rows and the generation are kept to speak of, no step looks at them.
Absent(generation, formal) ==
    [state |-> "absent", generation |-> generation, formal |-> formal,
     holds |-> [s \in Seats |-> NoOne], summary |-> [p \in Statuses |-> 0],
     changes |-> <<>>, trimmed |-> 0]

Init ==
    /\ inventory = [s \in Seats |-> Fresh]
    /\ queued = {}
    /\ lease = [e \in Event |-> Unleased]
    /\ todo = [w \in Workers |-> {}]
    /\ answer = [w \in Workers |-> {}]
    /\ model = Absent(0, [s \in Seats |-> Fresh])
    /\ raw = [s \in Seats |-> NoOne]
    /\ lock = NoOne
    /\ poll = [p \in Polls |-> Asleep]
    /\ sync = [p \in Polls |-> Unsynced]
    /\ faults = 0

Fault == faults < MaxFaults /\ faults' = faults + 1

-----------------------------------------------------------------------------
(* The derived keys. *)

Public(status, owner) ==
    IF status = "AVAILABLE" /\ owner # NoOne THEN "HELD" ELSE status

Counted(formal, holds) ==
    [p \in Statuses |-> Cardinality({s \in Seats : Public(formal[s].status, holds[s]) = p})]

\* The counters as HINCRBY moves them: only what the seats of S were and are counts.
Recounted(m, S, formal, holds) ==
    [p \in Statuses |->
        m.summary[p] + Cardinality({s \in S : Public(formal[s].status, holds[s]) = p})
                     - Cardinality({s \in S : Public(m.formal[s].status, m.holds[s]) = p})]

Appended(m, s) == [m EXCEPT !.changes = Append(@, s)]

Trimmed(m, k) == [m EXCEPT !.changes = SubSeq(@, k + 1, Len(@)), !.trimmed = @ + k]

\* What may become of m when its stream has grown from that of the current model.
Trims(m) ==
    LET over == Len(m.changes) - KeepEvents
    IN  {Trimmed(m, k) : k \in 0..(IF Len(m.changes) > Len(model.changes) /\ over > 0
                                   THEN over ELSE 0)}

Invalidated == Absent(model.generation, model.formal)

LastId(m) == m.trimmed + Len(m.changes)

\* synchold, for the seats a script touched, with the holds the script leaves: a
\* change is announced when the owner of a seat on sale is another one.
Synced(m, S, hold) ==
    LET holds == [s \in Seats |-> IF s \in S THEN hold[s] ELSE m.holds[s]]
        moved == {s \in S : m.formal[s].status = "AVAILABLE" /\ m.holds[s] # hold[s]}
    IN  [m EXCEPT !.holds = holds,
                  !.summary = Recounted(m, S, m.formal, holds),
                  !.changes = @ \o SetToSeq(moved)]

Mutant_AnnouncesPublicChanges(m, e) ==
    LET formal == [m.formal EXCEPT ![e.seat] = [status |-> e.status, version |-> e.version]]
        next == [m EXCEPT !.formal = formal,
                          !.summary = Recounted(m, {e.seat}, formal, m.holds)]
    IN  IF Public(m.formal[e.seat].status, m.holds[e.seat]) = Public(e.status, m.holds[e.seat])
        THEN next ELSE Appended(next, e.seat)

\* apply.lua on a healthy model, for a version it does not have.
Projected(m, e) ==
    LET formal == [m.formal EXCEPT ![e.seat] = [status |-> e.status, version |-> e.version]]
    IN  Appended([m EXCEPT !.formal = formal,
                           !.summary = Recounted(m, {e.seat}, formal, m.holds)], e.seat)

Mutant_WithoutHolds(rows) ==
    LET none == [s \in Seats |-> NoOne] IN
    [state |-> "ready", generation |-> model.generation + 1, formal |-> rows, holds |-> none,
     summary |-> Counted(rows, none), changes |-> <<NoOne>>, trimmed |-> 0]

\* init.lua: the inventory as it was read, the holds as they are now.  The stream
\* starts with a baseline entry, which names no seat.
Published(rows) ==
    [state |-> "ready", generation |-> model.generation + 1, formal |-> rows, holds |-> raw,
     summary |-> Counted(rows, raw), changes |-> <<NoOne>>, trimmed |-> 0]

Lapsed == {s \in Seats : model.holds[s] # NoOne /\ raw[s] = NoOne}

-----------------------------------------------------------------------------
(* PostgreSQL: the inventory and its outbox. *)

MayBecome == {<<"AVAILABLE", "HELD">>, <<"HELD", "SOLD">>, <<"HELD", "AVAILABLE">>,
              <<"SOLD", "AVAILABLE">>}

\* An order or a release changes a seat; the triggers advance its version and queue
\* the change in the same transaction.
ChangeStatus(s, status) ==
    LET version == inventory[s].version + 1 IN
    /\ <<inventory[s].status, status>> \in MayBecome
    /\ version <= MaxVersion
    /\ inventory' = [inventory EXCEPT ![s] = [status |-> status, version |-> version]]
    /\ queued' = queued \cup {[seat |-> s, status |-> status, version |-> version]}
    /\ UNCHANGED <<lease, todo, answer, model, raw, lock, clientVars, faults>>

Claimable == {e \in queued : lease[e].by = NoOne \/ lease[e].over}

Busy(w, e) == e \in todo[w] \/ \E a \in answer[w] : a.event = e

\* A round starts with some of the events that nobody holds: ids are given out before
\* their transactions commit, and locked rows are skipped.
Claim(w) ==
    /\ todo[w] = {} /\ answer[w] = {}
    /\ \E batch \in SUBSET Claimable :
        /\ batch # {} /\ Cardinality(batch) <= ProjectionBatch
        /\ todo' = [todo EXCEPT ![w] = batch]
        /\ lease' = [e \in Event |-> IF e \in batch THEN [by |-> w, over |-> FALSE]
                                                    ELSE lease[e]]
    /\ UNCHANGED <<inventory, queued, answer, model, raw, lock, clientVars, faults>>

\* A lease running out on a worker that is still busy counts as a fault.
LeaseRunsOut(e) ==
    /\ e \in queued /\ lease[e].by # NoOne /\ ~lease[e].over
    /\ lease' = [lease EXCEPT ![e].over = TRUE]
    /\ IF Busy(lease[e].by, e) THEN Fault ELSE UNCHANGED faults
    /\ UNCHANGED <<inventory, queued, todo, answer, model, raw, lock, clientVars>>

Answers(w, e, remove) == answer' = [answer EXCEPT ![w] = {[event |-> e, remove |-> remove]}]

Mutant_NeverDeferred == FALSE

Deferred == lock # NoOne

Mutant_Different(e) == e.version # model.formal[e.seat].version

Newer(e) == e.version > model.formal[e.seat].version

\* apply.lua for one event of a round.  Without a model the event is not needed, or is
\* kept while one is being built; a damaged model answers ERROR and the event stays.
Apply(w, e) ==
    /\ answer[w] = {} /\ e \in todo[w]
    /\ todo' = [todo EXCEPT ![w] = @ \ {e}]
    /\ \/ /\ model.state = "absent"
          /\ Answers(w, e, ~Deferred)
          /\ UNCHANGED model
       \/ /\ model.state = "damaged"
          /\ model' = Invalidated
          /\ UNCHANGED answer
       \/ /\ model.state = "ready" /\ ~Newer(e)
          /\ Answers(w, e, TRUE)
          /\ UNCHANGED model
       \/ /\ model.state = "ready" /\ Newer(e)
          /\ model' \in Trims(Projected(model, e))
          /\ Answers(w, e, TRUE)
    /\ UNCHANGED <<inventory, queued, lease, raw, lock, clientVars, faults>>

\* finishEvent: only under the token of the lease; running out does not end it.
Finish(w) == \E a \in answer[w] :
    /\ answer' = [answer EXCEPT ![w] = {}]
    /\ IF lease[a.event].by = w
       THEN /\ lease' = [lease EXCEPT ![a.event] = Unleased]
            /\ queued' = IF a.remove THEN queued \ {a.event} ELSE queued
       ELSE UNCHANGED <<lease, queued>>
    /\ UNCHANGED <<inventory, todo, model, raw, lock, clientVars, faults>>

\* The script did not run, its answer was lost, or the acknowledgement failed: the
\* worker goes on and the event keeps its lease.
Leave(w, e) ==
    /\ Fault
    /\ Busy(w, e)
    /\ todo' = [todo EXCEPT ![w] = @ \ {e}]
    /\ answer' = [answer EXCEPT ![w] = {a \in @ : a.event # e}]
    /\ UNCHANGED <<inventory, queued, lease, model, raw, lock, clientVars>>

WorkerCrashes(w) ==
    /\ Fault
    /\ todo[w] # {} \/ answer[w] # {}
    /\ todo' = [todo EXCEPT ![w] = {}]
    /\ answer' = [answer EXCEPT ![w] = {}]
    /\ UNCHANGED <<inventory, queued, lease, model, raw, lock, clientVars>>

-----------------------------------------------------------------------------
(* Redis: holds, their expiry, and what may happen to the keys. *)

\* What the scripts of SeatHoldService may do to the seats S on behalf of o: take them
\* all, or delete some of its holds (none, when a script refuses or finds others).
HoldsAfter(o, S) ==
    {[s \in Seats |-> IF s \in gone THEN NoOne ELSE raw[s]] : gone \in SUBSET {s \in S : raw[s] = o}}
    \cup {h \in {[s \in Seats |-> IF s \in S THEN o ELSE raw[s]]} :
            \A s \in S : raw[s] \in {o, NoOne}}

\* wrapHold: the model is validated before the script and synchronized after it.
HoldScript(o, S) ==
    /\ raw' \in HoldsAfter(o, S)
    /\ model' \in CASE model.state = "ready"   -> Trims(Synced(model, S, raw'))
                    [] model.state = "damaged" -> {Invalidated}
                    [] OTHER                   -> {model}
    /\ LastId(model') <= MaxStream
    /\ UNCHANGED <<inventory, outboxVars, lock, clientVars, faults>>

HoldElapses(s) ==
    /\ raw[s] # NoOne
    /\ raw' = [raw EXCEPT ![s] = NoOne]
    /\ UNCHANGED <<inventory, outboxVars, model, lock, clientVars, faults>>

\* Redis loses everything.
Flush ==
    /\ Fault
    /\ model' = Invalidated
    /\ raw' = [s \in Seats |-> NoOne]
    /\ lock' = NoOne
    /\ UNCHANGED <<inventory, outboxVars, clientVars>>

\* The meta key is lost, or another derived key takes a shape healthy() refuses.
Damage ==
    /\ Fault
    /\ model.state = "ready"
    /\ model' \in {Invalidated, [model EXCEPT !.state = "damaged"]}
    /\ UNCHANGED <<inventory, outboxVars, raw, lock, clientVars>>

-----------------------------------------------------------------------------
(* A poll: acquire, perhaps load and publish, expire, read. *)

Go(p, at) == poll' = [poll EXCEPT ![p].at = at]

Done(p) == poll' = [poll EXCEPT ![p] = Asleep]

\* An answer from PostgreSQL alone (degraded) carries no cursor.
Degraded(p) == sync' = [sync EXCEPT ![p] = Unsynced]

\* A request begins here, or comes back.  WAIT changes nothing: a request that has got
\* no further is not told from one that has not come.
Acquire(p) ==
    /\ poll[p].at \in {"idle", "acquire"}
    /\ \/ model.state # "absent" /\ Go(p, "expire") /\ UNCHANGED lock
       \/ model.state = "absent" /\ lock = NoOne /\ lock' = p /\ Go(p, "load")
    /\ UNCHANGED <<inventory, outboxVars, model, raw, sync, faults>>

\* init_wait_milliseconds have passed: 503, and the client keeps its cursor.
GiveUp(p) ==
    /\ poll[p].at = "acquire" /\ model.state = "absent" /\ lock # NoOne
    /\ Done(p)
    /\ UNCHANGED <<inventory, outboxVars, model, raw, lock, sync, faults>>

Load(p) ==
    /\ poll[p].at = "load"
    /\ poll' = [poll EXCEPT ![p].at = "publish", ![p].rows = inventory]
    /\ UNCHANGED <<inventory, outboxVars, model, raw, lock, sync, faults>>

\* init.lua; STALE_INIT sends the request back to waiting.
Publish(p) ==
    /\ poll[p].at = "publish"
    /\ IF lock = p
       THEN model' = Published(poll[p].rows) /\ lock' = NoOne
       ELSE UNCHANGED <<model, lock>>
    /\ poll' = [poll EXCEPT ![p].at = IF lock = p THEN "expire" ELSE "acquire",
                            ![p].rows = Asleep.rows]
    /\ UNCHANGED <<inventory, outboxVars, raw, sync, faults>>

\* A request ends in an error, a fallback or with its process.  One that was building
\* the model gives its lock back, unless its process has gone.
Fails(p) ==
    /\ Fault
    /\ poll[p].at # "idle"
    /\ Done(p)
    /\ Degraded(p) \/ UNCHANGED sync
    /\ \/ UNCHANGED lock
       \/ poll[p].at \in {"load", "publish"} /\ lock = p /\ lock' = NoOne
    /\ UNCHANGED <<inventory, outboxVars, model, raw>>

Building(p) == poll[p].at \in {"load", "publish"}

\* A lock running out on a request that is still building counts as a fault.
LockExpires ==
    /\ lock # NoOne
    /\ lock' = NoOne
    /\ IF Building(lock) THEN Fault ELSE UNCHANGED faults
    /\ UNCHANGED <<inventory, outboxVars, model, raw, clientVars>>

\* expire.lua, again while a batch leaves holds to sweep.  A model that is unusable is
\* rebuilt once; then the answer is degraded.
Expire(p) ==
    /\ poll[p].at = "expire"
    /\ \/ /\ model.state = "ready"
          /\ \E batch \in SUBSET Lapsed :
                /\ \/ batch = Lapsed /\ Cardinality(batch) <= ExpiryBatch
                   \/ Cardinality(batch) = ExpiryBatch
                /\ model' \in Trims(Synced(model, batch, raw))
                /\ IF batch = Lapsed THEN Go(p, "read") ELSE UNCHANGED poll
          /\ UNCHANGED sync
       \/ /\ model.state # "ready"
          /\ model' = Invalidated
          /\ IF ~poll[p].rebuilt
             THEN /\ poll' = [poll EXCEPT ![p].at = "acquire", ![p].rebuilt = TRUE]
                  /\ UNCHANGED sync
             ELSE Done(p) /\ Degraded(p)
    /\ UNCHANGED <<inventory, outboxVars, raw, lock, faults>>

RowOf(s) ==
    LET status == model.formal[s].status
        sale == status = "AVAILABLE"
    IN  [status |-> status,
         owner |-> IF sale /\ s \notin Lapsed THEN model.holds[s] ELSE NoOne,
         hidden |-> sale /\ s \in Lapsed]

\* The cursor points into the stream; one that trimming has overtaken does not.
Follows(p) ==
    sync[p].generation = model.generation /\ sync[p].cursor > model.trimmed

\* The changes behind the cursor that one answer covers, and the seats they name.
DeltaLength(p) ==
    LET behind == LastId(model) - sync[p].cursor
    IN  IF behind <= DeltaLimit THEN behind ELSE DeltaLimit

SeatsBetween(from, to) == {model.changes[i - model.trimmed] : i \in from + 1..to} \ {NoOne}

Delta(p) ==
    LET to == sync[p].cursor + DeltaLength(p)
        S == SeatsBetween(sync[p].cursor, to)
    IN  [generation |-> model.generation, cursor |-> to,
         view |-> [s \in Seats |-> IF s \in S THEN RowOf(s) ELSE sync[p].view[s]]]

Snapshot ==
    [generation |-> model.generation, cursor |-> LastId(model), view |-> [s \in Seats |-> RowOf(s)]]

\* read.lua, and the client taking in the answer.
Read(p) ==
    /\ poll[p].at = "read"
    /\ \/ /\ model.state = "ready"
          /\ IF p \in Followers
             THEN sync' = [sync EXCEPT ![p] = IF Follows(p) THEN Delta(p) ELSE Snapshot]
             ELSE UNCHANGED sync
          /\ UNCHANGED model
       \/ /\ model.state # "ready"
          /\ model' = Invalidated
          /\ Degraded(p)
    /\ Done(p)
    /\ UNCHANGED <<inventory, outboxVars, raw, lock, faults>>

-----------------------------------------------------------------------------
Projection ==
    \/ \E s \in Traded, status \in Statuses : ChangeStatus(s, status)
    \/ \E w \in Workers : Claim(w) \/ Finish(w) \/ WorkerCrashes(w)
    \/ \E w \in Workers : \E e \in todo[w] : Apply(w, e)
    \/ \E w \in Workers, e \in Event : Leave(w, e)
    \/ \E e \in queued : LeaseRunsOut(e)

Redis ==
    \/ \E o \in Owners, S \in SUBSET Seats : HoldScript(o, S)
    \/ \E s \in Seats : HoldElapses(s)
    \/ Flush \/ Damage \/ LockExpires

Polling == \E p \in Polls :
    \/ Acquire(p) \/ GiveUp(p) \/ Load(p) \/ Publish(p)
    \/ Fails(p) \/ Expire(p) \/ Read(p)

Next == Projection \/ Redis \/ Polling

\* The timer starts round after round, scripts and statements are answered, a lease and
\* the init lock run out; nothing makes a client poll or an order change a seat.
Fairness ==
    /\ \A w \in Workers : WF_vars(Claim(w) \/ Finish(w) \/ \E e \in todo[w] : Apply(w, e))
    /\ WF_vars(\E e \in queued : LeaseRunsOut(e))
    /\ \A p \in Polls : WF_vars(Load(p)) /\ WF_vars(Publish(p))
    /\ WF_vars(LockExpires)

Spec == Init /\ [][Next]_vars
LiveSpec == Spec /\ Fairness

-----------------------------------------------------------------------------
TypeOK ==
    /\ inventory \in [Seats -> Formal]
    /\ queued \subseteq Event
    /\ lease \in [Event -> [by : Workers \cup {NoOne}, over : BOOLEAN]]
    /\ todo \in [Workers -> SUBSET Event]
    /\ answer \in [Workers -> SUBSET [event : Event, remove : BOOLEAN]]
    /\ model \in [state : {"absent", "ready", "damaged"}, generation : Generations,
                  formal : [Seats -> Formal], holds : [Seats -> Owner],
                  summary : [Statuses -> 0..Cardinality(Seats)],
                  changes : Seq(Seats \cup {NoOne}), trimmed : Nat]
    /\ raw \in [Seats -> Owner]
    /\ lock \in Polls \cup {NoOne}
    /\ poll \in [Polls -> [at : {"idle", "acquire", "load", "publish", "expire", "read"},
                           rows : [Seats -> Formal], rebuilt : BOOLEAN]]
    /\ sync \in [Polls -> [generation : Generations, cursor : Nat, view : [Seats -> Row]]]
    /\ faults \in 0..MaxFaults

\* A seat whose row in a usable model is out of date has the missing change in the
\* outbox: neither an initializer that read the inventory before the change nor a
\* worker that found no model can lose it.
NoChangeIsLost ==
    model.state = "ready" =>
        \A s \in Seats : model.formal[s] # inventory[s] =>
            [seat |-> s, status |-> inventory[s].status, version |-> inventory[s].version]
                \in queued

\* What customers see of a seat's formal state never goes back to an earlier one, not
\* by events applied twice or out of order, nor by a rebuild from rows read earlier.
NeverGoesBack ==
    [][\A s \in Seats : model'.formal[s].version >= model.formal[s].version]_vars

\* What scripts move bit by bit stays what a recount would give: the counters are the
\* counts of the rows, and the holds of a usable model are those of Redis, or have run
\* out and await a sweep; those changed while the model was being built are in it too.
HoldsAndCountsAgree ==
    model.state = "ready" =>
        /\ model.summary = Counted(model.formal, model.holds)
        /\ \A s \in Seats : raw[s] # NoOne => model.holds[s] = raw[s]

\* The rows of a client that nothing after its cursor is going to patch.
Settled(p) ==
    IF model.state = "ready" /\ Follows(p)
    THEN Seats \ SeatsBetween(sync[p].cursor, LastId(model))
    ELSE {}

Shows(p, s) ==
    LET row == sync[p].view[s] IN
    /\ row.status = model.formal[s].status
    /\ row.status = "AVAILABLE" => row.owner = model.holds[s]

\* A client that patches its view by deltas sees what a new snapshot would show it, in
\* every row no later change names: through paging, deduplication, trimming and
\* rebuilds, and for the owner of a hold as for others.  Left aside are rows sent in
\* the instant between a hold's end and its sweep.
DeltasMissNothing ==
    \A p \in Polls : \A s \in Settled(p) : Shows(p, s) \/ sync[p].view[s].hidden

\* The same of every row.
EveryRowIsPatched == \A p \in Polls : \A s \in Settled(p) : Shows(p, s) \/ s \in Lapsed

Pending(s) == \E e \in queued : e.seat = s

\* Once orders leave a seat alone (MaxVersion bounds its changes) the outbox has nothing
\* about it: no change is forgotten with the worker that had it or put off for ever.
EveryChangeIsProjected == \A s \in Traded : Pending(s) ~> ~Pending(s)

\* Every change reaches the read model, and none takes it back to an older state.
ChangesArriveForward == NeverGoesBack /\ EveryChangeIsProjected
=============================================================================
