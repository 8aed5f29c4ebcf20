----------------------------- MODULE WaitingRoom -----------------------------
(***************************************************************************)
(* The waiting room before the sale of an event                            *)
(* (src/backend/src/admission). Its policy is a row of PostgreSQL; its     *)
(* places are keys of Redis that belong to a generation and are changed by *)
(* one script (waiting_room.lua). Every instance of the backend copies the *)
(* policy, projects it to Redis, lets waiting users in, and passes requests*)
(* on with the policy it knows (AdmissionRuntime.cpp, AdmissionService.cpp)*)
(* When Redis has lost its data the generation is to be replaced.          *)
(***************************************************************************)
EXTENDS Naturals, FiniteSets, SequencesExt

CONSTANTS
    Users,       \* the users, numbered in the order of their scores
    Instances,   \* the instances of the backend
    Modes,       \* the modes an administrator chooses from
    Capacity,    \* max_active_users
    Batch,       \* how many a tick cleans up and looks at
    MaxTokens,   \* the most that a tick may let in
    MaxVersion,  \* bound on the versions that administrators write
    MaxFaults    \* bound on failures, dead instances and losses

ConstantsAssumption ==
    /\ Users \subseteq Nat /\ IsFiniteSet(Users)
    /\ Modes \subseteq {"OFF", "OBSERVE", "PAUSED", "ENFORCED"}
    /\ Capacity \in Nat \ {0} /\ Batch \in Nat \ {0} /\ MaxTokens \in Nat \ {0}
    /\ MaxVersion \in Nat /\ MaxFaults \in Nat

VARIABLES
    clock,      \* what the time is
    log,        \* the policy row in its versions, the last one is stored
    marked,     \* admission_runtime_generations: what was initialized
    runtime,    \* the version that Redis has, 0 if none
    scheduled,  \* the event is in the index of due rooms
    prequeue,   \* those who joined before the sale
    waiting,    \* those who joined since, in their order
    presence,   \* per user: "none", "alive" or "lapsed"
    lease,      \* per user, alike
    paused,     \* the key that pauses the releases
    snapshot,   \* per instance the version it knows
    ready,      \* per instance: redisReady of that version
    dirty,      \* per instance: the copy was invalidated
    moved,      \* per instance: and that during its refresh
    doing,      \* per instance what its thread is at
    rows,       \* per instance the version its refresh has read
    owing,      \* instances that committed a PUT and have not answered it
    offered,    \* the versions with which requests were begun
    faults,
    since,      \* history: per user the version it joined under
    lost        \* history: the losses of Redis' data, by their generation

room == <<prequeue, waiting, presence, lease, since>>
redis == <<runtime, scheduled, room, paused>>
copies == <<snapshot, ready, dirty, moved, doing, rows, owing, offered>>
vars == <<clock, log, marked, redis, copies, faults, lost>>

Mode(v) == IF v = 0 THEN "OFF" ELSE log[v].mode
Gen(v) == IF v = 0 THEN 0 ELSE log[v].gen
Latest == Len(log)

(* qualificationNamespace and rotatesGeneration.                           *)
Namespace(mode) ==
    CASE mode = "OFF" -> "None" [] mode = "OBSERVE" -> "Shadow" [] OTHER -> "Formal"

Mutant_FromOff(old, new) == Namespace(new) # "None" /\ Namespace(old) = "None"
Mutant_WithTheMode(old, new) == Namespace(new) # "None" /\ new # old
Rotates(old, new) == Namespace(new) # "None" /\ Namespace(new) # Namespace(old)

States == {"none", "alive", "lapsed"}
Places == {"idle", "sync", "bootstrap", "reset", "mark", "offer", "hide", "tick"}

TypeOK ==
    /\ clock \in {"closed", "prequeue", "sale", "ended"}
    /\ log \in Seq([mode : Modes, gen : Nat]) /\ marked \in 0 .. Latest
    /\ runtime \in 0 .. Latest /\ scheduled \in BOOLEAN /\ paused \in BOOLEAN
    /\ prequeue \subseteq Users /\ waiting \in Seq(Users)
    /\ presence \in [Users -> States] /\ lease \in [Users -> States]
    /\ snapshot \in [Instances -> 0 .. Latest] /\ rows \in [Instances -> 0 .. Latest]
    /\ ready \in [Instances -> BOOLEAN] /\ dirty \in [Instances -> BOOLEAN]
    /\ moved \in [Instances -> BOOLEAN] /\ doing \in [Instances -> Places]
    /\ owing \subseteq Instances /\ offered \subseteq 1 .. Latest
    /\ faults \in 0 .. MaxFaults
    /\ since \in [Users -> 0 .. Latest] /\ lost \subseteq [gen : 1 .. Latest, taken : BOOLEAN, settled : BOOLEAN]

Init ==
    /\ clock \in {"closed", "sale"} /\ log = <<>> /\ marked = 0
    /\ runtime = 0 /\ scheduled = FALSE /\ paused = FALSE
    /\ prequeue = {} /\ waiting = <<>>
    /\ presence = [u \in Users |-> "none"] /\ lease = [u \in Users |-> "none"]
    /\ snapshot = [i \in Instances |-> 0] /\ ready = [i \in Instances |-> FALSE]
    /\ dirty = [i \in Instances |-> TRUE] /\ moved = [i \in Instances |-> FALSE]
    /\ doing = [i \in Instances |-> "idle"] /\ rows = [i \in Instances |-> 0]
    /\ owing = {} /\ offered = {} /\ faults = 0
    /\ since = [u \in Users |-> 0] /\ lost = {}

EmptyRoom ==
    /\ prequeue' = {} /\ waiting' = <<>>
    /\ presence' = [u \in Users |-> "none"] /\ lease' = [u \in Users |-> "none"]
    /\ since' = [u \in Users |-> 0]

Go(i, place) == doing' = [doing EXCEPT ![i] = place]
Fault == faults < MaxFaults /\ faults' = faults + 1

-----------------------------------------------------------------------------
(* The administrators (writePolicy), and what follows a PUT that is        *)
(* answered with 200 (AdmissionPolicyController).                          *)

Update(i, mode) ==
    /\ Latest < MaxVersion
    /\ log' = Append(log, [mode |-> mode,
                           gen |-> IF Latest = 0 \/ Rotates(Mode(Latest), mode)
                                   THEN Latest + 1 ELSE Gen(Latest)])
    /\ owing' = owing \union {i}
    /\ UNCHANGED <<clock, marked, redis, snapshot, ready, dirty, moved, doing, rows,
                   offered, faults, lost>>

Invalidate(i) ==
    /\ i \in owing /\ owing' = owing \ {i}
    /\ dirty' = [dirty EXCEPT ![i] = TRUE]
    /\ moved' = [moved EXCEPT ![i] = doing[i] \notin {"idle", "tick"}]
    /\ UNCHANGED <<clock, log, marked, redis, snapshot, ready, doing, rows, offered,
                   faults, lost>>

-----------------------------------------------------------------------------
(* A refresh: the rows are read, the policy is brought to Redis, and the   *)
(* copy is replaced unless it was invalidated meanwhile.                   *)

RefreshEnds(i) ==
    /\ Go(i, "idle")
    /\ rows' = [rows EXCEPT ![i] = 0] /\ moved' = [moved EXCEPT ![i] = FALSE]

Read(i) ==
    /\ doing[i] = "idle"
    /\ Go(i, IF Mode(Latest) = "OFF" \/ clock = "ended" THEN "hide"
             ELSE IF marked # Gen(Latest) THEN "bootstrap" ELSE "sync")
    /\ rows' = [rows EXCEPT ![i] = Latest]
    /\ UNCHANGED <<clock, log, marked, redis, snapshot, ready, dirty, moved, owing, offered,
                   faults, lost>>

Stale(i) == runtime > rows[i]
Mutant_NeverMissing(i) == FALSE
Missing(i) == runtime = 0 /\ doing[i] # "bootstrap"

(* The keys of another generation are never used again.                    *)
Project(i) ==
    /\ ~Stale(i) /\ ~Missing(i)
    /\ runtime' = rows[i]
    /\ IF Gen(runtime) # Gen(rows[i]) THEN EmptyRoom ELSE UNCHANGED room
    /\ UNCHANGED <<scheduled, paused>>

Refreshing == <<clock, log, marked, snapshot, ready, dirty, moved, rows, owing, offered, lost>>

Sync(i) ==
    /\ doing[i] \in {"sync", "bootstrap"}
    /\ \/ Stale(i) /\ Go(i, "hide") /\ UNCHANGED redis
       \/ Missing(i) /\ ~Stale(i) /\ Go(i, "reset") /\ UNCHANGED redis
       \/ Project(i) /\ Go(i, IF doing[i] = "bootstrap" THEN "mark" ELSE "offer")
    /\ UNCHANGED <<Refreshing, faults>>

(* Redis is not reached, or its answer is not.                             *)
SyncUnanswered(i) ==
    /\ doing[i] \in {"sync", "bootstrap"} /\ Fault
    /\ Project(i) \/ UNCHANGED redis
    /\ Go(i, "hide")
    /\ UNCHANGED Refreshing

(* reset(): another generation, if the row is still the one that was read. *)
Reset(i) ==
    /\ doing[i] = "reset" /\ Go(i, "hide")
    /\ log' = IF rows[i] = Latest
              THEN Append(log, [mode |-> Mode(Latest), gen |-> Latest + 1]) ELSE log
    /\ UNCHANGED <<clock, marked, redis, snapshot, ready, dirty, moved, rows, owing,
                   offered, faults, lost>>

Mark(i) ==
    /\ doing[i] = "mark" /\ Go(i, "offer")
    /\ marked' = IF rows[i] = Latest THEN Gen(Latest) ELSE marked
    /\ UNCHANGED <<clock, log, redis, snapshot, ready, dirty, moved, rows, owing,
                   offered, faults, lost>>

(* The index is repaired, and the copy is published.                       *)
Publish(i) ==
    LET good == doing[i] = "offer" IN
    /\ doing[i] \in {"offer", "hide"} /\ RefreshEnds(i)
    /\ scheduled' = (scheduled \/ good)
    /\ IF moved[i] THEN UNCHANGED <<snapshot, ready, dirty, offered>>
       ELSE /\ snapshot' = [snapshot EXCEPT ![i] = rows[i]]
            /\ ready' = [ready EXCEPT ![i] = good]
            /\ dirty' = [dirty EXCEPT ![i] = FALSE]
            /\ offered' = IF good THEN offered \union {rows[i]} ELSE offered
    /\ UNCHANGED <<clock, log, marked, runtime, room, paused, owing, faults, lost>>

(* PostgreSQL fails, which refresh() throws.                               *)
RefreshFails(i) ==
    /\ doing[i] \in {"sync", "bootstrap", "reset", "mark", "offer", "hide"} /\ Fault
    /\ RefreshEnds(i) /\ dirty' = [dirty EXCEPT ![i] = TRUE]
    /\ UNCHANGED <<clock, log, marked, redis, snapshot, ready, owing, offered, lost>>

-----------------------------------------------------------------------------
(* A tick of an instance: lapsed places are cleaned up, then those in      *)
(* front are let in, as far as there are tokens and capacity.              *)

Lapsed(f) == {u \in Users : f[u] = "lapsed"}
Some(set) == {s \in SUBSET set : Cardinality(s) = Batch \/ (s = set /\ Cardinality(s) < Batch)}

(* By ranks, which can be reasoned about: the n-th member of a set, a set  *)
(* in its order, and what is left of a queue when somebody is gone.        *)
Nth(set, n) == CHOOSE x \in set : Cardinality({y \in set : y <= x}) = n

InOrder(set) == [n \in 1 .. Cardinality(set) |-> Nth(set, n)]

Without(queue, gone) ==
    LET kept == {m \in DOMAIN queue : queue[m] \notin gone}
    IN  [n \in 1 .. Cardinality(kept) |-> queue[Nth(kept, n)]]

Mutant_LatestFirst(pre, wait) == wait \o InOrder(pre)
Line(pre, wait) == InOrder(pre) \o wait

Drop(gone, pre, wait) ==
    /\ prequeue' = pre \ gone
    /\ waiting' = Without(wait, gone)

Releasing == clock = "sale" /\ Mode(runtime) \notin {"OFF", "PAUSED"} /\ ~paused

(* With so many tokens, those who are looked at after the clean-up.        *)
LookedAt(line, alive, active, tokens) ==
    {line[m] : m \in {n \in 1 .. Len(line) :
        /\ n <= Batch
        /\ LET before == {line[k] : k \in 1 .. n - 1} \intersect alive
           IN  Cardinality(before) < tokens /\ Cardinality(active \union before) < Capacity}}

Script(tokens) ==
    \E p \in Some(Lapsed(presence)), l \in Some(Lapsed(lease)) :
        LET dead == p \union l
            line == Without(Line(prequeue, waiting), dead)
            alive == {u \in Users \ dead : presence[u] = "alive"}
            active == {u \in Users \ dead : lease[u] # "none"}
            seen == IF Releasing THEN LookedAt(line, alive, active, tokens) ELSE {}
            in == seen \intersect alive
        IN /\ Drop(dead \union seen, prequeue, waiting)
           /\ presence' = [u \in Users |-> IF u \in dead \union seen THEN "none" ELSE presence[u]]
           /\ lease' = [u \in Users |-> CASE u \in in -> "alive"
                                          [] u \in (dead \union seen) \ in -> "none"
                                          [] OTHER -> lease[u]]
           /\ since' = [u \in Users |-> IF u \in (dead \union seen) \ in THEN 0 ELSE since[u]]

TickBegins(i) ==
    /\ doing[i] = "idle" /\ ~dirty[i] /\ ready[i] /\ clock # "ended" /\ scheduled
    /\ Go(i, "tick")
    /\ UNCHANGED <<clock, log, marked, redis, snapshot, ready, dirty, moved, rows, owing,
                   offered, faults, lost>>

Tick(i, tokens) ==
    /\ doing[i] = "tick" /\ runtime = snapshot[i]
    /\ Script(tokens) /\ Go(i, "idle")
    /\ UNCHANGED <<clock, log, marked, runtime, scheduled, paused, snapshot, ready, dirty,
                   moved, rows, owing, offered, faults, lost>>

(* RESET_REQUIRED, or Redis does not answer: redisUnavailable().           *)
RedisUnavailable(i) ==
    /\ ready' = [ready EXCEPT ![i] = FALSE] /\ Go(i, "idle")
    /\ UNCHANGED <<clock, log, marked, runtime, scheduled, paused, snapshot, dirty, moved,
                   rows, owing, offered, lost>>

TickRefused(i) ==
    /\ doing[i] = "tick" /\ runtime # snapshot[i]
    /\ RedisUnavailable(i) /\ UNCHANGED <<room, faults>>

TickFails(i) ==
    /\ doing[i] = "tick" /\ runtime = snapshot[i] /\ Fault
    /\ Script(MaxTokens) \/ UNCHANGED room
    /\ RedisUnavailable(i)

(* An instance that does not serve this room, but serves another one, takes*)
(* it out of the index.                                                    *)
Unschedule(i) ==
    /\ doing[i] = "idle" /\ ~dirty[i] /\ ~ready[i] /\ scheduled
    /\ scheduled' = FALSE
    /\ UNCHANGED <<clock, log, marked, runtime, room, paused, copies, faults, lost>>

(* After an inventory failure the releases pause for five seconds.         *)
Pause(i) ==
    /\ doing[i] = "idle" /\ ~dirty[i] /\ ready[i] /\ ~paused /\ Fault
    /\ paused' = TRUE
    /\ UNCHANGED <<clock, log, marked, runtime, scheduled, room, copies, lost>>

-----------------------------------------------------------------------------
(* The users. A request may have been begun with any version that was      *)
(* offered; the script lets it through only if Redis has that one.         *)

Through == runtime \in offered

Queued(u) == u \in prequeue \/ u \in ToSet(waiting)
Admitted(u) == lease[u] = "alive" /\ clock # "ended"
Joined(u) == presence[u] = "alive" /\ Queued(u)

Join(u) ==
    /\ Through /\ clock \in {"prequeue", "sale"} /\ ~Admitted(u) /\ ~Joined(u)
    /\ LET wait == Without(waiting, {u})
       IN IF clock = "prequeue"
          THEN prequeue' = prequeue \union {u} /\ waiting' = wait
          ELSE prequeue' = prequeue \ {u} /\ waiting' = Append(wait, u)
    /\ presence' = [presence EXCEPT ![u] = "alive"]
    /\ lease' = [lease EXCEPT ![u] = "none"]
    /\ since' = [since EXCEPT ![u] = runtime]
    /\ UNCHANGED <<clock, log, marked, runtime, scheduled, paused, copies, faults, lost>>

Leave(u) ==
    /\ Through /\ Namespace(Mode(runtime)) = "Formal"
    /\ Queued(u) \/ presence[u] # "none" \/ lease[u] # "none"
    /\ Drop({u}, prequeue, waiting)
    /\ presence' = [presence EXCEPT ![u] = "none"]
    /\ lease' = [lease EXCEPT ![u] = "none"]
    /\ since' = [since EXCEPT ![u] = 0]
    /\ UNCHANGED <<clock, log, marked, runtime, scheduled, paused, copies, faults, lost>>

(* No heartbeat came in time.                                              *)
Lapse(u) ==
    /\ \/ /\ presence[u] = "alive" /\ presence' = [presence EXCEPT ![u] = "lapsed"]
          /\ UNCHANGED lease
       \/ /\ lease[u] = "alive" /\ lease' = [lease EXCEPT ![u] = "lapsed"]
          /\ UNCHANGED presence
    /\ UNCHANGED <<clock, log, marked, runtime, scheduled, prequeue, waiting, since, paused,
                   copies, faults, lost>>

-----------------------------------------------------------------------------
(* The world.                                                              *)

ClockTicks ==
    /\ clock # "ended"
    /\ clock' = CASE clock = "closed" -> "prequeue" [] clock = "prequeue" -> "sale"
                  [] clock = "sale" -> "ended"
    /\ UNCHANGED <<log, marked, redis, copies, faults, lost>>

PauseEnds ==
    /\ paused /\ paused' = FALSE
    /\ UNCHANGED <<clock, log, marked, runtime, scheduled, room, copies, faults, lost>>

(* A loss is settled if the generation had been initialized by then, and   *)
(* no refresh still goes by what it has read before.                       *)
Settled == marked = Gen(runtime) /\ \A i \in Instances : doing[i] # "bootstrap"

RedisLosesItsData ==
    /\ Fault /\ runtime # 0
    /\ runtime' = 0 /\ scheduled' = FALSE /\ paused' = FALSE /\ EmptyRoom
    /\ lost' = lost \union {[gen |-> Gen(runtime), settled |-> Settled,
                              taken |-> \E u \in Users : Joined(u) \/ Admitted(u)]}
    /\ UNCHANGED <<clock, log, marked, copies>>

Crash(i) ==
    /\ Fault
    /\ snapshot' = [snapshot EXCEPT ![i] = 0] /\ ready' = [ready EXCEPT ![i] = FALSE]
    /\ dirty' = [dirty EXCEPT ![i] = TRUE] /\ RefreshEnds(i)
    /\ owing' = owing \ {i}
    /\ UNCHANGED <<clock, log, marked, redis, offered, lost>>

-----------------------------------------------------------------------------
LetsIn(i) == \E n \in 1 .. MaxTokens : Tick(i, n)

GoesOn(i) ==
    \/ Sync(i) \/ Reset(i) \/ Mark(i) \/ Publish(i)
    \/ LetsIn(i) \/ Tick(i, 0) \/ TickRefused(i)

Next ==
    \/ \E i \in Instances :
          \/ Read(i) \/ TickBegins(i) \/ GoesOn(i) \/ Invalidate(i)
          \/ SyncUnanswered(i) \/ RefreshFails(i) \/ TickFails(i)
          \/ Unschedule(i) \/ Pause(i) \/ Crash(i)
          \/ \E mode \in Modes : Update(i, mode)
    \/ \E u \in Users : Join(u) \/ Leave(u) \/ Lapse(u)
    \/ ClockTicks \/ PauseEnds \/ RedisLosesItsData

(* The thread of an instance goes on, and comes back to refresh and to tick*)
(* (start, policyRefreshMs, schedulerMs); a tick that is repeated has a    *)
(* token some time, as they are refilled; what was committed is answered,  *)
(* and a pause ends by itself.                                             *)
Fairness ==
    /\ \A i \in Instances :
          /\ WF_vars(GoesOn(i)) /\ SF_vars(Read(i)) /\ SF_vars(TickBegins(i))
          /\ SF_vars(LetsIn(i)) /\ WF_vars(Invalidate(i))
    /\ WF_vars(PauseEnds)

Spec == Init /\ [][Next]_vars /\ Fairness

-----------------------------------------------------------------------------
(* A place or a lease is used only while the namespace has not changed     *)
(* since it was taken, not even for a time (rotatesGeneration).            *)
NamespacesApart ==
    \A u \in Users : since[u] # 0 =>
        \A v \in since[u] .. runtime : Namespace(Mode(v)) = Namespace(Mode(runtime))

(* When Redis has lost somebody's place, the generation it was of is never *)
(* served again (refresh, reset, and MISSING in the script).               *)
LossIsNoticed == \A l \in lost : runtime # 0 /\ l.taken => Gen(runtime) # l.gen

(* At least if the loss was not so early that a refresh still initializes  *)
(* the generation.                                                         *)
SettledLossIsNoticed == \A l \in lost : runtime # 0 /\ l.settled => Gen(runtime) # l.gen

(* Whoever lives in the queue keeps the place until it is let in, leaves or*)
(* is late, or until Redis loses it or the namespace changes (or it was of *)
(* a generation that was lost before); other changes of the policy, other  *)
(* instances and clean-ups leave it alone (sync, tick, PAUSED, ENFORCED).  *)
KeepsPlaces ==
    \A u \in Users : Joined(u) /\ ~Joined(u)' /\ lease'[u] # "alive" =>
        \/ Leave(u) \/ Lapse(u)
        \/ runtime # 0 /\ runtime' = 0
        \/ \E l \in lost : l.gen = Gen(runtime)
        \/ \E v \in runtime .. runtime' : Namespace(Mode(v)') # Namespace(Mode(runtime))

(* Whoever is let in overtakes nobody who lives ahead, nobody has two      *)
(* places, and no lease is given beyond the capacity, those that have run  *)
(* out but are not cleaned up included (tick).                             *)
Ahead(w, u) ==
    \/ w \in prequeue /\ (u \in prequeue => w < u)
    \/ \E m, n \in DOMAIN waiting : m < n /\ waiting[m] = w /\ waiting[n] = u

ReleasesInTurn ==
    \A u \in Users : lease[u] # "alive" /\ lease'[u] = "alive" =>
        /\ \A w \in Users : Joined(w) /\ Ahead(w, u) => ~Joined(w)'
        /\ ~Joined(u)'
        /\ Cardinality({w \in Users : lease'[w] # "none"}) <= Capacity

(* Every instance comes to know the policy that is stored, and whoever     *)
(* lives in the queue is let in when there is room and goes on being room: *)
(* this does not last (refresh, tick).                                     *)
RoomIsOpen ==
    /\ Releasing /\ runtime = Latest
    /\ Cardinality({u \in Users : lease[u] # "none"}) < Capacity

Unserved(u) ==
    \/ \E i \in Instances : snapshot[i] # Latest
    \/ Joined(u) /\ RoomIsOpen
=============================================================================
