----------------------------- MODULE SeatMapRun -----------------------------
(***************************************************************************)
(* The seat-map tools of src/performance/scripts: calibrate_seat_map.py,   *)
(* characterize_seat_map_capacity.py and diagnose_seat_map.py.  Each sends *)
(* its own k6 generator at a backend that is already up and attributes to  *)
(* the load the difference of two readings of the backend's counters.  The *)
(* counters are exported from a snapshot up to five seconds old, the       *)
(* tool's own probes are counted by them too, the backend may restart, and *)
(* the generator is a container that outlives a tool that does not stop it:*)
(* one that is interrupted or killed, or whose docker stop fails.  The end *)
(* of docker's client is taken for that of the container.                  *)
(***************************************************************************)
EXTENDS Naturals

CONSTANTS
    Tools,        \* the tools that are run: "calibrate", "capacity", "diagnose"
    MaxRuns,      \* bound on the runs, one after the other
    MaxRequests,  \* bound on the requests of a run's generator
    MaxFaults     \* bound on restarts, failed commands and broken thresholds

ConstantsAssumption ==
    /\ Tools \subseteq {"calibrate", "capacity", "diagnose"}
    /\ MaxRuns \in Nat /\ MaxRequests \in Nat /\ MaxFaults \in Nat

VARIABLES
    pc, tool, run, \* the tool that runs, the number of its run
    identity,     \* what identity() returned before the load
    before,       \* the counter it wrote to metrics-before.json
    after,        \* the counter and the gauge it wrote to metrics-after.json
    late,         \* the run's deadline has passed
    result,       \* of the last run: "passed", "failed", "error", or "none" as yet, or for ever
    generator,    \* of a run: "none", "starting", "running", "gone"
    sent, finished, open, \* the requests of a run's generator: all, answered, and in the backend
    trouble,      \* requests of the run have failed, or k6 exited with an error
    up, started,  \* the backend answers; how often it was started
    total,        \* ticketing_seat_map_redis_lookup_total, from this start on
    snapshot,     \* what PromExporter exports, and how old that is
    faults,
    startedAt,    \* history: started when the run began
    crowded,      \* history: an earlier generator was alive when the run began
    abandoned     \* history: the runs that were interrupted, or whose generator docker did not stop

Runs == 1..MaxRuns
process == <<pc, tool, run, identity, before, after, late, result, startedAt, crowded, abandoned>>
load == <<generator, sent, finished, open, trouble>>
backend == <<up, started, total, snapshot>>
vars == <<process, load, backend, faults>>

NoSnapshot == [total |-> 0, inFlight |-> 0, age |-> "expired"]

Init ==
    /\ pc = "idle" /\ tool = "none" /\ run = 0
    /\ identity = 0 /\ before = 0 /\ after = NoSnapshot /\ late = FALSE
    /\ result = "none" /\ startedAt = 0 /\ crowded = FALSE /\ abandoned = {}
    /\ generator = [r \in Runs |-> "none"]
    /\ sent = [r \in Runs |-> 0] /\ finished = [r \in Runs |-> 0] /\ open = [r \in Runs |-> 0]
    /\ trouble = [r \in Runs |-> FALSE]
    /\ up = TRUE /\ started = 1 /\ total = 0 /\ snapshot = NoSnapshot
    /\ faults = 0

Fault == faults < MaxFaults /\ faults' = faults + 1

Alive(r) == generator[r] \in {"starting", "running"}

-----------------------------------------------------------------------------
(* The backend, and the exporter of its metrics.                           *)

InFlight == LET Busy == {r \in Runs : open[r] > 0}
            IN IF Busy = {} THEN 0 ELSE 1

(* A reading gets the snapshot unless it is too old, and then makes one.   *)
Reading == IF snapshot.age = "expired"
           THEN [total |-> total, inFlight |-> InFlight, age |-> "live"]
           ELSE snapshot

(* Five seconds pass for a snapshot; Prometheus scrapes the backend too.   *)
Expire ==
    /\ snapshot.age # "expired"
    /\ snapshot' = NoSnapshot
    /\ UNCHANGED <<process, load, up, started, total, faults>>

Scrape ==
    /\ up /\ snapshot.age = "expired"
    /\ snapshot' = Reading
    /\ UNCHANGED <<process, load, up, started, total, faults>>

(* The container restarts: the requests it works on fail, the counters     *)
(* begin at zero again.                                                    *)
Crash ==
    /\ up /\ Fault
    /\ up' = FALSE /\ total' = 0 /\ snapshot' = NoSnapshot
    /\ open' = [r \in Runs |-> 0]
    /\ trouble' = [r \in Runs |-> trouble[r] \/ open[r] > 0]
    /\ UNCHANGED <<process, generator, sent, finished, started>>

Restart ==
    /\ ~up
    /\ up' = TRUE /\ started' = started + 1
    /\ UNCHANGED <<process, load, total, snapshot, faults>>

-----------------------------------------------------------------------------
(* The generator of run r.                                                 *)

Create(r) ==
    /\ generator[r] = "starting"
    /\ generator' = [generator EXCEPT ![r] = "running"]
    /\ UNCHANGED <<process, sent, finished, open, trouble, backend, faults>>

Send(r) ==
    /\ generator[r] = "running" /\ sent[r] < MaxRequests
    /\ sent' = [sent EXCEPT ![r] = @ + 1]
    /\ IF up THEN open' = [open EXCEPT ![r] = @ + 1] /\ UNCHANGED trouble
             ELSE trouble' = [trouble EXCEPT ![r] = TRUE] /\ UNCHANGED open
    /\ UNCHANGED <<process, generator, finished, backend, faults>>

(* The backend ends a request: it looks the holds up in Redis, which is    *)
(* counted, and a lookup that fails makes the answer a failure.  It does   *)
(* so whether or not the generator still waits.                            *)
Answer(r) ==
    /\ up /\ open[r] > 0
    /\ open' = [open EXCEPT ![r] = @ - 1]
    /\ finished' = [finished EXCEPT ![r] = @ + 1]
    /\ total' = total + 1
    /\ \/ UNCHANGED <<trouble, faults>>
       \/ Fault /\ trouble' = [trouble EXCEPT ![r] = TRUE]
    /\ UNCHANGED <<process, generator, sent, up, started, snapshot>>

(* k6 ends its iterations before it exits; one that its graceful stop cuts *)
(* off is reported.                                                        *)
Exit(r) ==
    /\ generator[r] = "running"
    /\ generator' = [generator EXCEPT ![r] = "gone"]
    /\ trouble' = [trouble EXCEPT ![r] = @ \/ open[r] > 0]
    /\ UNCHANGED <<process, sent, finished, open, backend, faults>>

-----------------------------------------------------------------------------
(* The tool.  A step that raises ends it: the tool stops the generator it  *)
(* has started, by the name of a container that may not exist yet, and     *)
(* ignores whether docker could.  The diagnosis stops nothing.             *)

Goto(next) == pc' = next /\ UNCHANGED <<tool, run, result, startedAt, crowded, abandoned>>

(* docker stop, which works only on a container that exists.               *)
Stopped ==
    /\ generator[run] = "running"
    /\ generator' = [generator EXCEPT ![run] = "gone"]
    /\ trouble' = [trouble EXCEPT ![run] = TRUE]
    /\ UNCHANGED abandoned

NotStopped == abandoned' = abandoned \cup {run} /\ UNCHANGED <<generator, trouble>>

Mutant_StopUnlessCapacity ==
    IF tool = "calibrate" /\ Alive(run)
    THEN Stopped \/ NotStopped
    ELSE UNCHANGED <<generator, trouble, abandoned>>

StopGenerator ==
    IF tool # "diagnose" /\ Alive(run)
    THEN Stopped \/ NotStopped
    ELSE UNCHANGED <<generator, trouble, abandoned>>

Raise ==
    /\ pc' = "idle" /\ result' = "error"
    /\ StopGenerator
    /\ UNCHANGED <<tool, run, startedAt, crowded, identity, before, after, late,
                   sent, finished, open>>

(* An interrupt is no Exception, a signal may end the process at once: the *)
(* manifest gets no result, what the process has read is gone with it, and *)
(* nobody stops the generator.                                             *)
Interrupt ==
    /\ pc # "idle"
    /\ pc' = "idle" /\ result' = "none" /\ abandoned' = abandoned \cup {run}
    /\ before' = 0 /\ after' = NoSnapshot /\ late' = FALSE
    /\ UNCHANGED <<tool, run, identity, startedAt, crowded, load, backend, faults>>

Begin(t) ==
    /\ pc = "idle" /\ run < MaxRuns
    /\ tool' = t /\ run' = run + 1
    /\ pc' = IF t = "diagnose" THEN "probe" ELSE "prepare"
    /\ identity' = started /\ startedAt' = started
    /\ crowded' = \E r \in Runs : Alive(r) \/ open[r] > 0
    /\ result' = "none" /\ before' = 0 /\ after' = NoSnapshot /\ late' = FALSE
    /\ UNCHANGED <<abandoned, load, backend, faults>>

(* prepare_profile(), the check of the formal inventory and the fixture of *)
(* holds, which reads the seat map once.                                   *)
Prepare ==
    /\ pc = "prepare"
    /\ IF up THEN \/ total' = total + 1 /\ Goto("probe") /\ UNCHANGED <<load, faults>>
                  \/ Fault /\ Raise /\ UNCHANGED total
             ELSE Raise /\ UNCHANGED <<total, faults>>
    /\ UNCHANGED <<identity, before, after, late, up, started, snapshot>>

(* gzip_probe() reads the seat map; the two tools then let the snapshot    *)
(* grow old.                                                               *)
Quieten == snapshot' = IF tool # "diagnose" /\ snapshot.age = "live"
                       THEN [snapshot EXCEPT !.age = "old"] ELSE snapshot

Probe ==
    /\ pc = "probe"
    /\ IF up THEN /\ total' = total + 1 /\ Quieten
                  /\ Goto(IF tool = "diagnose" THEN "baseline" ELSE "quiet") /\ UNCHANGED load
             ELSE Raise /\ UNCHANGED <<total, snapshot>>
    /\ UNCHANGED <<identity, before, after, late, up, started, faults>>

(* After six seconds no snapshot from before them is left.                 *)
Mutant_NoQuietPeriod ==
    /\ pc \in {"quiet", "drained"}
    /\ Goto(IF pc = "quiet" THEN "baseline" ELSE "after")
    /\ UNCHANGED <<identity, before, after, late, load, up, started, snapshot, total, faults>>

QuietPeriod ==
    /\ pc \in {"quiet", "drained"}
    /\ snapshot' = IF snapshot.age = "old" THEN NoSnapshot ELSE snapshot
    /\ Goto(IF pc = "quiet" THEN "baseline" ELSE "after")
    /\ UNCHANGED <<identity, before, after, late, load, up, started, total, faults>>

(* check_safety(): the working set, /health and Redis.                     *)
Unsafe == tool # "diagnose" /\ Fault

Baseline ==
    /\ pc = "baseline"
    /\ IF ~up THEN Raise /\ UNCHANGED <<snapshot, faults>>
       ELSE /\ snapshot' = Reading
            /\ IF Reading.inFlight # 0 THEN Raise /\ UNCHANGED faults
               ELSE \/ Goto("before") /\ UNCHANGED <<load, faults>>
                    \/ Unsafe /\ Raise
    /\ UNCHANGED <<identity, before, after, late, up, started, total>>

Before ==
    /\ pc = "before"
    /\ IF up THEN /\ snapshot' = Reading /\ before' = Reading.total
                  /\ Goto("launch") /\ UNCHANGED load
             ELSE Raise /\ UNCHANGED <<snapshot, before>>
    /\ UNCHANGED <<identity, after, late, up, started, total, faults>>

Launch ==
    /\ pc = "launch"
    /\ generator' = [generator EXCEPT ![run] = "starting"]
    /\ Goto("loop")
    /\ UNCHANGED <<identity, before, after, late, sent, finished, open, trouble, backend, faults>>

Deadline ==
    /\ pc = "loop" /\ ~late
    /\ late' = TRUE
    /\ UNCHANGED <<pc, tool, run, identity, before, after, result, startedAt, crowded, abandoned,
                   load, backend, faults>>

(* A turn of the loop.  A diagnosis records that it could not sample; the  *)
(* others give up, the capacity run also when the generator is late.       *)
Gives == tool # "diagnose" /\ ~up
Mutant_NeverOverdue == FALSE
Overdue == tool = "capacity" /\ late /\ Alive(run)

Sample ==
    /\ pc = "loop"
    /\ snapshot' = IF up THEN Reading ELSE snapshot
    /\ IF Gives \/ Overdue THEN Raise /\ UNCHANGED faults
       ELSE Unsafe /\ Raise
    /\ UNCHANGED <<identity, before, after, late, up, started, total>>

(* A long capacity run stops its generator when lookups were refused or    *)
(* failed; a docker stop that fails raises.                                *)
EarlyStop ==
    /\ pc = "loop" /\ tool = "capacity" /\ up /\ ~Overdue
    /\ trouble[run] /\ Alive(run)
    /\ snapshot' = Reading
    /\ \/ Stopped /\ UNCHANGED <<pc, tool, run, identity, before, after, late, result,
                                 startedAt, crowded, sent, finished, open>>
       \/ Raise
    /\ UNCHANGED <<up, started, total, faults>>

LoadEnded ==
    /\ pc = "loop" /\ ~Gives /\ ~Alive(run)
    /\ snapshot' = LET read == IF up THEN Reading ELSE snapshot
                   IN IF tool = "diagnose" THEN read ELSE [read EXCEPT !.age = "old"]
    /\ Goto(IF tool = "diagnose" THEN "after" ELSE "drained")
    /\ UNCHANGED <<identity, before, after, late, load, up, started, total, faults>>

(* A counter below its first value was reset.                              *)
After ==
    /\ pc = "after"
    /\ IF up /\ Reading.total >= before
       THEN after' = Reading /\ Goto("judge") /\ UNCHANGED load
       ELSE Raise
    /\ snapshot' = IF up THEN Reading ELSE snapshot
    /\ UNCHANGED <<identity, before, late, up, started, total, faults>>

SameBackend == tool = "capacity" => up /\ started = identity
Drained == tool # "diagnose" => after.inFlight = 0

(* The gates: k6 and the verifier exit with zero, nothing was dropped or   *)
(* failed, the compute queue and the requests in flight are at zero.  The  *)
(* diagnosis looks at the exit codes only.                                 *)
Judge ==
    /\ pc = "judge"
    /\ pc' = "idle"
    /\ result' = CASE ~SameBackend -> "error"
                   [] SameBackend /\ Drained /\ ~trouble[run] -> "passed"
                   [] OTHER -> "failed"
    /\ UNCHANGED <<tool, run, identity, before, after, late, startedAt, crowded, abandoned,
                   load, backend, faults>>

Main == Prepare \/ Probe \/ QuietPeriod \/ Baseline \/ Before \/ Launch \/ Sample \/ EarlyStop
        \/ LoadEnded \/ After \/ Judge

Next ==
    \/ Expire \/ Scrape \/ Crash \/ Restart
    \/ \E r \in Runs : Create(r) \/ Send(r) \/ Answer(r) \/ Exit(r)
    \/ \E t \in Tools : Begin(t)
    \/ Main
    \/ Deadline
    \/ Interrupt

(* The tool's commands return and time passes; the generator, the backend  *)
(* and docker may take for ever.                                           *)
Spec == Init /\ [][Next]_vars /\ WF_vars(Main) /\ WF_vars(Deadline)

-----------------------------------------------------------------------------
(* The difference a passed run reports is its load, all of it and nothing  *)
(* else: not the tool's own probes, no request still unanswered, none from *)
(* a backend that was started in between (calibrate_seat_map.py does not   *)
(* compare identities, nor does either tool look for another generator).   *)
WindowIsTheLoads ==
    result = "passed" /\ tool # "diagnose" /\ ~crowded
      /\ (tool = "capacity" \/ (up /\ started = startedAt)) =>
        /\ finished[run] = sent[run]
        /\ after.total - before = finished[run]

(* A generator that is alive is watched by the tool that started it, in    *)
(* the loop that ends only with the generator (calibrate_seat_map.py,      *)
(* characterize_seat_map_capacity.py, diagnose_seat_map.py): whatever else *)
(* fails, no later step of its run and no later run comes upon it, unless  *)
(* its tool was interrupted or docker did not stop it.                     *)
LoadStopsWithTheTool ==
    \A r \in Runs : Alive(r) /\ r \notin abandoned => r = run /\ pc = "loop"
=============================================================================
