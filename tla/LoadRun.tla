------------------------------ MODULE LoadRun ------------------------------
(***************************************************************************)
(* One execution of the two-host load test (src/performance/scripts).      *)
(* A coordinator on the load host restores the system under test,          *)
(* starts one k6 generator per unit, releases them at a fixed time,        *)
(* watches them and judges the evidence (run_phase14.py, execute_case).    *)
(* Beside it run a thread that samples while the units initialize          *)
(* (phase14_initialization.py), a thread that samples PostgreSQL           *)
(* (phase14_sampling.py), the generators themselves, which are containers  *)
(* that go on whatever the coordinator does, and the clock.                *)
(*                                                                         *)
(* The run may be of a "core" campaign (phase14_core.py: a guard interval  *)
(* between the deadline for readiness and the release, and an abort in     *)
(* it), of a "formal" one or of a "smoke" one.                             *)
(***************************************************************************)
EXTENDS Naturals, FiniteSets

CONSTANTS
    N,          \* number of units, which are started in the order 1 .. N
    Modes,      \* the campaigns this instance looks at
    CallsFail,  \* a command, query or request of the coordinator may fail
    StopsFail,  \* so may the commands that stop the generators
    SlowStart   \* a container may not exist yet when it is inspected

ASSUME ConstantsAssumption ==
    /\ N \in Nat \ {0}
    /\ Modes \subseteq {"core", "formal", "smoke"}
    /\ CallsFail \in BOOLEAN
    /\ StopsFail \in BOOLEAN
    /\ SlowStart \in BOOLEAN

VARIABLES
    mode,      \* the campaign of this run
    clock,     \* "init", then "guard" (core only), "business" and "late"
    pc,        \* where the coordinator is
    database,  \* "used", "partial" (a restore was cut off) or "baseline"
    gen,       \* the life of each generator
    started,   \* how many units were started
    ready,     \* how many units were seen ready, in order
    watcher,   \* the thread that samples during initialization
    leaving,   \* its stop event
    failing,   \* an exception is on its way through the with block
    light,     \* the PostgreSQL sampler
    host,      \* "unsafe" once a limit of the stop rules is exceeded
    faulty,    \* a request ended in a system error
    reasons,   \* stop_reasons
    record,    \* status in initialization.json
    result     \* what the caller gets

vars == <<mode, clock, pc, database, gen, started, ready, watcher, leaving,
          failing, light, host, faulty, reasons, record, result>>

Unit == 1 .. N
Running == {"init", "ready", "load"}
Alive == Running \cup {"starting"}

Core == mode = "core"

Init ==
    /\ mode \in Modes
    /\ clock = "init"
    /\ pc = "reset"
    /\ database = "used"
    /\ gen = [u \in Unit |-> "none"]
    /\ started = 0
    /\ ready = 0
    /\ watcher = "off"
    /\ leaving = FALSE
    /\ failing = FALSE
    /\ light = "off"
    /\ host = "safe"
    /\ faulty = FALSE
    /\ reasons = {}
    /\ record = "none"
    /\ result = "none"

-----------------------------------------------------------------------------
(* What the outside does.                                                  *)

(* The release is armed when the units are about to be started; before     *)
(* that no deadline runs. The abort of a core run is assumed to fit in     *)
(* its guard interval (ABORT_GUARD_SECONDS).                               *)
DeadlineMissed == clock # "init"

Tick ==
    /\ pc \notin {"reset", "calibrate", "warm", "arm", "over"}
    /\ clock' = CASE clock = "init" -> IF Core THEN "guard" ELSE "business"
                  [] clock = "guard" -> "business"
                  [] OTHER -> "late"
    /\ clock # "late"
    /\ clock = "guard" => pc \notin {"launch", "check", "look", "leave", "abort"}
    /\ UNCHANGED <<mode, pc, database, gen, started, ready, watcher, leaving,
                   failing, light, host, faulty, reasons, record, result>>

HostTrouble ==
    /\ host = "safe"
    /\ pc # "over"
    /\ host' = "unsafe"
    /\ UNCHANGED <<mode, clock, pc, database, gen, started, ready, watcher,
                   leaving, failing, light, faulty, reasons, record, result>>

(* The life of a k6 container: it is created, runs its setup and prints    *)
(* its marker, waits for the release, sends its requests and exits.        *)
Moves(u, from, to) ==
    /\ gen[u] = from
    /\ gen' = [gen EXCEPT ![u] = to]

Generator(u) ==
    /\ \/ Moves(u, "starting", "init") /\ UNCHANGED faulty
       \/ Moves(u, "init", "ready") /\ UNCHANGED faulty
       \/ /\ clock \in {"business", "late"}
          /\ Moves(u, "ready", "load")
          /\ UNCHANGED faulty
       \/ Moves(u, "load", "exited") /\ faulty' \in {faulty, TRUE}
       \/ \E from \in Alive : Moves(u, from, "crashed") /\ UNCHANGED faulty
    /\ UNCHANGED <<mode, clock, pc, database, started, ready, watcher, leaving,
                   failing, light, host, reasons, record, result>>

-----------------------------------------------------------------------------
(* Preparation: reset, calibration and warm-up, each of which may raise.   *)

(* An exception that leaves execute_case. A core campaign answers it by    *)
(* stopping the generators of the run once more.                           *)
Raised ==
    /\ result' = "raised"
    /\ pc' = IF Core THEN "caller" ELSE "over"

(* DualEnvironment.reset: stops the clients, restores the snapshot,        *)
(* compares the fingerprint of every table with the baseline, empties      *)
(* Redis and starts the clients again.                                     *)
Reset ==
    /\ pc = "reset"
    /\ \/ database' = "baseline" /\ pc' = "calibrate" /\ UNCHANGED result
       \/ CallsFail /\ database' \in {database, "partial"} /\ Raised
    /\ UNCHANGED <<mode, clock, gen, started, ready, watcher, leaving, failing,
                   light, host, faulty, reasons, record>>

(* calibration and resource_preflight: idle samples, which refuse a host   *)
(* that is not safe.                                                       *)
IdleIsSafe == host = "safe"

Calibrate ==
    /\ pc = "calibrate"
    /\ \/ IdleIsSafe /\ pc' = "warm" /\ UNCHANGED result
       \/ (CallsFail \/ ~ IdleIsSafe) /\ Raised
    /\ UNCHANGED <<mode, clock, database, gen, started, ready, watcher, leaving,
                   failing, light, host, faulty, reasons, record>>

(* Environment.warm, the sentinel hold and the snapshot of the counters.   *)
Warm ==
    /\ pc = "warm"
    /\ \/ pc' = "arm" /\ UNCHANGED result
       \/ CallsFail /\ Raised
    /\ UNCHANGED <<mode, clock, database, gen, started, ready, watcher, leaving,
                   failing, light, host, faulty, reasons, record>>

(* The PostgreSQL sampler and the thread of Initialization are started.    *)
Arm ==
    /\ pc = "arm"
    /\ light' = "sampling"
    /\ watcher' = "sampling"
    /\ pc' = "launch"
    /\ UNCHANGED <<mode, clock, database, gen, started, ready, leaving, failing,
                   host, faulty, reasons, record, result>>

-----------------------------------------------------------------------------
(* Sampling. One sample is clear, shows what exceeds a limit, or raises.   *)

(* DualSampler.sample with the probes of both hosts: it raises when a call *)
(* fails, but not for a generator that exits between its inspection and    *)
(* its statistics.                                                         *)
Samples == {"clear"} \cup (IF CallsFail THEN {"raises"} ELSE {})

(* StopGuard.sample.                                                       *)
GuardReasons == IF host = "unsafe" THEN {"unsafe"} ELSE {}

(* RawProgress.read: the raw points of the error windows that are over,    *)
(* when they have been flushed in time.                                    *)
ProgressReasons == {{}} \cup (IF faulty THEN {{"errors"}} ELSE {})

Observe ==
    /\ watcher = "sampling"
    /\ \E s \in Samples, bad \in ProgressReasons :
         IF s = "raises" THEN watcher' = "failed" /\ UNCHANGED reasons
         ELSE /\ reasons' = reasons \cup GuardReasons \cup bad
              /\ watcher' = IF reasons' # {} THEN "failed"
                            ELSE IF leaving THEN "left" ELSE "sampling"
    /\ leaving' = (leaving \/ watcher' = "failed")
    /\ UNCHANGED <<mode, clock, pc, database, gen, started, ready, failing,
                   light, host, faulty, record, result>>

(* LightPostgresSampler._run reads until it is told to stop or fails.      *)
LightFails ==
    /\ CallsFail
    /\ light = "sampling"
    /\ light' = "failed"
    /\ UNCHANGED <<mode, clock, pc, database, gen, started, ready, watcher,
                   leaving, failing, host, faulty, reasons, record, result>>

-----------------------------------------------------------------------------
(* Initialization.                                                         *)

Fails ==
    /\ failing' = TRUE
    /\ pc' = "leave"

(* start_generator and register: the serial modes wait for each unit       *)
(* before the next is started, a smoke run waits for all at the end.       *)
Serial == mode # "smoke"

Launch ==
    /\ pc = "launch"
    /\ \/ /\ started < N
          /\ gen' = [gen EXCEPT ![started + 1] =
                       IF SlowStart THEN "starting" ELSE "init"]
          /\ started' = started + 1
          /\ pc' = IF Serial \/ started' = N THEN "check" ELSE "launch"
          /\ UNCHANGED failing
       \/ CallsFail /\ Fails /\ UNCHANGED <<gen, started>>
    /\ UNCHANGED <<mode, clock, database, ready, watcher, leaving, light, host,
                   faulty, reasons, record, result>>

(* The first half of a round of Initialization.wait: the sampler, the      *)
(* process and the deadline are looked at ...                              *)
Check ==
    /\ pc = "check"
    /\ IF watcher = "failed" \/ gen[ready + 1] \notin Alive \/ DeadlineMissed
       THEN Fails
       ELSE pc' = "look" /\ UNCHANGED failing
    /\ UNCHANGED <<mode, clock, database, gen, started, ready, watcher, leaving,
                   light, host, faulty, reasons, record, result>>

(* ... and then the log of the unit is searched for the marker.            *)
Marked(u) == gen[u] \notin {"none", "starting", "init"}

Look ==
    /\ pc = "look"
    /\ IF Marked(ready + 1)
       THEN /\ ready' = ready + 1
            /\ pc' = IF ready' = N THEN "leave"
                     ELSE IF ready' = started THEN "launch" ELSE "check"
       ELSE pc' = "check" /\ UNCHANGED ready
    /\ UNCHANGED <<mode, clock, database, gen, started, watcher, leaving,
                   failing, light, host, faulty, reasons, record, result>>

(* stop_generators: the containers that can be inspected and run are       *)
(* stopped; one that does not exist is passed over.                        *)
Mutant_StopLoaded ==
    gen' = [u \in Unit |-> IF gen[u] = "load" THEN "stopped" ELSE gen[u]]

StopGenerators ==
    gen' = [u \in Unit |-> IF gen[u] \in Running THEN "stopped" ELSE gen[u]]

(* __exit__: the stop event is set, then the error is read. A failure the  *)
(* thread meets in its last round comes after that.                        *)
Mutant_LeaveWithoutAbort ==
    /\ pc = "leave"
    /\ leaving' = TRUE
    /\ failing' = (failing \/ watcher = "failed")
    /\ pc' = "join"
    /\ UNCHANGED <<mode, clock, database, gen, started, ready, watcher, light,
                   host, faulty, reasons, record, result>>

Leave ==
    /\ pc = "leave"
    /\ leaving' = TRUE
    /\ failing' = (failing \/ watcher = "failed")
    /\ pc' = IF failing' /\ Core THEN "abort" ELSE "join"
    /\ UNCHANGED <<mode, clock, database, gen, started, ready, watcher, light,
                   host, faulty, reasons, record, result>>

Abort ==
    /\ pc = "abort"
    /\ StopGenerators \/ (StopsFail /\ UNCHANGED gen)
    /\ pc' = "join"
    /\ UNCHANGED <<mode, clock, database, started, ready, watcher, leaving,
                   failing, light, host, faulty, reasons, record, result>>

(* The thread is joined; one that does not end in time fails the run, and  *)
(* so does a missing unit. The exception then goes to the handler around   *)
(* the with block.                                                         *)
InitializationFailed == failing \/ watcher = "sampling" \/ ready # N

Join ==
    /\ pc = "join"
    /\ LET failed == InitializationFailed
       IN /\ record' = IF failed THEN "fail" ELSE "pass"
          /\ reasons' = reasons \cup (IF failed THEN {"error"} ELSE {})
          /\ pc' = IF failed THEN "cleanup" ELSE "watch"
    /\ failing' = FALSE
    /\ UNCHANGED <<mode, clock, database, gen, started, ready, watcher, leaving,
                   light, host, faulty, result>>

-----------------------------------------------------------------------------
(* The load.                                                               *)

AllExited == \A u \in Unit : gen[u] \notin Alive

(* A round of the loop that watches the generators.                        *)
Watch ==
    /\ pc = "watch"
    /\ IF AllExited THEN pc' = "reap" /\ UNCHANGED reasons
       ELSE \E s \in Samples, bad \in ProgressReasons :
              IF s = "raises"
              THEN pc' = "cleanup" /\ reasons' = reasons \cup {"error"}
              ELSE /\ reasons' = reasons \cup GuardReasons \cup bad
                        \cup (IF clock = "late" THEN {"deadline"} ELSE {})
                   /\ pc' = IF reasons' # {} THEN "stop" ELSE "watch"
    /\ UNCHANGED <<mode, clock, database, gen, started, ready, watcher, leaving,
                   failing, light, host, faulty, record, result>>

Stop ==
    /\ pc = "stop"
    /\ \/ StopGenerators /\ pc' = "reap" /\ UNCHANGED reasons
       \/ /\ StopsFail
          /\ pc' = "cleanup"
          /\ reasons' = reasons \cup {"error"}
          /\ UNCHANGED gen
    /\ UNCHANGED <<mode, clock, database, started, ready, watcher, leaving,
                   failing, light, host, faulty, record, result>>

(* process.wait(timeout=30) for every process, and its exit code.          *)
Reap ==
    /\ pc = "reap"
    /\ reasons' = reasons \cup
         (IF \E u \in Unit : gen[u] \in {"crashed", "stopped"}
          THEN {"exit"} ELSE {})
         \cup (IF AllExited THEN {} ELSE {"error"})
    /\ pc' = "cleanup"
    /\ UNCHANGED <<mode, clock, database, gen, started, ready, watcher, leaving,
                   failing, light, host, faulty, record, result>>

(* The finally block stops whatever is left, ...                           *)
Cleanup ==
    /\ pc = "cleanup"
    /\ \/ StopGenerators /\ pc' = "drain" /\ UNCHANGED result
       \/ StopsFail /\ UNCHANGED gen /\ Raised
    /\ UNCHANGED <<mode, clock, database, started, ready, watcher, leaving,
                   failing, light, host, faulty, reasons, record>>

(* ... waits for the processes, which may raise, and then ends the         *)
(* PostgreSQL sampler, whose errors are reasons too.                       *)
Drain ==
    /\ pc = "drain"
    /\ IF AllExited
       THEN /\ reasons' = reasons \cup
                 (IF light = "failed" THEN {"light"} ELSE {})
            /\ light' = IF light = "failed" THEN "failed" ELSE "stopped"
            /\ pc' = "judge"
            /\ UNCHANGED result
       ELSE Raised /\ UNCHANGED <<light, reasons>>
    /\ UNCHANGED <<mode, clock, database, gen, started, ready, watcher, leaving,
                   failing, host, faulty, record>>

-----------------------------------------------------------------------------
(* Judgement: finish_case.                                                 *)

(* aggregate: every planned iteration was started and completed, and every *)
(* result is counted. It raises for a shard without evidence, which one    *)
(* that was cut off may be and one that was never started is.              *)
Delivered == \A u \in Unit : gen[u] = "exited"

HasEvidence == \A u \in Unit : gen[u] # "none"

(* verdict: a run without an error in delivery, stop reason, sampling gap, *)
(* bad result, wrong row or missing recovery. The last three are external  *)
(* to this model and may be either.                                        *)
Mutant_PassedOnDelivery(correct, recovered, sampled) ==
    /\ Delivered
    /\ ~ faulty
    /\ correct /\ recovered /\ sampled

Passed(correct, recovered, sampled) ==
    /\ reasons = {}
    /\ Delivered
    /\ ~ faulty
    /\ correct /\ recovered /\ sampled

Judge ==
    /\ pc = "judge"
    /\ \/ /\ HasEvidence
          /\ \E correct, recovered, sampled \in BOOLEAN :
               result' = IF Passed(correct, recovered, sampled)
                         THEN "pass" ELSE "fail"
          /\ database' = "used"
          /\ pc' = "over"
       \/ /\ CallsFail \/ ~ Delivered
          /\ Raised
          /\ UNCHANGED database
    /\ UNCHANGED <<mode, clock, gen, started, ready, watcher, leaving, failing,
                   light, host, faulty, reasons, record>>

(* The core campaign stops the generators of a run that raised.            *)
Caller ==
    /\ pc = "caller"
    /\ StopGenerators \/ (StopsFail /\ UNCHANGED gen)
    /\ pc' = "over"
    /\ UNCHANGED <<mode, clock, database, started, ready, watcher, leaving,
                   failing, light, host, faulty, reasons, record, result>>

-----------------------------------------------------------------------------
Coordinator ==
    \/ Reset \/ Calibrate \/ Warm \/ Arm \/ Launch \/ Check \/ Look \/ Leave
    \/ Abort \/ Join \/ Watch \/ Stop \/ Reap \/ Cleanup \/ Drain \/ Judge
    \/ Caller

Next ==
    \/ Coordinator
    \/ Observe
    \/ LightFails
    \/ Tick
    \/ HostTrouble
    \/ \E u \in Unit : Generator(u)

Spec == Init /\ [][Next]_vars

(* The coordinator's process keeps running and time passes; nothing is     *)
(* assumed of the generators, which may hang.                              *)
Fairness ==
    /\ WF_vars(Coordinator)
    /\ WF_vars(Tick)

LiveSpec == Spec /\ Fairness

-----------------------------------------------------------------------------
TypeOK ==
    /\ mode \in Modes
    /\ clock \in {"init", "guard", "business", "late"}
    /\ pc \in {"reset", "calibrate", "warm", "arm", "launch", "check", "look",
               "leave", "abort", "join", "watch", "stop", "reap", "cleanup",
               "drain", "judge", "caller", "over"}
    /\ database \in {"used", "partial", "baseline"}
    /\ gen \in [Unit -> Alive \cup {"none", "stopped", "exited", "crashed"}]
    /\ started \in 0 .. N
    /\ ready \in 0 .. started
    /\ watcher \in {"off", "sampling", "failed", "left"}
    /\ leaving \in BOOLEAN
    /\ failing \in BOOLEAN
    /\ light \in {"off", "sampling", "failed", "stopped"}
    /\ host \in {"safe", "unsafe"}
    /\ faulty \in BOOLEAN
    /\ reasons \subseteq {"unsafe", "errors", "deadline", "exit", "error", "light"}
    /\ record \in {"none", "pass", "fail"}
    /\ result \in {"none", "pass", "fail", "raised"}

(* No unit sends a request before the database was restored in this run;   *)
(* and in a core campaign none does unless every unit was seen ready,      *)
(* whatever fails or is late during the initialization (Initialization     *)
(* with its abort, phase14_core.arm).                                      *)
LoadIsCoordinated ==
    \A u \in Unit : gen[u] \in {"load", "exited"} =>
        /\ pc # "over" => database = "baseline"
        /\ Core => ready = N

(* No generator goes on after the run is over, and none is alive while     *)
(* its evidence is read (the stops of execute_case).                       *)
NothingRunsAfterwards == pc \in {"judge", "over"} => AllExited

(* A run that passes was never stopped for a reason, lost no unit, had no  *)
(* system error and was sampled by all its threads; and it had sent its    *)
(* load from the restored database (finish_case and verdict).              *)
PassedMeansClean ==
    result = "pass" =>
        /\ reasons = {}
        /\ \A u \in Unit : gen[u] = "exited"
        /\ ~ faulty
        /\ light = "stopped"
        /\ record = "pass"
=============================================================================
