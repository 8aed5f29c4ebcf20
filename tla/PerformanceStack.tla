-------------------------- MODULE PerformanceStack --------------------------
(***************************************************************************)
(* The tools around the isolated performance stack (src/performance):      *)
(* scripts/run_baseline.py executes a plan, entry after entry, and         *)
(* scripts/run_login_experiment.py a plan of logins on a changed backend   *)
(* configuration. An entry resets the stack (data/generate_dataset.py, or  *)
(* scripts/reset_environment.py around it), warms it up, and measures one  *)
(* run of scripts/run_k6.py, which may stop Redis or force the payment     *)
(* outcome of the backend and must undo that. Evidence is then collected   *)
(* (scripts/performance_evidence.py) and kept beside the run.              *)
(*                                                                         *)
(* Every step is one external command (docker, psql, redis-cli, a child    *)
(* process). A command may fail, with or without its effect, the operator  *)
(* may interrupt (Ctrl-C), and the tools may die (a crash); the stack and  *)
(* the files stay as they are, and a later plan finds them so.             *)
(***************************************************************************)
EXTENDS Naturals, Sequences, FiniteSets

CONSTANTS
    Plans,      \* the plans of the operator
    MaxPlans,   \* bound on the plans that are started
    MaxFaults   \* bound on failed commands, interrupts and crashes

(* A workload: "read" (public-read), "cold" and "down" (auth-read with     *)
(* auth-mode cold and redis-down), "map" (seat-map-read), "checkout",      *)
(* "payment", "login".                                                     *)
Transactional == {"checkout", "payment"}
UsesSessions == {"cold", "down"} \cup Transactional
ToleratesNoRedis == {"read", "down", "login"}
Kinds == UsesSessions \cup {"read", "map", "login"}
Resets == {"none", "logical", "full"}

ConstantsAssumption ==
    /\ MaxPlans \in Nat
    /\ MaxFaults \in Nat
    /\ \A plan \in Plans :
          /\ plan.experiment \in BOOLEAN
          /\ plan.entries \in Seq([reset : Resets, kind : Kinds, warm : Seq(Kinds)])
          /\ Len(plan.entries) > 0
          /\ plan.experiment =>
                \A i \in 1..Len(plan.entries) :
                   /\ plan.entries[i].kind = "login"
                   /\ plan.entries[i].reset = "logical"
                   /\ plan.entries[i].warm = <<>>

VARIABLES
    redis,    \* the Redis container runs
    backend,  \* the backend container: healthy, payment outcome forced, config
    db,       \* PostgreSQL: the generation of the data, seats of it used,
              \* payments in progress, and its invariants hold
    holds,    \* whose seat holds are in Redis: "none", "fixture", "run"
    cached,   \* cached auth sessions are in Redis
    files,    \* performance/generated: the generation each file is of, 0: none
    newest,   \* the newest generation of credentials
    stats,    \* the runs that pg_stat_statements has seen since its reset
    plan, pos, warmed,  \* the plan, its entry, and the warm-ups done
    pc,       \* the command to be executed next
    run,      \* the process run_k6
    results,  \* performance/results: a directory per run
    plans, faults,
    startedWhole  \* history: the stack was as Compose defines it at the start

stack == <<redis, backend, db, holds, cached, files, newest>>
tool == <<plan, pos, warmed, run>>
bounds == <<plans, faults, startedWhole>>
vars == <<stack, stats, tool, pc, results, bounds>>

FileNames == {"sessions", "seats", "dataset"}
NoFiles == [f \in FileNames |-> 0]
Base == [up |-> TRUE, forced |-> FALSE, config |-> "base"]
Healthy == redis /\ backend.up /\ ~backend.forced
Whole == Healthy /\ backend.config = "base"

NoRun == [id |-> 0, kind |-> "none", measured |-> FALSE, stopped |-> FALSE,
          forced |-> FALSE, verdict |-> "none", code |-> "none",
          interrupted |-> FALSE, sessions |-> 0, dataset |-> 0]
Free == [gen |-> 0, used |-> FALSE, processing |-> FALSE, sound |-> TRUE]
Idle == [experiment |-> FALSE, entries |-> <<>>]

Entry == plan.entries[pos]
DeclaredConfig == IF plan.experiment THEN "experiment" ELSE "base"

Init ==
    /\ redis = TRUE /\ backend = Base
    /\ db = [Free EXCEPT !.gen = 1]
    /\ holds = "none" /\ cached = FALSE
    /\ files = [f \in FileNames |-> 1] /\ newest = 1
    /\ stats = {} /\ results = <<>>
    /\ plan = Idle /\ pos = 0 /\ warmed = 0 /\ run = NoRun
    /\ pc = "idle"
    /\ plans = 0 /\ faults = 0 /\ startedWhole = TRUE

Fault == faults < MaxFaults /\ faults' = faults + 1

-----------------------------------------------------------------------------
(* The operator, and how a plan ends.                                      *)

StartPlan ==
    /\ pc = "idle" /\ plans < MaxPlans
    /\ \E p \in Plans : /\ plan' = p
                        /\ pc' = IF p.experiment THEN "configure" ELSE "reset"
    /\ pos' = 1 /\ warmed' = 0 /\ run' = NoRun
    /\ plans' = plans + 1 /\ startedWhole' = Whole
    /\ UNCHANGED <<stack, stats, results, faults>>

(* A failed command ends the plan; the experiment puts its backend back in *)
(* a finally, which the recreation before its try does not reach.          *)
Ended == IF plan.experiment /\ pc # "configure" THEN "revert" ELSE "idle"

PlanCommandFails ==
    /\ pc \in {"clearFiles", "down", "observe", "replaceRows", "validate",
               "sessions", "seats", "dataset", "smoke", "freshVerify", "clear",
               "warm", "statsReset", "redisBefore", "collect"}
    /\ Fault
    /\ pc' = Ended
    /\ UNCHANGED <<stack, stats, tool, results, plans, startedWhole>>

(* recreate_backend: `up --force-recreate --no-deps` with or without the   *)
(* override, which never sets the forced outcome.                          *)
Configure ==
    /\ pc = "configure"
    /\ backend' = [up |-> TRUE, forced |-> FALSE, config |-> "experiment"]
    /\ pc' = "reset"
    /\ UNCHANGED <<redis, db, holds, cached, files, newest, stats, tool,
                   results, bounds>>

Revert ==
    /\ pc = "revert"
    /\ backend' = Base
    /\ pc' = "idle"
    /\ UNCHANGED <<redis, db, holds, cached, files, newest, stats, tool,
                   results, bounds>>

(* A recreation that fails may have replaced the container already.        *)
RecreationFails ==
    /\ pc \in {"configure", "revert"}
    /\ Fault
    /\ \E up \in BOOLEAN, new \in BOOLEAN :
          backend' = IF ~new THEN backend
                     ELSE [up |-> up, forced |-> FALSE,
                           config |-> IF pc = "configure" THEN "experiment" ELSE "base"]
    /\ pc' = "idle"
    /\ UNCHANGED <<redis, db, holds, cached, files, newest, stats, tool,
                   results, plans, startedWhole>>

-----------------------------------------------------------------------------
(* The reset of an entry.                                                  *)

Reset ==
    /\ pc = "reset"
    /\ pc' = CASE Entry.reset = "none" -> "warm"
               [] Entry.reset = "logical" -> "replaceRows"
               [] Entry.reset = "full" -> "clearFiles"
    /\ UNCHANGED <<stack, stats, tool, results, bounds>>

(* reset: the guards on the project and its volumes come first, then the   *)
(* generated files go, then the volumes.                                   *)
ClearGenerated ==
    /\ pc = "clearFiles"
    /\ files' = NoFiles
    /\ pc' = "down"
    /\ UNCHANGED <<redis, backend, db, holds, cached, newest, stats, tool,
                   results, bounds>>

DownVolumes ==
    /\ pc = "down"
    /\ redis' = FALSE /\ backend' = [Base EXCEPT !.up = FALSE]
    /\ db' = Free /\ holds' = "none" /\ cached' = FALSE /\ stats' = {}
    /\ pc' = "up"
    /\ UNCHANGED <<files, newest, tool, results, bounds>>

UpBuild ==
    /\ pc = "up"
    /\ \/ redis' = TRUE /\ backend' = Base /\ pc' = "observe" /\ UNCHANGED faults
       \/ Fault /\ redis' \in BOOLEAN /\ pc' = Ended
          /\ backend' \in {backend, Base}
    /\ UNCHANGED <<db, holds, cached, files, newest, stats, tool, results,
                   plans, startedWhole>>

(* verify_observability: every component answers and is scraped.           *)
Observed == redis /\ backend.up

Observe ==
    /\ pc = "observe"
    /\ pc' = IF Observed THEN "replaceRows" ELSE Ended
    /\ UNCHANGED <<stack, stats, tool, results, bounds>>

(* generate_dataset: the rows of the perf scope are replaced in one        *)
(* transaction, with the hashes of new credentials; the files that hold    *)
(* the credentials follow one by one, dataset.json last.                   *)
FilesInOrder == <<"sessions", "seats", "dataset">>

ReplaceRows ==
    /\ pc = "replaceRows"
    /\ newest' = newest + 1
    /\ db' = [Free EXCEPT !.gen = newest + 1]
    /\ pc' = "validate"
    /\ UNCHANGED <<redis, backend, holds, cached, files, stats, tool, results,
                   bounds>>

ValidateDatabase ==
    /\ pc = "validate"
    /\ pc' = FilesInOrder[1]
    /\ UNCHANGED <<stack, stats, tool, results, bounds>>

WriteFile ==
    /\ \E i \in 1..3 :
          /\ pc = FilesInOrder[i]
          /\ files' = [files EXCEPT ![pc] = newest]
          /\ pc' = IF i < 3 THEN FilesInOrder[i + 1] ELSE "smoke"
    /\ UNCHANGED <<redis, backend, db, holds, cached, newest, stats, tool,
                   results, bounds>>

AuthSmoke ==
    /\ pc = "smoke"
    /\ pc' = IF ~backend.up THEN Ended
             ELSE IF Entry.reset = "full" THEN "freshVerify" ELSE "clear"
    /\ cached' = (cached \/ (redis /\ backend.up))
    /\ UNCHANGED <<redis, backend, db, holds, files, newest, stats, tool,
                   results, bounds>>

FreshVerify ==
    /\ pc = "freshVerify"
    /\ pc' = IF db.sound THEN "warm" ELSE Ended
    /\ UNCHANGED <<stack, stats, tool, results, bounds>>

(* logical_reset: clear_auth_cache, clear_seat_holds.                      *)
ClearCaches ==
    /\ pc = "clear"
    /\ IF redis THEN cached' = FALSE /\ holds' = "none" /\ pc' = "warm"
                ELSE pc' = Ended /\ UNCHANGED <<cached, holds>>
    /\ UNCHANGED <<redis, backend, db, files, newest, stats, tool, results,
                   bounds>>

-----------------------------------------------------------------------------
(* One entry: warm-ups, the window of the evidence, the measured run.      *)

StartRun(kind, measured) ==
    run' = [NoRun EXCEPT !.kind = kind, !.measured = measured]

Warmup ==
    /\ pc = "warm"
    /\ IF ~backend.up THEN pc' = Ended /\ UNCHANGED <<run, warmed>>
       ELSE IF warmed < Len(Entry.warm)
            THEN /\ StartRun(Entry.warm[warmed + 1], FALSE)
                 /\ warmed' = warmed + 1 /\ pc' = "read"
            ELSE pc' = "statsReset" /\ UNCHANGED <<run, warmed>>
    /\ UNCHANGED <<stack, stats, plan, pos, results, bounds>>

ResetStatistics ==
    /\ pc = "statsReset"
    /\ stats' = {}
    /\ pc' = "redisBefore"
    /\ UNCHANGED <<stack, tool, results, bounds>>

Measure ==
    /\ pc = "redisBefore"
    /\ IF redis THEN StartRun(Entry.kind, TRUE) /\ pc' = "read"
                ELSE pc' = Ended /\ UNCHANGED run
    /\ UNCHANGED <<stack, stats, plan, pos, warmed, results, bounds>>

(* newest_result, the collectors and evidence-manifest.json; they need     *)
(* Redis and PostgreSQL. The experiment adds its configuration.            *)
Collect ==
    /\ pc = "collect"
    /\ IF ~redis THEN pc' = Ended /\ UNCHANGED <<results, pos, warmed>>
       ELSE /\ results' = [results EXCEPT ![Len(results)].evidence = stats,
                                          ![Len(results)].claims = DeclaredConfig]
            /\ warmed' = 0
            /\ IF pos < Len(plan.entries) THEN pos' = pos + 1 /\ pc' = "reset"
               ELSE /\ UNCHANGED pos
                    /\ pc' = IF plan.experiment THEN "revert" ELSE "idle"
    /\ UNCHANGED <<stack, stats, plan, run, bounds>>

-----------------------------------------------------------------------------
(* run_k6: what a workload goes through, between reading the data and the  *)
(* finally that undoes what was changed.                                   *)

Steps(kind) ==
    LET before == CASE kind = "cold" -> <<"auth">>
                    [] kind = "down" -> <<"auth", "stopRedis">>
                    [] kind = "map" -> <<"fixture">>
                    [] kind = "checkout" -> <<"clearHolds">>
                    [] kind = "payment" -> <<"clearHolds", "force", "orders">>
                    [] OTHER -> <<>>
        after == CASE kind = "cold" -> <<"coldCheck">>
                   [] kind = "checkout" -> <<"verify">>
                   [] kind = "payment" -> <<"settle", "verify">>
                   [] OTHER -> <<>>
    IN <<"read", "health">> \o before \o <<"load", "remote">> \o after
         \o <<"threshold">>

RunSteps == UNION {{Steps(k)[i] : i \in 1..Len(Steps(k))} : k \in Kinds}

Following ==
    LET steps == Steps(run.kind)
        i == CHOOSE j \in 1..Len(steps) : steps[j] = pc
    IN IF i < Len(steps) THEN steps[i + 1] ELSE "restoreBackend"

(* The branches of a step: it was done, or it raised.                      *)
Done == pc' = Following
Raise == pc' = "restoreBackend" /\ run' = [run EXCEPT !.verdict = "failed"]

(* The data is read and the pools are checked before anything is written.  *)
ReadDataset ==
    /\ pc = "read"
    /\ IF 0 \in {files[f] : f \in FileNames} THEN Raise
       ELSE /\ run' = [run EXCEPT !.sessions = files["sessions"],
                                  !.dataset = files["dataset"]]
            /\ Done
    /\ UNCHANGED <<stack, stats, plan, pos, warmed, results, bounds>>

(* /health answers; the directory is made, the manifest says "running".    *)
OpenRun ==
    /\ pc = "health"
    /\ IF ~backend.up THEN Raise /\ UNCHANGED <<results, stats>>
       ELSE /\ run' = [run EXCEPT !.id = Len(results) + 1, !.verdict = "running"]
            /\ results' = Append(results,
                  [kind |-> run.kind, manifest |-> "none", code |-> "none",
                   whole |-> FALSE, began |-> Healthy,
                   named |-> FALSE, sound |-> FALSE, settled |-> FALSE,
                   evidence |-> {}, claims |-> "none", config |-> backend.config,
                   ground |-> startedWhole])
            /\ stats' = stats \cup {run'.id}
            /\ Done
    /\ UNCHANGED <<stack, plan, pos, warmed, bounds>>

ClearAuthCache ==
    /\ pc = "auth"
    /\ IF redis THEN cached' = FALSE /\ Done /\ UNCHANGED run
                ELSE Raise /\ UNCHANGED cached
    /\ UNCHANGED <<redis, backend, db, holds, files, newest, stats, plan, pos,
                   warmed, results, bounds>>

(* Redis keeps nothing on disk: what it held is gone.                      *)
StopRedis ==
    /\ pc = "stopRedis"
    /\ redis' = FALSE /\ holds' = "none" /\ cached' = FALSE
    /\ run' = [run EXCEPT !.stopped = TRUE]
    /\ Done
    /\ UNCHANGED <<backend, db, files, newest, stats, plan, pos, warmed,
                   results, bounds>>

(* The seats of a generation have the same identifiers as those of every   *)
(* other, so the fixture fits any.                                         *)
PrepareSeatMap ==
    /\ pc = "fixture"
    /\ IF redis /\ backend.up /\ ~db.used
       THEN holds' = "fixture" /\ Done /\ UNCHANGED run
       ELSE Raise /\ holds' = IF redis THEN "fixture" ELSE holds
    /\ UNCHANGED <<redis, backend, db, cached, files, newest, stats, plan, pos,
                   warmed, results, bounds>>

ClearSeatHolds ==
    /\ pc = "clearHolds"
    /\ IF redis THEN holds' = "none" /\ Done /\ UNCHANGED run
                ELSE Raise /\ UNCHANGED holds
    /\ UNCHANGED <<redis, backend, db, cached, files, newest, stats, plan, pos,
                   warmed, results, bounds>>

Mutant_ForceWithoutFlag ==
    /\ pc = "force"
    /\ backend' = [Base EXCEPT !.forced = TRUE] /\ redis' = TRUE
    /\ Done
    /\ UNCHANGED <<db, holds, cached, files, newest, stats, tool, results, bounds>>

(* `up --force-recreate backend` starts what the backend depends on, too.  *)
ForceOutcome ==
    /\ pc = "force"
    /\ backend' = [Base EXCEPT !.forced = TRUE] /\ redis' = TRUE
    /\ run' = [run EXCEPT !.forced = TRUE]
    /\ Done
    /\ UNCHANGED <<db, holds, cached, files, newest, stats, plan, pos, warmed,
                   results, bounds>>

(* Orders are created with the credentials and the seats of the files.     *)
Credentials == run.sessions = db.gen

PrepareOrders ==
    /\ pc = "orders"
    /\ IF backend.up /\ redis /\ Credentials /\ ~db.used
       THEN db' = [db EXCEPT !.used = TRUE] /\ Done /\ UNCHANGED run
       ELSE Raise /\ UNCHANGED db
    /\ UNCHANGED <<redis, backend, holds, cached, files, newest, stats, plan,
                   pos, warmed, results, bounds>>

(* The workload meets its thresholds only where the stack can answer it.   *)
CanMeetThresholds ==
    /\ backend.up
    /\ run.kind \notin ToleratesNoRedis => redis
    /\ run.kind \in UsesSessions => Credentials
    /\ run.kind = "checkout" => ~db.used

(* k6 runs to its end: 0, or 99 for a threshold. What it did may have      *)
(* broken an invariant of the system under test.                           *)
Load ==
    /\ pc = "load"
    /\ \E code \in {"ok", "threshold"} :
          /\ code = "ok" => CanMeetThresholds
          /\ run' = [run EXCEPT !.code = code]
    /\ IF run.kind \in Transactional
       THEN \E sound \in BOOLEAN :
              db' = [db EXCEPT !.used = TRUE, !.sound = @ /\ sound,
                               !.processing = @ \/ run.kind = "payment"]
       ELSE UNCHANGED db
    /\ holds' = IF run.kind = "checkout" /\ redis THEN "run" ELSE holds
    /\ cached' = (cached \/ (run.kind \in UsesSessions /\ redis))
    /\ Done
    /\ UNCHANGED <<redis, backend, files, newest, stats, plan, pos, warmed,
                   results, bounds>>

(* The payments of the simulation provider end by themselves while the     *)
(* process that started them lives.                                        *)
PaymentsSettle ==
    /\ db.processing /\ backend.up
    /\ db' = [db EXCEPT !.processing = FALSE]
    /\ UNCHANGED <<redis, backend, holds, cached, files, newest, stats, tool,
                   pc, results, bounds>>

VerifyRemoteWrite ==
    /\ pc = "remote"
    /\ Done
    /\ UNCHANGED <<stack, stats, tool, results, bounds>>

ColdCheck ==
    /\ pc = "coldCheck"
    /\ IF redis /\ cached THEN Done /\ UNCHANGED run ELSE Raise
    /\ UNCHANGED <<stack, stats, plan, pos, warmed, results, bounds>>

(* wait_payment_settlement: polled until nothing is in progress, 30 s.     *)
Settle ==
    /\ pc = "settle"
    /\ \/ ~db.processing /\ Done /\ UNCHANGED run
       \/ db.processing /\ Raise
    /\ UNCHANGED <<stack, stats, plan, pos, warmed, results, bounds>>

Mutant_ReportOnly ==
    /\ pc = "verify" /\ Done
    /\ UNCHANGED <<stack, stats, tool, results, bounds>>

(* verify_database: fourteen invariants counted by SQL, all to be zero.    *)
VerifyDatabase ==
    /\ pc = "verify"
    /\ IF db.sound THEN Done /\ UNCHANGED run ELSE Raise
    /\ UNCHANGED <<stack, stats, plan, pos, warmed, results, bounds>>

Verdict ==
    /\ pc = "threshold"
    /\ IF run.code = "threshold" THEN Raise
       ELSE run' = [run EXCEPT !.verdict = "passed"] /\ Done
    /\ UNCHANGED <<stack, stats, plan, pos, warmed, results, bounds>>

(* A command of the run fails. The flags that the finally looks at are set *)
(* after the command that they are about succeeded.                        *)
RunCommandFails ==
    /\ pc \in RunSteps \ {"read", "threshold"}
    /\ Fault
    /\ Raise
    /\ \E effect \in BOOLEAN, up \in BOOLEAN :
          /\ redis' = IF pc = "stopRedis" /\ effect THEN FALSE ELSE redis
          /\ holds' = IF pc = "stopRedis" /\ effect THEN "none" ELSE holds
          /\ cached' = (cached /\ redis')
          /\ backend' = IF pc = "force" /\ effect
                        THEN [up |-> up, forced |-> TRUE, config |-> "base"]
                        ELSE backend
          /\ db' = IF pc \in {"orders", "load"} /\ run.kind \in Transactional
                   THEN [db EXCEPT !.used = @ \/ effect] ELSE db
    /\ UNCHANGED <<files, newest, stats, plan, pos, warmed, results, plans,
                   startedWhole>>

(* Ctrl-C while k6 runs: no except clause names it, the finally does run.  *)
Interrupt ==
    /\ pc \in {"load", "settle"}
    /\ Fault
    /\ run' = [run EXCEPT !.interrupted = TRUE]
    /\ pc' = "restoreBackend"
    /\ UNCHANGED <<stack, stats, plan, pos, warmed, results, plans, startedWhole>>

VerdictAfter(ok) == IF ok THEN run.verdict ELSE "failed"

(* finally: the backend first, then Redis and a look at the whole stack,   *)
(* then the manifest. A restore that fails makes the run a failed one.     *)
RestoreBackend ==
    /\ pc = "restoreBackend"
    /\ pc' = "restoreRedis"
    /\ \/ ~run.forced /\ UNCHANGED <<backend, redis, run, faults>>
       \/ run.forced /\ backend' = Base /\ redis' = TRUE /\ UNCHANGED <<run, faults>>
       \/ /\ run.forced /\ Fault
          /\ backend' \in {backend, [Base EXCEPT !.up = FALSE]}
          /\ run' = [run EXCEPT !.verdict = VerdictAfter(FALSE)]
          /\ UNCHANGED redis
    /\ UNCHANGED <<db, holds, cached, files, newest, stats, plan, pos, warmed,
                   results, plans, startedWhole>>

RestoreRedis ==
    /\ pc = "restoreRedis"
    /\ pc' = "manifest"
    /\ \/ ~run.stopped /\ UNCHANGED <<redis, run, faults>>
       \/ /\ run.stopped /\ redis' = TRUE /\ UNCHANGED faults
          /\ run' = [run EXCEPT !.verdict = VerdictAfter(backend.up)]
       \/ /\ run.stopped /\ Fault /\ redis' \in BOOLEAN
          /\ run' = [run EXCEPT !.verdict = VerdictAfter(FALSE)]
    /\ UNCHANGED <<backend, db, holds, cached, files, newest, stats, plan, pos,
                   warmed, results, plans, startedWhole>>

(* run-manifest.json, if there is a directory; the exit code of run_k6     *)
(* lets the plan go on or ends it.                                         *)
FinishRun ==
    /\ pc = "manifest"
    /\ results' = IF run.id = 0 THEN results
                  ELSE [results EXCEPT ![run.id].manifest = run.verdict,
                          ![run.id].code = run.code,
                          ![run.id].whole = Healthy,
                          ![run.id].named = (run.dataset = db.gen /\ Credentials),
                          ![run.id].sound = db.sound,
                          ![run.id].settled = ~db.processing]
    /\ pc' = IF run.verdict # "passed" \/ run.interrupted THEN Ended
             ELSE IF run.measured THEN "collect" ELSE "warm"
    /\ run' = NoRun
    /\ UNCHANGED <<stack, stats, plan, pos, warmed, bounds>>

(* The tools die at once; a run that was opened keeps no manifest.         *)
Crash ==
    /\ pc # "idle"
    /\ Fault
    /\ pc' = "idle" /\ run' = NoRun
    /\ UNCHANGED <<stack, stats, plan, pos, warmed, results, plans, startedWhole>>

PlanNext ==
    \/ StartPlan \/ PlanCommandFails \/ Configure \/ Revert \/ RecreationFails
    \/ Reset \/ ClearGenerated \/ DownVolumes \/ UpBuild \/ Observe
    \/ ReplaceRows \/ ValidateDatabase \/ WriteFile \/ AuthSmoke \/ FreshVerify
    \/ ClearCaches \/ Warmup \/ ResetStatistics \/ Measure \/ Collect

RunNext ==
    \/ ReadDataset \/ OpenRun \/ ClearAuthCache \/ StopRedis \/ PrepareSeatMap
    \/ ClearSeatHolds \/ ForceOutcome \/ PrepareOrders \/ Load
    \/ VerifyRemoteWrite \/ ColdCheck \/ Settle \/ VerifyDatabase \/ Verdict
    \/ RunCommandFails \/ Interrupt \/ RestoreBackend \/ RestoreRedis
    \/ FinishRun

(* The operator may leave it at the last plan.                             *)
AtRest == pc = "idle" /\ plans = MaxPlans /\ UNCHANGED vars

Next == PlanNext \/ RunNext \/ PaymentsSettle \/ Crash \/ AtRest

(* Every command returns: subprocess.run waits for it, and each wait of    *)
(* the tools is bounded by a deadline or a number of attempts.             *)
Spec == Init /\ [][Next]_vars /\ WF_vars(PlanNext \/ RunNext)

-----------------------------------------------------------------------------
Passed(i) == results[i].manifest = "passed"

(* A run whose manifest says "passed" has met its thresholds with the      *)
(* credentials of the data it ran on, left no payment in progress and no   *)
(* invariant of PostgreSQL broken (run_k6.py, main: every later check can  *)
(* still take the verdict away).                                           *)
PassedRunIsTrustworthy ==
    \A i \in 1..Len(results) : Passed(i) =>
        /\ results[i].code = "ok"
        /\ results[i].kind \in Transactional => results[i].sound
        /\ results[i].kind = "payment" => results[i].settled

(* A run that found the stack whole and passed has left it whole: Redis is *)
(* up again and the payment outcome no longer forced (the finally).        *)
PassedRunRestoresTheStack ==
    \A i \in 1..Len(results) :
        Passed(i) /\ results[i].began => results[i].whole

(* In a plan that started on a whole stack, every run loads the stack that *)
(* its workload and plan declare, whatever failed before in that plan, and *)
(* after a reset its files name the generation that is in PostgreSQL.      *)
MeasuredOnDeclaredStack ==
    pc = "load" /\ startedWhole =>
        /\ backend.up /\ backend.config = DeclaredConfig
        /\ backend.forced <=> run.kind = "payment"
        /\ redis <=> run.kind # "down"
        /\ run.kind = "map" => holds = "fixture"
        /\ Entry.reset # "none" =>
              run.sessions = db.gen /\ run.dataset = db.gen

(* The evidence beside a run is of a passed run and of that run alone, not *)
(* of its warm-ups, and a login experiment was measured on the             *)
(* configuration that its evidence claims, if the plan began on a whole    *)
(* stack (run_entry, run).                                                 *)
EvidenceIsOfItsRun ==
    \A i \in 1..Len(results) : results[i].evidence # {} =>
        /\ Passed(i)
        /\ results[i].evidence = {i}
        /\ results[i].ground => results[i].claims = results[i].config

(* dataset.json, by which a run names its data, is never newer than the    *)
(* credentials and seats it stands for, wherever the generator died.       *)
DatasetIsNamedLast ==
    files["dataset"] # 0 => /\ files["dataset"] <= files["seats"]
                            /\ files["seats"] <= files["sessions"]
                            /\ files["sessions"] <= newest

TypeOK ==
    /\ redis \in BOOLEAN /\ cached \in BOOLEAN /\ startedWhole \in BOOLEAN
    /\ backend \in [up : BOOLEAN, forced : BOOLEAN, config : {"base", "experiment"}]
    /\ db \in [gen : Nat, used : BOOLEAN, processing : BOOLEAN, sound : BOOLEAN]
    /\ holds \in {"none", "fixture", "run"}
    /\ files \in [FileNames -> Nat] /\ newest \in Nat
    /\ stats \subseteq 1..Len(results)
    /\ plans \in 0..MaxPlans /\ faults \in 0..MaxFaults
=============================================================================
