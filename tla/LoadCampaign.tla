---------------------------- MODULE LoadCampaign ----------------------------
(***************************************************************************)
(* How the two-host load tests are qualified, put in order and recorded    *)
(* (src/performance/scripts: phase14_campaign.py, phase14_core.py,         *)
(* phase14_memory.py). An operator starts one process after the other on   *)
(* the load host: the calibration of the generators (G0), the pair of cold *)
(* initializations, the rehearsal ("smoke"), the qualification, and the    *)
(* campaign itself, "formal" (stops at its first failure and may be        *)
(* resumed) or "core" (goes on where that is sound, against a deadline).   *)
(* A process may die at any point; what it wrote stays. Meanwhile the two  *)
(* hosts may be given another commit, and evidence may be changed.         *)
(*                                                                         *)
(* One run of a job is LoadRun; here it is its outcome.                    *)
(***************************************************************************)
EXTENDS Naturals, Sequences, FiniteSets

CONSTANTS
    Policies,    \* what is looked at, of {"formal", "core", "memory"}
    MaxHead,     \* bound on the commits
    MaxCrashes,  \* bound on the processes that die
    MaxChanges,  \* bound on the changes of evidence
    MaxRepeats,  \* bound on the runs that a resumed campaign does again
    Budget       \* time units before the deadline of a core campaign

ASSUME ConstantsAssumption ==
    /\ Policies \subseteq {"formal", "core", "memory"}
    /\ MaxHead \in Nat \ {0}
    /\ MaxCrashes \in Nat
    /\ MaxChanges \in Nat
    /\ MaxRepeats \in Nat
    /\ Budget \in Nat

VARIABLES
    policy,       \* of everything in this history: with --core or without it,
                  \* or the round of the memory qualification
    head,         \* the commit that both hosts have checked out
    g0,           \* g0.json of the calibration
    cold,         \* init-qualification.json
    qual,         \* qualification.json
    file,         \* campaign.json of the newest campaign of each kind
    log,          \* the directories of the runs of that campaign
    changed,      \* evidence that is not what it was when it was hashed
    claimed,      \* memory-qualification-once.json exists
    observations, \* how often the memory observation was run
    database,     \* of the system under test
    task,         \* the process that runs
    pc,           \* where it is
    seen,         \* what it has noted on its way (commits, legs)
    ledger,       \* the records of the campaign it runs
    controls,     \* the run that a loaded L2 is compared with, or 0
    stopAll,      \* stop_all
    left,         \* time until the deadline of a core campaign
    crashes

artefacts == <<g0, cold, qual, file, log>>
memory == <<claimed, observations, database>>
process == <<task, pc, seen, ledger, controls, stopAll, left>>
vars == <<policy, head, g0, cold, qual, file, log, changed, claimed,
          observations, database, task, pc, seen, ledger, controls, stopAll,
          left, crashes>>

Core == policy = "core"
Kinds == {"smoke", "formal", "core"}

(* jobs and core_jobs, shortened to one job of every kind of dependence.   *)
Job(case, control) == [case |-> case, control |-> control]

Jobs(kind) ==
    CASE kind = "smoke" -> <<Job("G0", FALSE), Job("U1", FALSE)>>
      [] kind = "formal" ->
           <<Job("U1", FALSE), Job("U2", FALSE), Job("L2", TRUE), Job("L2", FALSE)>>
      [] kind = "core" ->
           <<Job("U1", FALSE), Job("U2", FALSE), Job("O1", FALSE),
             Job("O1", FALSE), Job("L2", TRUE), Job("L2", FALSE)>>

NoFile == [status |-> "none", head |-> 0, runs |-> <<>>]

Init ==
    /\ policy \in Policies
    /\ head = 1
    /\ g0 = [status |-> "none", head |-> 0, legs |-> 0]
    /\ cold = [status |-> "none", runs |-> <<>>]
    /\ qual = [status |-> "none", head |-> 0]
    /\ file = [k \in Kinds |-> NoFile]
    /\ log = [k \in Kinds |-> <<>>]
    /\ changed = {}
    /\ claimed = FALSE
    /\ observations = 0
    /\ database = "baseline"
    /\ task = "idle"
    /\ pc = "idle"
    /\ seen = <<>>
    /\ ledger = <<>>
    /\ controls = 0
    /\ stopAll = FALSE
    /\ left = 0
    /\ crashes = 0

-----------------------------------------------------------------------------
(* What the outside does.                                                  *)

(* Both hosts are given a new commit (current_fingerprint refuses hosts    *)
(* that differ, so one that lags behind is like a failed preflight).       *)
NewCommit ==
    /\ head < MaxHead
    /\ head' = head + 1
    /\ UNCHANGED <<policy, artefacts, changed, memory, process, crashes>>

Recorded ==
    (IF g0.status # "none" THEN {<<"g0", 0>>} ELSE {})
    \cup (IF cold.status # "none" THEN {<<"cold", 0>>} ELSE {})
    \cup UNION {{<<k, i>> : i \in DOMAIN log[k]} : k \in Kinds}

ChangeEvidence ==
    /\ Cardinality(changed) < MaxChanges
    /\ \E e \in Recorded \ changed : changed' = changed \cup {e}
    /\ UNCHANGED <<policy, head, artefacts, memory, process, crashes>>

Forget ==
    /\ task' = "idle"
    /\ pc' = "idle"
    /\ seen' = <<>>
    /\ ledger' = <<>>
    /\ controls' = 0
    /\ stopAll' = FALSE
    /\ left' = 0

(* campaign.json is written over in place: a process that dies meanwhile   *)
(* leaves half a file, which nothing can be resumed from.                  *)
Crash ==
    /\ task # "idle"
    /\ crashes < MaxCrashes
    /\ crashes' = crashes + 1
    /\ Forget
    /\ \/ UNCHANGED file
       \/ /\ pc \in {"record", "finish"}
          /\ file' = [file EXCEPT ![task] = [NoFile EXCEPT !.status = "torn"]]
    /\ UNCHANGED <<policy, head, g0, cold, qual, log, changed, memory>>

-----------------------------------------------------------------------------
(* Evidence.                                                               *)

(* verify_hashes: the files of a directory are what was hashed.            *)
Unchanged(evidence) == evidence \notin changed

(* verify_referenced_runs: so are those of the runs it refers to.          *)
RehearsalIntact ==
    \A i \in DOMAIN file["smoke"].runs :
        Unchanged(<<"smoke", file["smoke"].runs[i].root>>)

(* verify_init_evidence: two passes, both of the commit that is checked    *)
(* out now.                                                                *)
ColdHolds(commit) ==
    /\ cold.status = "pass"
    /\ Unchanged(<<"cold", 0>>)
    /\ \A i \in DOMAIN cold.runs : cold.runs[i] = commit

Anew(evidence) == changed' = changed \ evidence

(* The qualification of a commit begins: the campaigns of an earlier one,  *)
(* which cannot be resumed any more, are looked at no longer.              *)
Measured == {"formal", "core"}

ArchiveCampaigns ==
    /\ file' = [k \in Kinds |-> IF k \in Measured THEN NoFile ELSE file[k]]
    /\ log' = [k \in Kinds |-> IF k \in Measured THEN <<>> ELSE log[k]]
    /\ changed' = {e \in changed : e[1] \notin Measured}

(* g0_leg and run_g0: the legs of the calibration, without and with        *)
(* detailed sampling in the order A B B A; the first that fails ends it.   *)
(* The commit is read once more for the result. Calibrating again where a  *)
(* calibration has passed is left out.                                     *)
StartG0 ==
    /\ task = "idle"
    /\ policy # "memory"
    /\ ~ (g0.status = "pass" /\ g0.head = head)
    /\ task' = "g0"
    /\ pc' = "leg"
    /\ ArchiveCampaigns
    /\ UNCHANGED <<policy, head, g0, cold, qual, memory, seen, ledger,
                   controls, stopAll, left, crashes>>

Sampled == <<FALSE, TRUE, TRUE, FALSE>>

(* overhead_comparison: four legs, and the latency of the sampled ones     *)
(* within the limit, which may or may not be so.                           *)
OverheadKnown(legs) == legs = Len(Sampled)

G0Leg ==
    /\ task = "g0"
    /\ \E passed, cheap \in BOOLEAN :
         LET legs == Len(seen) + (IF passed THEN 1 ELSE 0)
         IN IF passed /\ legs < Len(Sampled)
            THEN /\ seen' = Append(seen, Sampled[legs])
                 /\ UNCHANGED <<g0, changed, task, pc, ledger, controls, stopAll, left>>
            ELSE /\ g0' = [status |-> IF OverheadKnown(legs) /\ cheap
                                      THEN "pass" ELSE "fail",
                            head |-> head, legs |-> legs]
                 /\ Anew({<<"g0", 0>>})
                 /\ Forget
    /\ UNCHANGED <<policy, head, cold, qual, file, log, memory, crashes>>

(* init_pair: two cold initializations, one after the other. init_once     *)
(* reads the commit first, and passes when all units were ready in time    *)
(* and no request was sent.                                                *)
StartCold ==
    /\ Core
    /\ task = "idle"
    /\ ~ (cold.status = "pass" /\ \A i \in 1 .. 2 : cold.runs[i] = head)
    /\ task' = "cold"
    /\ pc' = "once"
    /\ ArchiveCampaigns
    /\ UNCHANGED <<policy, head, g0, cold, qual, memory, seen, ledger,
                   controls, stopAll, left, crashes>>

InitOnce ==
    /\ task = "cold"
    /\ \E passed \in BOOLEAN :
         LET runs == Append(seen, head)
         IN IF passed /\ Len(runs) < 2
            THEN /\ seen' = runs
                 /\ UNCHANGED <<cold, changed, task, pc, ledger, controls, stopAll, left>>
            ELSE /\ cold' = [status |-> IF passed THEN "pass" ELSE "fail",
                             runs |-> runs]
                 /\ Anew({<<"cold", 0>>})
                 /\ Forget
    /\ UNCHANGED <<policy, head, g0, qual, file, log, memory, crashes>>

(* qualify: the fingerprint of the preflight, ...                          *)
StartQualify ==
    /\ task = "idle"
    /\ policy # "memory"
    /\ ~ (qual.status = "pass" /\ qual.head = head)
    /\ task' = "qualify"
    /\ pc' = "judge"
    /\ seen' = <<head>>
    /\ ArchiveCampaigns
    /\ UNCHANGED <<policy, head, g0, cold, qual, memory, ledger, controls,
                   stopAll, left, crashes>>

(* ... and the evidence: a passed calibration and a passed rehearsal of    *)
(* all its jobs, unchanged, both of that commit, and for a core campaign   *)
(* the cold pair.                                                          *)
RehearsalComplete ==
    /\ file["smoke"].status = "pass"
    /\ Len(file["smoke"].runs) = Len(Jobs("smoke"))
    /\ \A i \in DOMAIN file["smoke"].runs :
         LET r == file["smoke"].runs[i]
         IN r.status = "pass" /\ r.job = i

Mutant_QualifiesByCalibration(commit) ==
    /\ g0.status = "pass"
    /\ g0.head = commit
    /\ Unchanged(<<"g0", 0>>)
    /\ RehearsalComplete
    /\ RehearsalIntact
    /\ Core => ColdHolds(head)

Qualifies(commit) ==
    /\ g0.status = "pass"
    /\ g0.head = commit
    /\ Unchanged(<<"g0", 0>>)
    /\ RehearsalComplete
    /\ RehearsalIntact
    /\ file["smoke"].head = commit
    /\ Core => ColdHolds(head)

Qualify ==
    /\ task = "qualify"
    /\ \E preflight \in BOOLEAN :
         qual' = [status |-> IF preflight /\ Qualifies(seen[1]) THEN "pass" ELSE "fail",
                  head |-> seen[1]]
    /\ Forget
    /\ UNCHANGED <<policy, head, g0, cold, file, log, changed, memory, crashes>>

(* qualification_guard: the qualification is of the commit that is checked *)
(* out and its evidence is still there; the immediate preflight may fail.  *)
GuardHolds ==
    /\ Core => ColdHolds(head)
    /\ qual.status = "pass"
    /\ qual.head = head
    /\ Unchanged(<<"g0", 0>>)
    /\ RehearsalIntact

-----------------------------------------------------------------------------
(* The campaigns.                                                          *)

FirstPc(kind) == IF kind = "smoke" THEN "execute" ELSE "guard"

(* A campaign begins with an empty ledger and names the commit it is of.   *)
(* The one it starts after keeps its directory, but is the newest no more. *)
(* Rehearsing a commit again that was rehearsed is left out.               *)
StartCampaign(kind) ==
    /\ task = "idle"
    /\ policy # "memory"
    /\ kind \in {"smoke", policy}
    /\ kind = "smoke" =>
         ~ (file["smoke"].status = "pass" /\ file["smoke"].head = head)
    /\ kind \in Measured => GuardHolds
    /\ task' = kind
    /\ pc' = FirstPc(kind)
    /\ seen' = <<head>>
    /\ left' = IF kind = "core" THEN Budget ELSE 0
    /\ LET old == IF kind = "smoke" THEN Kinds ELSE {kind}
       IN /\ file' = [k \in Kinds |-> IF k \in old THEN NoFile ELSE file[k]]
          /\ log' = [k \in Kinds |-> IF k \in old THEN <<>> ELSE log[k]]
          /\ changed' = {e \in changed : e[1] \notin old}
    /\ UNCHANGED <<policy, head, g0, cold, qual, memory, ledger, controls,
                   stopAll, crashes>>

(* --resume-from: the records up to the first that did not pass, if the    *)
(* identity is the same and no evidence of theirs was changed.             *)
Mutant_AllRecords(runs) == runs

PassedPrefix(runs) ==
    SubSeq(runs, 1, Cardinality({i \in DOMAIN runs :
                       \A j \in 1 .. i : runs[j].status = "pass"}))

SameIdentity(old) == old.head = head

ControlIn(runs, kind) ==
    IF \E i \in DOMAIN runs : Jobs(kind)[runs[i].job].control
    THEN (CHOOSE r \in {runs[i] : i \in DOMAIN runs} : Jobs(kind)[r.job].control).root
    ELSE 0

ResumeCampaign(kind) ==
    /\ task = "idle"
    /\ kind \in {"smoke", policy} \ {"core"}
    /\ file[kind].status \in {"running", "stopped"}
    /\ SameIdentity(file[kind])
    /\ kind \in Measured => GuardHolds
    /\ LET runs == PassedPrefix(file[kind].runs)
       IN /\ \A i \in DOMAIN runs : Unchanged(<<kind, runs[i].root>>)
          /\ Len(log[kind]) - Len(runs) <= MaxRepeats
          /\ ledger' = runs
          /\ controls' = ControlIn(runs, kind)
          /\ pc' = IF Len(runs) = Len(Jobs(kind)) THEN "finish" ELSE FirstPc(kind)
    /\ task' = kind
    /\ seen' = <<head>>
    /\ UNCHANGED <<policy, head, artefacts, changed, memory, stopAll, left, crashes>>

Current == Len(ledger) + 1

(* A core campaign leaves a job out after a stop, when its time would be   *)
(* up (the loaded L2 is counted together with its control), when its       *)
(* family has had a valid failure, and when its background was never       *)
(* established.                                                            *)
Estimate(job) == IF job.case = "L2" /\ job.control THEN 2 ELSE 1

OutOfTime(job) == left <= Estimate(job)

FamilyStopped(job) ==
    \E i \in DOMAIN ledger :
        /\ ledger[i].status = "valid_failure"
        /\ Jobs("core")[ledger[i].job].case = job.case

Stable(case) ==
    \E i \in DOMAIN ledger :
        /\ ledger[i].status = "pass"
        /\ Jobs("core")[ledger[i].job].case = case

LeftOut(job) ==
    \/ stopAll
    \/ OutOfTime(job)
    \/ FamilyStopped(job)
    \/ job.case = "L2" /\ ~ (Stable("U1") /\ Stable("U2"))

Record(status, root) == [job |-> Current, status |-> status, root |-> root]

Writes(status) ==
    file' = [file EXCEPT ![task] =
               [status |-> status, head |-> seen[1], runs |-> ledger']]

Onward ==
    /\ UNCHANGED <<task, seen>>
    /\ pc' = IF Len(ledger') = Len(Jobs(task)) THEN "finish" ELSE FirstPc(task)

LeaveOut ==
    /\ task = "core"
    /\ pc = "guard"
    /\ LeftOut(Jobs("core")[Current])
    /\ stopAll' = (stopAll \/ OutOfTime(Jobs("core")[Current]))
    /\ ledger' = Append(ledger, Record("not_run", 0))
    /\ Writes("running")
    /\ Onward
    /\ UNCHANGED <<policy, head, g0, cold, qual, log, changed, memory, controls,
                   left, crashes>>

(* The guard before each job. It ends a formal campaign, whose last file   *)
(* stays; in a core campaign it is caught like any other exception.        *)
RunOf(verdict) ==
    [job |-> Current, head |-> head, verdict |-> verdict,
     control |-> IF Jobs(task)[Current] = Job("L2", FALSE) THEN controls ELSE 0]

Guard ==
    /\ pc = "guard"
    /\ task = "core" => ~ LeftOut(Jobs("core")[Current])
    /\ \/ /\ GuardHolds
          /\ pc' = "execute"
          /\ UNCHANGED <<log, task, seen, ledger, controls, stopAll, left>>
       \/ IF task = "core"
          THEN /\ log' = [log EXCEPT !["core"] = Append(@, RunOf("raised"))]
               /\ pc' = "record"
               /\ UNCHANGED <<task, seen, ledger, controls, stopAll, left>>
          ELSE Forget /\ UNCHANGED log
    /\ UNCHANGED <<policy, head, g0, cold, qual, file, changed, memory, crashes>>

(* execute_case with its verdict and its correctness: passed, a valid      *)
(* measurement of a system that is too weak, an invalid one, wrong data,   *)
(* or an exception. A loaded L2 without a control is an exception too. The *)
(* deadline of a core campaign makes what is under way invalid. The other  *)
(* campaigns ask only whether the run passed.                              *)
Outcomes ==
    IF task = "core" THEN {"pass", "weak", "invalid", "wrong", "raised"}
    ELSE {"pass", "weak", "raised"}

OutcomesOf(job, late) ==
    Outcomes \ ((IF late THEN {"pass", "weak"} ELSE {})
                \cup (IF job = Job("L2", FALSE) /\ controls = 0
                      THEN Outcomes \ {"raised"} ELSE {}))

Execute ==
    /\ pc = "execute"
    /\ \E units \in IF task = "core" THEN 1 .. 2 ELSE {1} :
         LET job == Jobs(task)[Current]
             late == task = "core" /\ left < units
         IN \E o \in OutcomesOf(job, late) :
              /\ log' = [log EXCEPT ![task] = Append(@, RunOf(o))]
              /\ IF o = "raised" /\ task # "core"
                 THEN Forget
                 ELSE /\ pc' = "record"
                      /\ controls' = IF job.control /\ o # "raised"
                                     THEN Len(log'[task]) ELSE controls
                      /\ left' = IF task # "core" \/ late THEN 0 ELSE left - units
                      /\ UNCHANGED <<task, seen, ledger, stopAll>>
    /\ UNCHANGED <<policy, head, g0, cold, qual, file, changed, memory, crashes>>

(* The record of the run, and the file. A failure ends the campaign unless *)
(* it is a core one, which stops for wrong data or an invalid measurement. *)
StatusOf(verdict) ==
    CASE verdict = "pass" -> "pass"
      [] verdict \in {"weak", "wrong"} -> "valid_failure"
      [] OTHER -> "invalid_measurement"

RecordRun ==
    /\ pc = "record"
    /\ LET root == Len(log[task])
           verdict == log[task][root].verdict
       IN /\ ledger' = Append(ledger, Record(StatusOf(verdict), root))
          /\ IF task = "core" \/ verdict = "pass"
             THEN /\ Writes("running")
                  /\ stopAll' = (stopAll \/ verdict \notin {"pass", "weak"})
                  /\ Onward
                  /\ UNCHANGED <<controls, left>>
             ELSE /\ Writes("stopped")
                  /\ task' = "stopping"
                  /\ pc' = "stopping"
                  /\ UNCHANGED <<seen, controls, stopAll, left>>
    /\ UNCHANGED <<policy, head, g0, cold, qual, log, changed, memory, crashes>>

Stopping ==
    /\ task = "stopping"
    /\ Forget
    /\ UNCHANGED <<policy, head, artefacts, changed, memory, crashes>>

AllPassed(runs) == \A i \in DOMAIN runs : runs[i].status = "pass"

Finish ==
    /\ pc = "finish"
    /\ file' = [file EXCEPT ![task] =
                  [status |-> IF task # "core" \/ AllPassed(ledger)
                              THEN "pass" ELSE "ended",
                   head |-> seen[1], runs |-> ledger]]
    /\ Forget
    /\ UNCHANGED <<policy, head, g0, cold, qual, log, changed, memory, crashes>>

-----------------------------------------------------------------------------
(* The memory qualification: one observation of U1, for which a file is    *)
(* created that must not exist yet, an assessment and the restore.         *)

Claimable == ~ claimed

StartMemory ==
    /\ policy = "memory"
    /\ task = "idle"
    /\ Claimable
    /\ claimed' = TRUE
    /\ task' = "memory"
    /\ pc' = "observe"
    /\ UNCHANGED <<policy, head, artefacts, changed, observations, database,
                   seen, ledger, controls, stopAll, left, crashes>>

Observe ==
    /\ pc = "observe"
    /\ observations' = observations + 1
    /\ database' = "used"
    /\ \/ /\ pc' = "restore"
          /\ UNCHANGED <<task, seen, ledger, controls, stopAll, left>>
       \/ Forget
    /\ UNCHANGED <<policy, head, artefacts, changed, claimed, crashes>>

Restore ==
    /\ pc = "restore"
    /\ database' \in {"baseline", "used"}
    /\ Forget
    /\ UNCHANGED <<policy, head, artefacts, changed, claimed, observations, crashes>>

-----------------------------------------------------------------------------
Process ==
    \/ G0Leg \/ InitOnce \/ Qualify
    \/ LeaveOut \/ Guard \/ Execute \/ RecordRun \/ Stopping \/ Finish
    \/ Observe \/ Restore

Operator ==
    \/ StartG0 \/ StartCold \/ StartQualify \/ StartMemory
    \/ \E k \in Kinds : StartCampaign(k) \/ ResumeCampaign(k)

Next ==
    \/ Process
    \/ Operator
    \/ Crash
    \/ NewCommit
    \/ ChangeEvidence

Spec == Init /\ [][Next]_vars

-----------------------------------------------------------------------------
TypeOK ==
    /\ policy \in Policies
    /\ head \in 1 .. MaxHead
    /\ g0.status \in {"none", "pass", "fail"}
    /\ cold.status \in {"none", "pass", "fail"}
    /\ qual.status \in {"none", "pass", "fail"}
    /\ \A k \in Kinds :
         /\ file[k].status \in {"none", "torn", "running", "stopped", "pass", "ended"}
         /\ \A i \in DOMAIN file[k].runs :
              file[k].runs[i].root \in 0 .. Len(log[k])
    /\ changed \subseteq ({"g0", "cold"} \X {0}) \cup (Kinds \X Nat)
    /\ claimed \in BOOLEAN
    /\ observations \in Nat
    /\ database \in {"baseline", "used"}
    /\ task \in {"idle", "g0", "cold", "qualify", "memory", "stopping"} \cup Kinds
    /\ pc \in {"idle", "leg", "once", "judge", "guard", "execute", "record",
               "stopping", "finish", "observe", "restore"}
    /\ left \in 0 .. Budget
    /\ stopAll \in BOOLEAN

(* A core campaign goes on only where that is sound: no run follows one    *)
(* that was invalid, raised or found wrong data; none follows a failure of *)
(* its own family; and L2 runs only on the background that U1 and U2 have  *)
(* established, its loaded part only against a control that passed         *)
(* (phase14_core.py, campaign).                                            *)
RunsOnSoundGround ==
    LET runs == log["core"]
        case(i) == Jobs("core")[runs[i].job].case
        passed(i) == runs[i].verdict = "pass"
    IN \A j \in DOMAIN runs :
         /\ \A i \in 1 .. j - 1 :
              /\ runs[i].verdict \in {"pass", "weak"}
              /\ case(i) = case(j) => passed(i)
         /\ case(j) = "L2" =>
              \A c \in {"U1", "U2"} : \E i \in 1 .. j - 1 : case(i) = c /\ passed(i)
         /\ Jobs("core")[runs[j].job] = Job("L2", FALSE) =>
              LET c == runs[j].control
              IN c \in 1 .. j - 1 /\ passed(c) /\ Jobs("core")[runs[c].job].control

(* A campaign that is recorded as passed, through whatever crashes and     *)
(* resumptions, has a passed run of every job, each once and in the order  *)
(* they were run, and its loaded L2 was compared with the control in its   *)
(* own record; and all but the last were run from the commit it names,     *)
(* which the guards see to.                                                *)
PassedCampaignIsWhole ==
    \A k \in Kinds : file[k].status = "pass" =>
        LET runs == file[k].runs
            run(i) == log[k][runs[i].root]
        IN /\ Len(runs) = Len(Jobs(k))
           /\ \A i \in DOMAIN runs :
                /\ runs[i].root # 0
                /\ run(i).job = i
                /\ run(i).verdict = "pass"
                /\ \A j \in 1 .. i - 1 : runs[j].root < runs[i].root
                /\ k # "smoke" /\ i < Len(runs) => run(i).head = file[k].head
                /\ Jobs(k)[i] = Job("L2", FALSE) =>
                     run(i).control = runs[i - 1].root

(* While a formal or core job of the qualified commit is being run, that   *)
(* commit has been rehearsed: a whole rehearsal ran from it, a whole       *)
(* calibration was done, for a core job two cold initializations ran from  *)
(* it, and what remains of all that is what was qualified.                 *)
OnlyRehearsedCommitsAreMeasured ==
    /\ pc = "execute"
    /\ task \in Measured
    /\ head = qual.head
    => /\ qual.status = "pass"
       /\ g0.legs = Len(Sampled)
       /\ \A i \in DOMAIN Jobs("smoke") :
            LET r == log["smoke"][file["smoke"].runs[i].root]
            IN r.job = i /\ r.verdict = "pass" /\ r.head = head
       /\ Core => Len(cold.runs) = 2 /\ \A i \in 1 .. 2 : cold.runs[i] = head

(* The memory observation happens at most once, also when its process dies *)
(* and is started again (the exclusive creation of its claim).             *)
ObservedOnce == observations <= 1

(* So a campaign measures only where its results mean something: a commit  *)
(* that was rehearsed, on ground the earlier runs left sound, and memory   *)
(* once (phase14_campaign.py, phase14_core.py, phase14_memory.py).         *)
CampaignsAreSound == OnlyRehearsedCommitsAreMeasured /\ RunsOnSoundGround /\ ObservedOnce

(* "Always verify and restore known DB/Redis baseline after diagnostic     *)
(* business" (phase14_memory.py, qualification): when its process is over  *)
(* without having died, the database is the baseline.                      *)
BaselineIsRestored ==
    task = "idle" /\ crashes = 0 => database = "baseline"
=============================================================================
