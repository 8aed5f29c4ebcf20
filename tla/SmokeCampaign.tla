--------------------------- MODULE SmokeCampaign ---------------------------
(***************************************************************************)
(* The local smoke campaign of src/performance/scripts/run_phase14.py.     *)
(* prepare exports a dataset, loads it and saves a snapshot of the         *)
(* database; a campaign runs its jobs one after the other, each on a       *)
(* database restored from that snapshot and an emptied Redis, and writes   *)
(* what has passed to campaign.json, from which a later campaign may go    *)
(* on.  The process may die between any two of its commands, the database  *)
(* is restored in many statements, and a generator outlives its runner.    *)
(***************************************************************************)
EXTENDS Naturals, Sequences

CONSTANTS
    Jobs,        \* the jobs of a campaign, in order: "load" or "expiry"
    MaxStarts,   \* bound on the processes
    MaxFaults,   \* bound on commands that fail, and on cases that do
    MaxCrashes,  \* bound on processes that die
    MaxEdits     \* bound on changes of the targets, and of saved evidence

ConstantsAssumption ==
    /\ Jobs \in Seq({"load", "expiry"})
    /\ MaxStarts \in Nat /\ MaxFaults \in Nat /\ MaxCrashes \in Nat /\ MaxEdits \in Nat

VARIABLES
    pc,        \* the step of the process: "off" when none runs
    doing,     \* "prepare" or "campaign"
    targets,   \* the content of phase14-targets.json, its version and guard left aside
    using,     \* the version the process has read
    db,        \* "empty", "base", "dirty", "partial"
    redis,     \* "clean", "dirty"
    backend,   \* "up", "stopped"
    export,    \* the data directory: "none", "started", "complete", and its targets
    dump,      \* base.dump: what it holds, and its number
    hash,      \* base.sha256: the number of the dump it is of
    generator, \* k6: "none", "running", "gone"
    overdue,   \* the deadline of the case has passed
    passed,    \* the result of the case that has just ended
    records,   \* of this campaign: a run for each job
    checkpoint,\* campaign.json: the records of the newest that was written
    evidence,  \* per run: its job, targets, and smoke-check.json
    starts, faults, crashes, edits,
    tainted,   \* history: a process began beside a generator of another one
    finished   \* history: a campaign has returned 0

process == <<pc, doing, using, overdue, passed, records>>
system == <<db, redis, backend>>
files == <<export, dump, hash, checkpoint, evidence>>
bounds == <<starts, faults, crashes, edits>>
vars == <<process, targets, system, files, generator, bounds, tainted, finished>>

Runs == 1..Len(evidence)

Init ==
    /\ pc = "off" /\ doing = "prepare" /\ targets = 1 /\ using = 1
    /\ overdue = FALSE /\ passed = FALSE /\ records = <<>>
    /\ db = "empty" /\ redis = "clean" /\ backend = "stopped"
    /\ export = [state |-> "none", targets |-> 0]
    /\ dump = [holds |-> "nothing", number |-> 0] /\ hash = 0
    /\ checkpoint = <<>> /\ evidence = <<>>
    /\ generator = "none"
    /\ starts = 0 /\ faults = 0 /\ crashes = 0 /\ edits = 0
    /\ tainted = FALSE /\ finished = FALSE

Goto(next) == pc' = next /\ UNCHANGED <<doing, using, overdue, passed, records>>
Fault == faults < MaxFaults /\ faults' = faults + 1
NoFault == UNCHANGED bounds
Faulted == Fault /\ UNCHANGED <<starts, crashes, edits>>
Raise == pc' = "off" /\ UNCHANGED <<doing, using, overdue, passed, records>>
Others == UNCHANGED <<targets, tainted, finished>>

-----------------------------------------------------------------------------
(* Outside of the runner.                                                  *)

(* A request of a generator that reaches a backend changes both stores.    *)
Request ==
    /\ generator = "running" /\ backend = "up" /\ db = "base"
    /\ db' = "dirty" /\ redis' = "dirty"
    /\ UNCHANGED <<process, backend, files, generator, bounds>> /\ Others

GeneratorEnds ==
    /\ generator = "running"
    /\ generator' = "gone"
    /\ UNCHANGED <<process, system, files, bounds>> /\ Others

(* The process dies; nobody stops what it has started.                     *)
Crash ==
    /\ pc # "off" /\ crashes < MaxCrashes
    /\ crashes' = crashes + 1
    /\ pc' = "off"
    /\ UNCHANGED <<doing, using, overdue, passed, records, system, files, generator,
                   starts, faults, edits>> /\ Others

EditTargets ==
    /\ edits < MaxEdits /\ edits' = edits + 1
    /\ targets' = targets + 1
    /\ UNCHANGED <<process, system, files, generator, starts, faults, crashes, tainted, finished>>

LoseEvidence ==
    /\ edits < MaxEdits /\ edits' = edits + 1
    /\ \E r \in Runs : evidence[r].check /\ evidence' = [evidence EXCEPT ![r].check = FALSE]
    /\ UNCHANGED <<process, system, export, dump, hash, checkpoint, generator,
                   starts, faults, crashes>> /\ Others

-----------------------------------------------------------------------------
(* A process begins.                                                       *)

Begin(action, first) ==
    /\ pc = "off" /\ starts < MaxStarts
    /\ starts' = starts + 1
    /\ pc' = first /\ doing' = action /\ using' = targets
    /\ overdue' = FALSE /\ passed' = FALSE
    /\ tainted' = (tainted \/ generator = "running")
    /\ UNCHANGED <<targets, system, files, generator, faults, crashes, edits, finished>>

Prepare == Begin("prepare", "export") /\ records' = <<>>

Campaign == Begin("campaign", "next") /\ records' = <<>>

(* A campaign that goes on takes over the records up to the first that     *)
(* did not pass, and refuses those whose evidence no longer says so or     *)
(* was made with other targets.                                            *)
PassedPrefix(saved) ==
    LET n == CHOOSE k \in 0..Len(saved) :
                /\ \A i \in 1..k : saved[i].passed
                /\ k = Len(saved) \/ ~saved[k + 1].passed
    IN SubSeq(saved, 1, n)

Mutant_TrustedByCheck(record) == evidence[record.run].check
Trusted(record) == evidence[record.run].check /\ evidence[record.run].targets = targets

Resume ==
    /\ checkpoint # <<>>
    /\ \A i \in 1..Len(PassedPrefix(checkpoint)) : Trusted(checkpoint[i])
    /\ Begin("campaign", "next")
    /\ records' = PassedPrefix(checkpoint)

-----------------------------------------------------------------------------
(* Environment.reset(): check, stop the clients, restore, empty Redis,     *)
(* start the clients.  Any command may fail and ends the process.          *)

Snapshot == doing = "campaign"

Fails(step) == pc = step /\ Faulted /\ Raise /\ UNCHANGED <<system, files, generator>> /\ Others

(* A snapshot must be the one that was hashed, and the dataset that of the *)
(* targets.                                                                *)
Mutant_CheckWithoutHash ==
    /\ pc = "check"
    /\ IF Snapshot /\ (dump.number = 0 \/ export.targets # using)
       THEN Raise ELSE Goto("stop")
    /\ UNCHANGED <<system, files, generator>> /\ NoFault /\ Others

Check ==
    /\ pc = "check"
    /\ IF Snapshot /\ (dump.number = 0 \/ hash # dump.number \/ export.targets # using)
       THEN Raise ELSE Goto("stop")
    /\ UNCHANGED <<system, files, generator>> /\ NoFault /\ Others

StopClients ==
    /\ pc = "stop"
    /\ backend' = "stopped"
    /\ Goto("restore")
    /\ UNCHANGED <<db, redis, files, generator>> /\ NoFault /\ Others

(* pg_restore drops and creates table after table; dataset.sql replaces    *)
(* the generated rows in one transaction and needs the tables.             *)
Restore ==
    /\ pc = "restore"
    /\ IF Snapshot
       THEN \/ db' = dump.holds /\ Goto("flush") /\ NoFault
            \/ db' = "partial" /\ Raise /\ Faulted
            \/ db' = "partial" /\ UNCHANGED process /\ NoFault
       ELSE IF db = "partial" THEN Raise /\ UNCHANGED db /\ NoFault
                              ELSE db' = "base" /\ Goto("flush") /\ NoFault
    /\ UNCHANGED <<redis, backend, files, generator>> /\ Others

Flush ==
    /\ pc = "flush"
    /\ redis' = "clean"
    /\ Goto("up")
    /\ UNCHANGED <<db, backend, files, generator>> /\ NoFault /\ Others

StartClients ==
    /\ pc = "up"
    /\ backend' = "up"
    /\ Goto(IF doing = "prepare" THEN "invariants" ELSE "ready")
    /\ UNCHANGED <<db, redis, files, generator>> /\ NoFault /\ Others

-----------------------------------------------------------------------------
(* prepare().  The manifest of the export is written last, and an export   *)
(* into a directory that is not empty is refused.                          *)

Export ==
    /\ pc = "export"
    /\ CASE export.state = "complete" ->
              /\ IF export.targets = using THEN Goto("check") ELSE Raise
              /\ UNCHANGED export
         [] export.state = "started" -> Raise /\ UNCHANGED export
         [] OTHER -> /\ export' = [state |-> "started", targets |-> 0]
                     /\ Goto("exporting")
    /\ UNCHANGED <<system, dump, hash, checkpoint, evidence, generator>> /\ NoFault /\ Others

Exported ==
    /\ pc = "exporting"
    /\ export' = [state |-> "complete", targets |-> using]
    /\ Goto("check")
    /\ UNCHANGED <<system, dump, hash, checkpoint, evidence, generator>> /\ NoFault /\ Others

Invariants ==
    /\ pc = "invariants"
    /\ Goto("dump")
    /\ UNCHANGED <<system, files, generator>> /\ NoFault /\ Others

(* What pg_dump has printed is written, also when it has failed.           *)
Dump ==
    /\ pc = "dump"
    /\ \/ dump' = [holds |-> db, number |-> dump.number + 1] /\ Goto("hash") /\ NoFault
       \/ dump' = [holds |-> "partial", number |-> dump.number + 1] /\ Raise /\ Faulted
    /\ UNCHANGED <<system, export, hash, checkpoint, evidence, generator>> /\ Others

Hash ==
    /\ pc = "hash"
    /\ hash' = dump.number
    /\ Raise
    /\ UNCHANGED <<system, export, dump, checkpoint, evidence, generator>> /\ NoFault /\ Others

-----------------------------------------------------------------------------
(* campaign() and execute_case() or execute_expiry().                      *)

(* The next job, or the end; a campaign that had nothing to do has written *)
(* no campaign.json.                                                       *)
NextJob ==
    /\ pc = "next"
    /\ overdue' = FALSE /\ passed' = FALSE
    /\ UNCHANGED <<doing, using, records>>
    /\ IF Len(records) = Len(Jobs) THEN pc' = "off" /\ finished' = TRUE
                                   ELSE pc' = "check" /\ UNCHANGED finished
    /\ UNCHANGED <<targets, tainted, system, files, generator, bounds>>

Job == Jobs[Len(records) + 1]

NewEvidence(check) == Append(evidence, [job |-> Len(records) + 1, targets |-> using, check |-> check])

(* The case begins: its generator, or the fixture of orders that expire.   *)
BeginCase ==
    /\ pc = "ready"
    /\ evidence' = NewEvidence(FALSE)
    /\ IF Job = "load" THEN generator' = "running" /\ UNCHANGED <<db, redis>>
                       ELSE db' = "dirty" /\ redis' = "dirty" /\ UNCHANGED generator
    /\ Goto("watch")
    /\ UNCHANGED <<backend, export, dump, hash, checkpoint>> /\ NoFault /\ Others

Deadline ==
    /\ pc = "watch" /\ ~overdue
    /\ overdue' = TRUE
    /\ UNCHANGED <<pc, doing, using, passed, records, system, files, generator, bounds>> /\ Others

(* The case ends with its generator or when its orders have expired, or    *)
(* it is stopped; what is stopped, and what is late, has failed.  The      *)
(* errors of docker inspect and docker stop are not looked at.             *)
CaseEnds ==
    /\ pc = "watch"
    /\ \/ /\ Job = "load" => generator = "gone"
          /\ passed' = ~overdue /\ NoFault /\ UNCHANGED generator
       \/ /\ passed' = FALSE /\ ((overdue /\ NoFault) \/ Faulted)
          /\ generator' = IF Job = "load" THEN "gone" ELSE generator
       \/ passed' = FALSE /\ Faulted /\ UNCHANGED generator
    /\ pc' = "judge"
    /\ UNCHANGED <<doing, using, overdue, records, system, files>> /\ Others

(* finish_case(): smoke-check.json.                                        *)
Judge ==
    /\ pc = "judge"
    /\ \/ UNCHANGED passed /\ NoFault
       \/ passed /\ passed' = FALSE /\ Faulted
    /\ evidence' = [evidence EXCEPT ![Len(evidence)].check = passed']
    /\ pc' = "record"
    /\ UNCHANGED <<doing, using, overdue, records, system, export, dump, hash, checkpoint,
                   generator>> /\ Others

(* The first failure ends the campaign.                                    *)
Record ==
    /\ pc = "record"
    /\ records' = Append(records, [job |-> Len(records) + 1, run |-> Len(evidence), passed |-> passed])
    /\ checkpoint' = records'
    /\ pc' = IF passed THEN "next" ELSE "off"
    /\ UNCHANGED <<doing, using, overdue, passed, system, export, dump, hash, evidence, generator>>
    /\ NoFault /\ Others

(* Where an error ends the process; the generator it leaves behind goes on. *)
Fallible == {"check", "stop", "flush", "up", "exporting", "invariants", "ready", "watch", "judge"}

Step ==
    \/ Check \/ StopClients \/ Restore \/ Flush \/ StartClients
    \/ Export \/ Exported \/ Invariants \/ Dump \/ Hash
    \/ NextJob \/ BeginCase \/ CaseEnds \/ Judge \/ Record

Next ==
    \/ Request \/ GeneratorEnds \/ Crash \/ EditTargets \/ LoseEvidence
    \/ Prepare \/ Campaign \/ Resume
    \/ Step \/ Deadline
    \/ \E step \in Fallible : Fails(step)

(* Commands return and time passes; a generator may hang.  A restore that  *)
(* goes on and on is not one of the program's steps.                       *)
Progress == Step /\ pc' # pc

Spec == Init /\ [][Next]_vars /\ WF_vars(Progress) /\ WF_vars(Deadline)

-----------------------------------------------------------------------------
(* Every case begins on the prepared data with an empty Redis, whatever    *)
(* an earlier case, an interrupted restore, a torn snapshot or a crash has *)
(* left behind, and the backend never serves a database that is only       *)
(* partly restored (run_phase14.py:213); the exception is a generator that *)
(* a dead runner has left running.                                         *)
CaseStartsClean ==
    /\ backend = "up" => db # "partial"
    /\ pc = "ready" /\ ~tainted => db = "base" /\ redis = "clean" /\ backend = "up"

(* A campaign that returns 0 has run every job, in order and on the        *)
(* targets it was called with, in runs of their own that passed, also      *)
(* when it was resumed, perhaps more than once (run_phase14.py:622).       *)
ReturnsWhole ==
    ~finished /\ finished' =>
        /\ Len(records) = Len(Jobs) /\ \A i \in 1..Len(Jobs) : records[i].passed
        /\ \A i \in 1..Len(Jobs) :
             LET run == records[i].run IN
             /\ evidence[run].job = i /\ evidence[run].targets = using
             /\ \A j \in 1..Len(Jobs) : i # j => records[j].run # run

WholeCampaign == [][ReturnsWhole]_vars
=============================================================================
