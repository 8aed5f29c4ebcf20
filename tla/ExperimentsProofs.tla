--------------------------- MODULE ExperimentsProofs ---------------------------
(***************************************************************************)
(* Proofs about the load experiments: a campaign on two hosts measures     *)
(* only what was rehearsed and on sound ground, and one that is recorded   *)
(* as passed is whole, whatever processes die and are resumed; a point of  *)
(* the polling experiment takes no stale sighting for a measurement and    *)
(* hands nothing on.  For any numbers of commits, crashes, changes of      *)
(* evidence, repeated runs, points, faults and lapsed holds.               *)
(***************************************************************************)
EXTENDS MCExperiments, FiniteSetTheorems, SequenceTheorems, WellFoundedInduction, TLAPS

Statuses == {"pass", "valid_failure", "invalid_measurement", "not_run"}
Verdicts == {"pass", "weak", "invalid", "wrong", "raised"}
FileStatuses == {"none", "torn", "running", "stopped", "pass", "ended"}

Records == [job : Nat, status : Statuses, root : Nat]
RunRecords == [job : Nat, head : Nat, verdict : Verdicts, control : Nat]

\* The types of what the artefacts and the process refer to each other by.
ArtefactsAreKnown ==
    /\ head \in Nat
    /\ g0 \in [status : {"none", "pass", "fail"}, head : Nat, legs : Nat]
    /\ cold \in [status : {"none", "pass", "fail"}, runs : Seq(Nat)]
    /\ qual \in [status : {"none", "pass", "fail"}, head : Nat]
    /\ file \in [Kinds -> [status : FileStatuses, head : Nat, runs : Seq(Records)]]
    /\ log \in [Kinds -> Seq(RunRecords)]

ProcessIsKnown ==
    /\ ledger \in Seq(Records) /\ controls \in Nat /\ stopAll \in BOOLEAN
    /\ task = "idle" => seen = <<>> /\ ledger = <<>> /\ controls = 0 /\ stopAll = FALSE
    /\ task \in Kinds \cup {"qualify"} => seen[1] \in Nat /\ seen[1] <= head
    /\ task = "g0" => seen \in Seq(BOOLEAN)
    /\ task = "cold" => seen \in Seq(Nat) /\ Len(seen) < 2
    /\ task \in Kinds => pc \in {"guard", "execute", "record", "finish"}
    /\ pc = "guard" => task \in Measured
    /\ pc \in {"execute", "record", "finish"} => task \in Kinds

\* A qualification of the commit that is checked out still has its evidence, and nothing is
\* under way that would replace it.
EvidenceStands ==
    /\ g0.status = "pass" => g0.legs = Len(Sampled)
    /\ cold.status = "pass" => Len(cold.runs) = 2
    /\ qual.head <= head
    /\ qual.status = "pass" /\ qual.head = head =>
          /\ g0.status = "pass" /\ g0.head = head
          /\ file["smoke"].status = "pass" /\ file["smoke"].head = head
          /\ Core => cold.status = "pass" /\ \A i \in 1 .. 2 : cold.runs[i] = head
          /\ task \notin {"g0", "cold", "smoke", "qualify"}
    /\ task \in Measured => qual.status = "pass" /\ qual.head = seen[1]

\* Records are of the jobs in their order, and each but those of jobs left out tells the
\* verdict of a run of its own, later than those before it.
Tells(runs, runsOf) ==
    \A i \in DOMAIN runs :
        /\ runs[i].job = i
        /\ runs[i].root \in 0 .. Len(runsOf)
        /\ runs[i].root = 0 => runs[i].status = "not_run"
        /\ runs[i].root # 0 =>
              /\ runsOf[runs[i].root].job = i
              /\ runs[i].status = StatusOf(runsOf[runs[i].root].verdict)
              /\ \A j \in 1 .. i - 1 : runs[j].root < runs[i].root

Loaded(kind, i) == Jobs(kind)[i] = Job("L2", FALSE)

\* A loaded L2 that passed was compared with the control before it.
Compares(kind, runs, runsOf) ==
    \A i \in DOMAIN runs :
        Loaded(kind, i) /\ runs[i].status = "pass" /\ runs[i - 1].status = "pass" =>
            runsOf[runs[i].root].control = runs[i - 1].root

\* What was run before a run that passed was run from the commit of the campaign.
StaysOnCommit(runs, runsOf, commit) ==
    \A i, j \in DOMAIN runs :
        i < j /\ runs[j].status = "pass" /\ runs[i].root # 0 =>
            runsOf[runs[i].root].head = commit

SoundRecords(kind, runs, runsOf, commit) ==
    /\ Len(runs) <= Len(Jobs(kind))
    /\ Tells(runs, runsOf)
    /\ Compares(kind, runs, runsOf)
    /\ kind \in Measured => StaysOnCommit(runs, runsOf, commit)

RanBetween(runsOf, first, last) ==
    \A r \in DOMAIN runsOf : runsOf[r].head \in first .. last

\* The files of the campaigns.
FilesAreSound ==
    \A k \in Kinds :
        /\ SoundRecords(k, file[k].runs, log[k], file[k].head)
        /\ file[k].status = "pass" =>
              Len(file[k].runs) = Len(Jobs(k)) /\ AllPassed(file[k].runs)
        /\ file[k].status \notin {"none", "torn"} =>
              RanBetween(log[k], file[k].head, head)

Newest == log[task][Len(log[task])]

\* The campaign that is under way, its next job, and the run that is not recorded yet.
LedgerIsSound ==
    task \in Kinds =>
        /\ SoundRecords(task, ledger, log[task], seen[1])
        /\ task # "core" => AllPassed(ledger)
        /\ file[task].status \notin {"none", "torn"} => file[task].head = seen[1]
        /\ RanBetween(log[task], seen[1], head)
        /\ IF pc = "finish" THEN Len(ledger) = Len(Jobs(task))
           ELSE Len(ledger) < Len(Jobs(task))
        /\ pc = "execute" /\ task \in Measured => RanBetween(log[task], seen[1], seen[1])

RunIsSound ==
    pc = "record" =>
        /\ log[task] # <<>> /\ Newest.job = Current
        /\ \A i \in DOMAIN ledger : ledger[i].root < Len(log[task])
        /\ task \in Measured /\ Newest.verdict = "pass" =>
              \A r \in 1 .. Len(log[task]) - 1 : log[task][r].head = seen[1]
        /\ Loaded(task, Current) => Newest.control = controls
        /\ Jobs(task)[Current].control /\ Newest.verdict = "pass" =>
              controls = Len(log[task])

ControlIsKnown ==
    task \in Kinds =>
        \A i \in DOMAIN ledger :
            Jobs(task)[i].control /\ ledger[i].status = "pass" => controls = ledger[i].root

\* The ground that a core campaign runs on, in terms of its records.
CaseAt(i) == Jobs("core")[i].case

FailedCase(runs, i) ==
    \E n \in DOMAIN runs : runs[n].status = "valid_failure" /\ CaseAt(runs[n].job) = CaseAt(i)

PassedCase(runs, case) ==
    \E n \in DOMAIN runs : runs[n].status = "pass" /\ CaseAt(runs[n].job) = case

Background(runs) == PassedCase(runs, "U1") /\ PassedCase(runs, "U2")

StopsInTime(runs, runsOf, stop) ==
    /\ ~stop => \A i \in DOMAIN runs :
          runs[i].root # 0 => runsOf[runs[i].root].verdict \in {"pass", "weak"}
    /\ \A i \in DOMAIN runs : Jobs("core")[i].control =>
          runs[i].status = "pass" \/ stop \/ FailedCase(runs, i) \/ ~Background(runs)

\* It has a record of every run but the newest, and stops in time.
CoreIsWatched ==
    task = "core" =>
        /\ \A r \in DOMAIN log["core"] :
              \/ pc = "record" /\ r = Len(log["core"])
              \/ \E i \in DOMAIN ledger : ledger[i].root = r
        /\ StopsInTime(ledger, log["core"], stopAll)
        /\ pc = "execute" =>
              /\ ~stopAll /\ ~FailedCase(ledger, Current)
              /\ CaseAt(Current) = "L2" => Background(ledger)

\* What RunsOnSoundGround says of a sequence of runs.
SoundAt(runs, j) ==
    /\ \A i \in 1 .. j - 1 :
          /\ runs[i].verdict \in {"pass", "weak"}
          /\ CaseAt(runs[i].job) = CaseAt(runs[j].job) => runs[i].verdict = "pass"
    /\ CaseAt(runs[j].job) = "L2" =>
          \A c \in {"U1", "U2"} :
             \E i \in 1 .. j - 1 : CaseAt(runs[i].job) = c /\ runs[i].verdict = "pass"
    /\ Loaded("core", runs[j].job) =>
          /\ runs[j].control \in 1 .. j - 1
          /\ runs[runs[j].control].verdict = "pass"
          /\ Jobs("core")[runs[runs[j].control].job].control

GroundIsSound == \A j \in DOMAIN log["core"] : SoundAt(log["core"], j)

ObservationIsClaimed ==
    /\ observations \in {0, 1}
    /\ ~claimed => observations = 0
    /\ pc = "observe" => observations = 0 /\ claimed /\ task = "memory"

CampaignInv ==
    /\ ArtefactsAreKnown /\ ProcessIsKnown /\ EvidenceStands
    /\ FilesAreSound /\ LedgerIsSound /\ RunIsSound /\ ControlIsKnown
    /\ CoreIsWatched /\ GroundIsSound /\ ObservationIsClaimed

-----------------------------------------------------------------------------
(* The polling point.                                                      *)

Displays == {"AVAILABLE", "HELD"}
ProbeStates == {"off", "ended", "dwell", "cleanup"} \cup Point!Writes \cup Point!Waits

Probes == [at : ProbeStates, flow : {"abandon", "confirm"}, checkout : BOOLEAN,
           order : BOOLEAN, failed : BOOLEAN, untrue : BOOLEAN, unanswered : BOOLEAN]
Seats == [hold : BOOLEAN, spent : BOOLEAN, order : BOOLEAN, formal : Displays,
          queue : Seq(Displays)]
Views == [status : Displays, changed : BOOLEAN, unread : BOOLEAN, reset : BOOLEAN]

PointIsKnown ==
    /\ probe \in Probes /\ seat \in Seats /\ view \in Views
    /\ reason \in BOOLEAN /\ died \in BOOLEAN /\ stopProbe \in BOOLEAN

\* Once all is projected, the seat is what its order makes of it.
SeatAgrees ==
    LET ordered == IF seat.order THEN "HELD" ELSE "AVAILABLE"
    IN IF seat.queue = <<>> THEN seat.formal = ordered
       ELSE seat.queue[Len(seat.queue)] = ordered

\* What the probe would read next is what the stack shows.
ViewAgrees == view.unread \/ view.reset \/ view.status = Point!Display

\* What a probe that has not failed may rely on where it is.
ProbeRelies ==
    ~probe.failed =>
        /\ ~probe.untrue /\ probe.at # "cleanup"
        /\ probe.at \in {"holdIt", "seeHold", "abandonIt", "seeAbandon", "confirmIt",
                         "dwell", "cancelIt"} => seat.queue = <<>>
        /\ probe.at \in {"seeHold", "abandonIt", "seeAbandon", "confirmIt", "seeCancel",
                         "ended"} => ~seat.order
        /\ probe.at \in {"cancelIt", "seeConfirm"} => seat.order /\ probe.order
        /\ probe.at = "dwell" => (probe.order <=> seat.order)
        /\ probe.at \in {"dwell", "confirmIt", "seeConfirm"}
              /\ seat.formal = "AVAILABLE" /\ seat.hold => ~view.unread
        /\ probe.at = "seeConfirm" /\ seat.queue # <<>> =>
              seat.queue = <<"HELD">> /\ seat.formal = "AVAILABLE"
        /\ probe.at = "seeCancel" /\ seat.queue # <<>> =>
              seat.queue = <<"AVAILABLE">> /\ seat.formal = "HELD"

\* What the probe has noted as active, and that it has noted all.
ProbeNotes ==
    /\ ~ (probe.checkout /\ probe.order)
    /\ probe.at \in {"holdIt", "seeAbandon", "seeConfirm", "cancelIt", "seeCancel"} =>
          ~probe.checkout
    /\ probe.at \in {"holdIt", "seeHold", "abandonIt", "seeAbandon", "confirmIt",
                     "seeCancel"} => ~probe.order
    /\ ~probe.unanswered /\ ~died =>
          /\ seat.hold /\ ~seat.spent => Point!ProbeRuns /\ probe.checkout
          /\ seat.order => Point!ProbeRuns /\ probe.order

\* What the main thread has seen to.
PointIsClosed ==
    /\ step \in {"idle", "before", "launch"} => ~Point!ProbeRuns
    /\ step \in {"before", "launch"} => ~probe.checkout /\ ~probe.order
    /\ step = "launch" => seat.queue = <<>>
    /\ step \in {"cleanup", "after", "write"} => container = "none"
    /\ step \in {"remove", "cleanup", "after", "write"} /\ ~reason => ~Point!ProbeRuns
    /\ step = "write" /\ verified /\ ~reason =>
          /\ ~unprojected /\ ~holder /\ seat.queue = <<>>
          /\ seat.hold => seat.order
    /\ Point!ValidPointLeavesNothing

PointInv ==
    /\ PointIsKnown /\ SeatAgrees /\ ViewAgrees /\ ProbeRelies /\ ProbeNotes /\ PointIsClosed

-----------------------------------------------------------------------------
(* The jobs, and sequences of records about them.                          *)

\* What is at each place of a sequence of four.
LEMMA FourAre ==
    ASSUME NEW a, NEW b, NEW c, NEW d
    PROVE  LET s == <<a, b, c, d>> IN s[1] = a /\ s[2] = b /\ s[3] = c /\ s[4] = d
  OBVIOUS

\* And in one of six.
LEMMA SixAre ==
    ASSUME NEW a, NEW b, NEW c, NEW d, NEW e, NEW f
    PROVE  LET s == <<a, b, c, d, e, f>>
           IN s[1] = a /\ s[2] = b /\ s[3] = c /\ s[4] = d /\ s[5] = e /\ s[6] = f
  OBVIOUS

\* The jobs, written out.
LEMMA JobsAre ==
    /\ Len(Jobs("smoke")) = 2 /\ Len(Jobs("formal")) = 4 /\ Len(Jobs("core")) = 6
    /\ \A k \in Kinds, i \in Nat : i \in 1 .. Len(Jobs(k)) =>
          /\ Loaded(k, i) <=> (k = "formal" /\ i = 4) \/ (k = "core" /\ i = 6)
          /\ Jobs(k)[i].control <=> (k = "formal" /\ i = 3) \/ (k = "core" /\ i = 5)
    /\ Jobs("core")[1].case = "U1" /\ Jobs("core")[2].case = "U2"
    /\ Jobs("core")[3].case = "O1" /\ Jobs("core")[4].case = "O1"
    /\ Jobs("core")[5].case = "L2" /\ Jobs("core")[6].case = "L2"
<1>1. /\ Len(Jobs("smoke")) = 2 /\ Len(Jobs("formal")) = 4 /\ Len(Jobs("core")) = 6
  BY DEF Jobs
<1>2. ASSUME NEW i \in 1 .. 2
      PROVE  ~Loaded("smoke", i) /\ ~Jobs("smoke")[i].control
  BY DEF Jobs, Job, Loaded
<1>3. ASSUME NEW i \in 1 .. 4
      PROVE  (Loaded("formal", i) <=> i = 4) /\ (Jobs("formal")[i].control <=> i = 3)
  <2> DEFINE u1 == Job("U1", FALSE)
  <2> DEFINE u2 == Job("U2", FALSE)
  <2> DEFINE c2 == Job("L2", TRUE)
  <2> DEFINE l2 == Job("L2", FALSE)
  <2>1. Jobs("formal") = <<u1, u2, c2, l2>>
    BY DEF Jobs
  <2> HIDE DEF u1, u2, c2, l2
  <2>2. /\ Jobs("formal")[1] = u1 /\ Jobs("formal")[2] = u2
        /\ Jobs("formal")[3] = c2 /\ Jobs("formal")[4] = l2
    BY ONLY <2>1, FourAre
  <2>3. i = 1 \/ i = 2 \/ i = 3 \/ i = 4
    OBVIOUS
  <2>4. QED
    BY <2>2, <2>3 DEF u1, u2, c2, l2, Job, Loaded
<1>0. /\ Jobs("core")[1] = Job("U1", FALSE) /\ Jobs("core")[2] = Job("U2", FALSE)
      /\ Jobs("core")[3] = Job("O1", FALSE) /\ Jobs("core")[4] = Job("O1", FALSE)
      /\ Jobs("core")[5] = Job("L2", TRUE) /\ Jobs("core")[6] = Job("L2", FALSE)
  <2> DEFINE u1 == Job("U1", FALSE)
  <2> DEFINE u2 == Job("U2", FALSE)
  <2> DEFINE o1 == Job("O1", FALSE)
  <2> DEFINE c2 == Job("L2", TRUE)
  <2> DEFINE l2 == Job("L2", FALSE)
  <2>1. Jobs("core") = <<u1, u2, o1, o1, c2, l2>>
    BY DEF Jobs
  <2> HIDE DEF u1, u2, o1, c2, l2
  <2>2. /\ Jobs("core")[1] = u1 /\ Jobs("core")[2] = u2 /\ Jobs("core")[3] = o1
        /\ Jobs("core")[4] = o1 /\ Jobs("core")[5] = c2 /\ Jobs("core")[6] = l2
    BY ONLY <2>1, SixAre
  <2>3. QED
    BY <2>2 DEF u1, u2, o1, c2, l2
<1>4. ASSUME NEW i \in 1 .. 6
      PROVE  (Loaded("core", i) <=> i = 6) /\ (Jobs("core")[i].control <=> i = 5)
  <2>1. i = 1 \/ i = 2 \/ i = 3 \/ i = 4 \/ i = 5 \/ i = 6
    OBVIOUS
  <2>2. QED
    BY <1>0, <2>1 DEF Job, Loaded
<1>5. /\ Jobs("core")[1].case = "U1" /\ Jobs("core")[2].case = "U2"
      /\ Jobs("core")[3].case = "O1" /\ Jobs("core")[4].case = "O1"
      /\ Jobs("core")[5].case = "L2" /\ Jobs("core")[6].case = "L2"
  BY <1>0 DEF Job
<1>6. QED
  BY <1>1, <1>2, <1>3, <1>4, <1>5 DEF Kinds

\* What a verdict is recorded as.
LEMMA StatusesAre ==
    ASSUME NEW v \in Verdicts
    PROVE  /\ StatusOf(v) \in Statuses \ {"not_run"}
           /\ StatusOf(v) = "pass" <=> v = "pass"
           /\ StatusOf(v) = "valid_failure" <=> v \in {"weak", "wrong"}
  BY DEF StatusOf, Verdicts, Statuses

\* A campaign that has recorded nothing.
LEMMA NoRecordsAreSound ==
    ASSUME NEW kind \in Kinds, NEW runsOf, NEW commit
    PROVE  SoundRecords(kind, <<>>, runsOf, commit)
<1>1. Len(Jobs(kind)) \in Nat
  BY JobsAre DEF Kinds
<1>2. DOMAIN <<>> = {} /\ Len(<<>>) = 0
  OBVIOUS
<1>3. QED
  BY <1>1, <1>2 DEF SoundRecords, Tells, Compares, StaysOnCommit

\* A campaign that runs on leaves what was run as it was.
LEMMA RunsAreKept ==
    ASSUME NEW kind \in Kinds, NEW runs \in Seq(Records), NEW commit,
           NEW old \in Seq(RunRecords), NEW new \in Seq(RunRecords),
           Len(old) <= Len(new), \A r \in 1 .. Len(old) : new[r] = old[r],
           SoundRecords(kind, runs, old, commit)
    PROVE  SoundRecords(kind, runs, new, commit)
<1>1. \A i \in DOMAIN runs : runs[i].root \in Nat /\ runs[i].status \in Statuses
  <2>1. \A i \in DOMAIN runs : runs[i] \in Records
    OBVIOUS
  <2>2. QED
    BY <2>1 DEF Records
<1>2. Tells(runs, old) /\ Compares(kind, runs, old) /\ Len(runs) <= Len(Jobs(kind))
  BY DEF SoundRecords
<1>3. \A i \in DOMAIN runs : runs[i].root # 0 =>
          runs[i].root \in 1 .. Len(old) /\ new[runs[i].root] = old[runs[i].root]
  <2> SUFFICES ASSUME NEW i \in DOMAIN runs, runs[i].root # 0
               PROVE  runs[i].root \in 1 .. Len(old)
    OBVIOUS
  <2>1. runs[i].root \in 0 .. Len(old) /\ Len(old) \in Nat
    BY <1>2 DEF Tells
  <2>2. QED
    BY <2>1
<1>4. Tells(runs, new)
  <2> SUFFICES ASSUME NEW i \in DOMAIN runs
               PROVE  /\ runs[i].job = i
                      /\ runs[i].root \in 0 .. Len(new)
                      /\ runs[i].root = 0 => runs[i].status = "not_run"
                      /\ runs[i].root # 0 =>
                            /\ new[runs[i].root].job = i
                            /\ runs[i].status = StatusOf(new[runs[i].root].verdict)
                            /\ \A j \in 1 .. i - 1 : runs[j].root < runs[i].root
    BY DEF Tells
  <2>1. /\ runs[i].job = i
        /\ runs[i].root \in 0 .. Len(old)
        /\ runs[i].root = 0 => runs[i].status = "not_run"
        /\ runs[i].root # 0 =>
              /\ old[runs[i].root].job = i
              /\ runs[i].status = StatusOf(old[runs[i].root].verdict)
              /\ \A j \in 1 .. i - 1 : runs[j].root < runs[i].root
    BY <1>2 DEF Tells
  <2>2. runs[i].root \in 0 .. Len(new)
    BY <2>1
  <2>3. QED
    BY <1>3, <2>1, <2>2
<1>5. Compares(kind, runs, new)
  BY <1>1, <1>2, <1>3 DEF Compares, Tells
<1>6. ASSUME kind \in Measured PROVE StaysOnCommit(runs, new, commit)
  BY <1>3, <1>6 DEF SoundRecords, StaysOnCommit
<1>7. QED
  BY <1>2, <1>4, <1>5, <1>6 DEF SoundRecords

\* One more record.
LEMMA RecordIsAdded ==
    ASSUME NEW kind \in Kinds, NEW runs \in Seq(Records), NEW commit,
           NEW runsOf \in Seq(RunRecords), NEW rec \in Records, NEW more,
           more = Append(runs, rec),
           SoundRecords(kind, runs, runsOf, commit),
           Len(runs) < Len(Jobs(kind)), rec.job = Len(runs) + 1,
           rec.root \in 0 .. Len(runsOf),
           rec.root = 0 => rec.status = "not_run",
           rec.root # 0 =>
              /\ runsOf[rec.root].job = rec.job
              /\ rec.status = StatusOf(runsOf[rec.root].verdict)
              /\ \A j \in 1 .. Len(runs) : runs[j].root < rec.root,
           Loaded(kind, rec.job) /\ rec.status = "pass" /\ runs[Len(runs)].status = "pass" =>
              runsOf[rec.root].control = runs[Len(runs)].root,
           kind \in Measured /\ rec.status = "pass" =>
              \A i \in DOMAIN runs : runs[i].root # 0 => runsOf[runs[i].root].head = commit
    PROVE  SoundRecords(kind, more, runsOf, commit)
<1> DEFINE n == Len(runs)
<1>1. /\ more \in Seq(Records) /\ Len(more) = n + 1 /\ more[n + 1] = rec
      /\ \A i \in 1 .. n : more[i] = runs[i]
      /\ n \in Nat /\ DOMAIN runs = 1 .. n /\ DOMAIN more = 1 .. n + 1
  BY AppendProperties
<1>2. Tells(runs, runsOf) /\ Compares(kind, runs, runsOf)
  BY DEF SoundRecords
<1> HIDE DEF n
<1>3. Tells(more, runsOf)
  <2> SUFFICES ASSUME NEW i \in 1 .. n + 1
               PROVE  /\ more[i].job = i
                      /\ more[i].root \in 0 .. Len(runsOf)
                      /\ more[i].root = 0 => more[i].status = "not_run"
                      /\ more[i].root # 0 =>
                            /\ runsOf[more[i].root].job = i
                            /\ more[i].status = StatusOf(runsOf[more[i].root].verdict)
                            /\ \A j \in 1 .. i - 1 : more[j].root < more[i].root
    BY <1>1 DEF Tells
  <2>1. CASE i = n + 1
    BY <1>1, <2>1 DEF n
  <2>2. CASE i \in 1 .. n
    <3>1. more[i] = runs[i] /\ \A j \in 1 .. i - 1 : more[j] = runs[j]
      BY <1>1, <2>2
    <3>2. /\ runs[i].job = i /\ runs[i].root \in 0 .. Len(runsOf)
          /\ runs[i].root = 0 => runs[i].status = "not_run"
          /\ runs[i].root # 0 =>
                /\ runsOf[runs[i].root].job = i
                /\ runs[i].status = StatusOf(runsOf[runs[i].root].verdict)
                /\ \A j \in 1 .. i - 1 : runs[j].root < runs[i].root
      BY <1>1, <1>2, <2>2 DEF Tells
    <3>3. QED
      BY <3>1, <3>2
  <2>3. i = n + 1 \/ i \in 1 .. n
    BY <1>1
  <2>4. QED
    BY <2>1, <2>2, <2>3, Zenon
<1>4. Compares(kind, more, runsOf)
  <2> SUFFICES ASSUME NEW i \in 1 .. n + 1, Loaded(kind, i), more[i].status = "pass",
                      more[i - 1].status = "pass"
               PROVE  runsOf[more[i].root].control = more[i - 1].root
    BY <1>1 DEF Compares
  <2>0. i - 1 \in 1 .. n
    <3>1. i \in 1 .. Len(Jobs(kind))
      BY <1>1, JobsAre DEF n, Kinds
    <3>2. i # 1
      BY <3>1, JobsAre
    <3>3. QED
      BY <1>1, <3>2
  <2>1. CASE i = n + 1
    BY <1>1, <2>0, <2>1 DEF n
  <2>2. CASE i \in 1 .. n
    <3>1. more[i] = runs[i] /\ more[i - 1] = runs[i - 1] /\ i \in DOMAIN runs
      BY <1>1, <2>0, <2>2
    <3>2. QED
      BY ONLY <1>2, <3>1, Loaded(kind, i), more[i].status = "pass", more[i - 1].status = "pass"
         DEF Compares
  <2>3. i = n + 1 \/ i \in 1 .. n
    BY <1>1
  <2>4. QED
    BY <2>1, <2>2, <2>3
<1>5. ASSUME kind \in Measured PROVE StaysOnCommit(more, runsOf, commit)
  <2> SUFFICES ASSUME NEW i \in 1 .. n + 1, NEW j \in 1 .. n + 1, i < j,
                      more[j].status = "pass", more[i].root # 0
               PROVE  runsOf[more[i].root].head = commit
    BY <1>1 DEF StaysOnCommit
  <2>1. i \in 1 .. n
    BY <1>1
  <2>2. CASE j = n + 1
    BY <1>1, <1>5, <2>1, <2>2
  <2>3. CASE j \in 1 .. n
    BY <1>1, <1>5, <2>1, <2>3 DEF SoundRecords, StaysOnCommit
  <2>4. QED
    BY <1>1, <2>2, <2>3
<1>6. Len(more) <= Len(Jobs(kind))
  <2>1. Len(Jobs(kind)) \in Nat
    BY JobsAre DEF Kinds
  <2>2. QED
    BY <1>1, <2>1 DEF n
<1>7. QED
  BY <1>3, <1>4, <1>5, <1>6 DEF SoundRecords

\* A set of numbers that has a member has a least one.
LEMMA FirstOf ==
    ASSUME NEW T, T \subseteq Nat, T # {}
    PROVE  \E x \in T : \A y \in T : x <= y
<1>1. PICK R : /\ IsWellFoundedOn(R, Nat)
               /\ \A x, y \in Nat : x < y => <<x, y>> \in R
  <2>1. IsWellFoundedOn(OpToRel(<, Nat), Nat)
    BY NatLessThanWellFounded, Zenon
  <2>2. \A x, y \in Nat : x < y => <<x, y>> \in OpToRel(<, Nat)
    BY DEF OpToRel
  <2>3. QED
    BY <2>1, <2>2, Zenon
<1>2. PICK x \in T : \A y \in T : ~(<<y, x>> \in R)
  <2>1. IsWellFoundedOn(R, Nat)
    BY <1>1
  <2>2. QED
    BY <2>1, WFMin, Zenon
<1>3. ASSUME NEW y \in T PROVE x <= y
  <2>1. x \in Nat /\ y \in Nat /\ ~(y < x)
    BY <1>1, <1>2
  <2>2. QED
    BY <2>1
<1>4. QED
  BY <1>3

\* Whatever holds of the first so many and of no other is counted by its cardinality.
LEMMA FirstSoMany ==
    ASSUME NEW n \in Nat, NEW T, T \subseteq 1 .. n, \A i \in T : \A j \in 1 .. i : j \in T
    PROVE  Cardinality(T) \in 0 .. n /\ T = 1 .. Cardinality(T)
<1> DEFINE rest == (1 .. n + 1) \ T
<1>1. rest \subseteq Nat /\ n + 1 \in rest
  OBVIOUS
<1>2. PICK x \in rest : \A y \in rest : x <= y
  BY <1>1, FirstOf
<1>3. T = 1 .. x - 1
  <2>1. ASSUME NEW i \in T PROVE i \in 1 .. x - 1
    <3>1. ~(x \in 1 .. i)
      BY <2>1
    <3>2. QED
      BY <3>1
  <2>2. ASSUME NEW i \in 1 .. x - 1 PROVE i \in T
    <3>1. i \in 1 .. n + 1 /\ ~(x <= i)
      OBVIOUS
    <3>2. QED
      BY <1>2, <3>1
  <2>3. QED
    BY <2>1, <2>2
<1>4. Cardinality(1 .. x - 1) = x - 1
  <2>1. x - 1 \in Nat
    OBVIOUS
  <2>2. QED
    BY <2>1, FS_Interval
<1>5. QED
  BY <1>3, <1>4

\* What a campaign is resumed from: the records before the first that did not pass.
LEMMA PrefixIsSound ==
    ASSUME NEW kind \in Kinds, NEW runs \in Seq(Records), NEW commit,
           NEW runsOf \in Seq(RunRecords), SoundRecords(kind, runs, runsOf, commit),
           NEW w, w = PassedPrefix(runs)
    PROVE  w \in Seq(Records) /\ AllPassed(w) /\ SoundRecords(kind, w, runsOf, commit)
<1> DEFINE T == {i \in DOMAIN runs : \A j \in 1 .. i : runs[j].status = "pass"}
<1> DEFINE n == Cardinality(T)
<1>1. Len(runs) \in Nat /\ DOMAIN runs = 1 .. Len(runs)
  OBVIOUS
<1>2. n \in 0 .. Len(runs) /\ T = 1 .. n
  <2>1. T \subseteq 1 .. Len(runs) /\ \A i \in T : \A j \in 1 .. i : j \in T
    BY <1>1
  <2> HIDE DEF T
  <2>2. QED
    BY <1>1, <2>1, FirstSoMany
<1>3. w = SubSeq(runs, 1, n)
  BY DEF PassedPrefix
<1>4. \A i \in 1 .. n : runs[i].status = "pass"
  BY <1>1, <1>2
<1> HIDE DEF T, n
<1>5. /\ w \in Seq(Records) /\ Len(w) = n /\ DOMAIN w = 1 .. n
      /\ \A i \in 1 .. n : w[i] = runs[i]
  <2>1. \A i \in 1 .. n : runs[i] \in Records
    BY <1>2
  <2>2. /\ SubSeq(runs, 1, n) \in Seq(Records)
        /\ Len(SubSeq(runs, 1, n)) = IF 1 <= n THEN n - 1 + 1 ELSE 0
        /\ \A i \in 1 .. n - 1 + 1 : SubSeq(runs, 1, n)[i] = runs[1 + i - 1]
    BY <1>2, <2>1, SubSeqProperties
  <2>3. w \in Seq(Records) /\ Len(w) = n /\ \A i \in 1 .. n : w[i] = runs[i]
    BY <1>2, <1>3, <2>2
  <2>4. QED
    BY <2>3
<1>6. AllPassed(w)
  BY <1>4, <1>5 DEF AllPassed
<1>7. Tells(runs, runsOf) /\ Compares(kind, runs, runsOf) /\ Len(runs) <= Len(Jobs(kind))
  BY DEF SoundRecords
<1>8. Tells(w, runsOf)
  BY <1>1, <1>2, <1>5, <1>7 DEF Tells
<1>9. Compares(kind, w, runsOf)
  <2> SUFFICES ASSUME NEW i \in 1 .. n, Loaded(kind, i), w[i].status = "pass"
               PROVE  runsOf[w[i].root].control = w[i - 1].root
    BY <1>5 DEF Compares
  <2>1. i \in 1 .. Len(Jobs(kind)) /\ i # 1
    <3>1. i \in 1 .. Len(Jobs(kind))
      BY <1>1, <1>2, <1>7, JobsAre DEF Kinds
    <3>2. QED
      BY <3>1, JobsAre
  <2>2. i \in 1 .. Len(runs) /\ i - 1 \in 1 .. n
    BY <1>2, <2>1
  <2>3. w[i] = runs[i] /\ w[i - 1] = runs[i - 1] /\ runs[i - 1].status = "pass"
    BY <1>4, <1>5, <2>2
  <2>4. QED
    BY <1>1, <1>7, <2>2, <2>3 DEF Compares
<1>10. ASSUME kind \in Measured PROVE StaysOnCommit(w, runsOf, commit)
  BY <1>1, <1>2, <1>5, <1>10 DEF SoundRecords, StaysOnCommit
<1>11. Len(w) <= Len(Jobs(kind))
  <2>1. Len(Jobs(kind)) \in Nat
    BY JobsAre DEF Kinds
  <2>2. QED
    BY <1>1, <1>2, <1>5, <1>7, <2>1
<1>12. QED
  BY <1>5, <1>6, <1>8, <1>9, <1>10, <1>11 DEF SoundRecords

-----------------------------------------------------------------------------
(* The steps of a campaign.                                                *)

\* At first there is nothing but a commit.
LEMMA CampaignStarts == Init => CampaignInv
<1> SUFFICES ASSUME Init PROVE CampaignInv
  OBVIOUS
<1> USE DEF Init
<1>1. ArtefactsAreKnown
  BY DEF ArtefactsAreKnown, NoFile, FileStatuses
<1>2. ProcessIsKnown /\ ObservationIsClaimed
  <2>1. <<>> \in Seq(Records)
    OBVIOUS
  <2>2. QED
    BY <2>1 DEF ProcessIsKnown, ObservationIsClaimed, Kinds, Measured
<1>3. EvidenceStands
  BY DEF EvidenceStands, Measured
<1>4. FilesAreSound
  BY NoRecordsAreSound DEF FilesAreSound, NoFile
<1>5. LedgerIsSound /\ RunIsSound /\ ControlIsKnown /\ CoreIsWatched
  BY DEF LedgerIsSound, RunIsSound, ControlIsKnown, CoreIsWatched, Kinds
<1>6. GroundIsSound
  BY DEF GroundIsSound, Kinds
<1>7. QED
  BY <1>1, <1>2, <1>3, <1>4, <1>5, <1>6 DEF CampaignInv

\* Where no campaign is under way.
LEMMA NoCampaign ==
    ASSUME task' \notin Kinds, pc' \notin {"guard", "execute", "record", "finish"}
    PROVE  LedgerIsSound' /\ RunIsSound' /\ ControlIsKnown' /\ CoreIsWatched'
  BY DEF LedgerIsSound, RunIsSound, ControlIsKnown, CoreIsWatched, Kinds

\* The files and what was run for them last longer than the process.
LEMMA FilesStay ==
    ASSUME FilesAreSound, head \in Nat, head' \in Nat, head <= head',
           file \in [Kinds -> [status : FileStatuses, head : Nat, runs : Seq(Records)]],
           UNCHANGED <<file, log>>
    PROVE  FilesAreSound'
<1> SUFFICES ASSUME NEW k \in Kinds
             PROVE  /\ SoundRecords(k, file[k].runs, log[k], file[k].head)
                    /\ file[k].status = "pass" =>
                          Len(file[k].runs) = Len(Jobs(k)) /\ AllPassed(file[k].runs)
                    /\ file[k].status \notin {"none", "torn"} =>
                          RanBetween(log[k], file[k].head, head')
  BY DEF FilesAreSound
<1>1. file[k].head \in Nat
  OBVIOUS
<1>2. \A i \in file[k].head .. head : i \in file[k].head .. head'
  BY <1>1
<1>3. QED
  BY <1>2 DEF FilesAreSound, RanBetween

\* What a core campaign has run stands on the ground it was run on.
LEMMA GroundStays ==
    ASSUME GroundIsSound, log'["core"] = log["core"] \/ log'["core"] = <<>>
    PROVE  GroundIsSound'
  BY DEF GroundIsSound, SoundAt

\* A new commit is not the one that is qualified.
LEMMA NewCommitKeeps == ASSUME CampaignInv, NewCommit PROVE CampaignInv'
<1> USE DEF CampaignInv
<1>1. /\ head \in Nat /\ head' = head + 1 /\ head' \in Nat /\ head <= head'
      /\ UNCHANGED <<policy, g0, cold, qual, file, log, changed, claimed, observations, task, pc,
                     seen, ledger, controls, stopAll>>
  BY DEF NewCommit, artefacts, memory, process, ArtefactsAreKnown
<1>2. ArtefactsAreKnown' /\ ObservationIsClaimed'
  BY <1>1 DEF ArtefactsAreKnown, ObservationIsClaimed
<1>3. ProcessIsKnown'
  BY <1>1 DEF ProcessIsKnown
<1>4. EvidenceStands'
  BY <1>1 DEF EvidenceStands, ArtefactsAreKnown, Core, Measured
<1>5. FilesAreSound'
  BY <1>1, FilesStay DEF ArtefactsAreKnown
<1>6. LedgerIsSound'
  <2> SUFFICES ASSUME task \in Kinds
               PROVE  RanBetween(log[task], seen[1], head')
    BY <1>1 DEF LedgerIsSound
  <2>1. RanBetween(log[task], seen[1], head) /\ seen[1] \in Nat
    BY DEF LedgerIsSound, ProcessIsKnown
  <2>2. QED
    BY <1>1, <2>1 DEF RanBetween
<1>7. RunIsSound' /\ ControlIsKnown'
  BY <1>1 DEF RunIsSound, ControlIsKnown, Newest, Current
<1>8. CoreIsWatched' /\ GroundIsSound'
  BY <1>1 DEF CoreIsWatched, Current, GroundIsSound
<1>9. QED
  BY <1>2, <1>3, <1>4, <1>5, <1>6, <1>7, <1>8

\* What is not about a campaign.
LEMMA NothingMoves ==
    ASSUME CampaignInv,
           UNCHANGED <<policy, head, g0, cold, qual, file, log, claimed, observations, task, pc,
                       seen, ledger, controls, stopAll>>
    PROVE  CampaignInv'
<1> USE DEF CampaignInv
<1>1. ArtefactsAreKnown' /\ ObservationIsClaimed' /\ ProcessIsKnown' /\ EvidenceStands'
  BY DEF ArtefactsAreKnown, ObservationIsClaimed, ProcessIsKnown, EvidenceStands, Core
<1>2. FilesAreSound' /\ LedgerIsSound' /\ RunIsSound' /\ ControlIsKnown'
  BY DEF FilesAreSound, LedgerIsSound, RunIsSound, ControlIsKnown, Newest, Current
<1>3. CoreIsWatched' /\ GroundIsSound'
  BY DEF CoreIsWatched, Current, GroundIsSound
<1>4. QED
  BY <1>1, <1>2, <1>3

\* A process that is over, or died.
LEMMA ForgetKeeps ==
    ASSUME CampaignInv, Forget, UNCHANGED head, ArtefactsAreKnown', EvidenceStands', FilesAreSound',
           GroundIsSound', claimed' = claimed,
           observations' = observations \/ (pc = "observe" /\ observations' = observations + 1)
    PROVE  CampaignInv'
<1> USE DEF CampaignInv, Forget
<1>1. ProcessIsKnown'
  <2>1. <<>> \in Seq(Records)
    OBVIOUS
  <2>2. QED
    BY <2>1 DEF ProcessIsKnown, Kinds, Measured
<1>2. ObservationIsClaimed'
  BY DEF ObservationIsClaimed
<1>3. LedgerIsSound' /\ RunIsSound' /\ ControlIsKnown' /\ CoreIsWatched'
  BY NoCampaign DEF Kinds
<1>4. QED
  BY <1>1, <1>2, <1>3

\* One of the files is written over.
LEMMA FileIsWritten ==
    ASSUME FilesAreSound, UNCHANGED <<head, log>>, NEW kind \in Kinds,
           NEW f \in [status : FileStatuses, head : Nat, runs : Seq(Records)],
           file \in [Kinds -> [status : FileStatuses, head : Nat, runs : Seq(Records)]],
           file' = [file EXCEPT ![kind] = f],
           SoundRecords(kind, f.runs, log[kind], f.head),
           f.status = "pass" => Len(f.runs) = Len(Jobs(kind)) /\ AllPassed(f.runs),
           f.status \notin {"none", "torn"} => RanBetween(log[kind], f.head, head)
    PROVE  /\ file' \in [Kinds -> [status : FileStatuses, head : Nat, runs : Seq(Records)]]
           /\ FilesAreSound'
<1>1. file'[kind] = f /\ \A k \in Kinds \ {kind} : file'[k] = file[k]
  OBVIOUS
<1>2. file' \in [Kinds -> [status : FileStatuses, head : Nat, runs : Seq(Records)]]
  OBVIOUS
<1>3. FilesAreSound'
  <2> SUFFICES ASSUME NEW k \in Kinds
               PROVE  /\ SoundRecords(k, file'[k].runs, log[k], file'[k].head)
                      /\ file'[k].status = "pass" =>
                            Len(file'[k].runs) = Len(Jobs(k)) /\ AllPassed(file'[k].runs)
                      /\ file'[k].status \notin {"none", "torn"} =>
                            RanBetween(log[k], file'[k].head, head)
    BY DEF FilesAreSound
  <2>1. CASE k = kind
    BY <1>1, <2>1
  <2>2. CASE k # kind
    BY <1>1, <2>2 DEF FilesAreSound
  <2>3. QED
    BY <2>1, <2>2
<1>4. QED
  BY <1>2, <1>3

\* The evidence of a qualification is untouched by a process that ends or is not about it.
LEMMA EvidenceStays ==
    ASSUME EvidenceStands, UNCHANGED <<policy, head, g0, cold, qual>>,
           file'["smoke"] = file["smoke"] \/ task = "smoke",
           task' \notin {"g0", "cold", "smoke", "qualify"},
           task' \in Measured => task' = task /\ seen' = seen
    PROVE  EvidenceStands'
  BY DEF EvidenceStands, Core

\* A process dies, and may leave half a file.
LEMMA CrashKeeps == ASSUME CampaignInv, Crash PROVE CampaignInv'
<1> USE DEF CampaignInv
<1>1. /\ UNCHANGED <<policy, head, g0, cold, qual, log, claimed, observations>> /\ Forget
      /\ UNCHANGED file \/ (/\ pc \in {"record", "finish"}
                            /\ file' = [file EXCEPT ![task] = [NoFile EXCEPT !.status = "torn"]])
  BY DEF Crash, memory
<1>2. ArtefactsAreKnown' /\ FilesAreSound' /\ (file'["smoke"] = file["smoke"] \/ task = "smoke")
  <2>1. CASE UNCHANGED file
    BY <1>1, <2>1, FilesStay DEF ArtefactsAreKnown
  <2>2. CASE /\ pc \in {"record", "finish"}
             /\ file' = [file EXCEPT ![task] = [NoFile EXCEPT !.status = "torn"]]
    <3> DEFINE f == [NoFile EXCEPT !.status = "torn"]
    <3>1. task \in Kinds
      BY <2>2 DEF ProcessIsKnown
    <3>2. <<>> \in Seq(Records)
      OBVIOUS
    <3>3. f \in [status : FileStatuses, head : Nat, runs : Seq(Records)] /\ f.status = "torn"
          /\ f.runs = <<>>
      BY <3>2 DEF NoFile, FileStatuses
    <3> HIDE DEF f
    <3>4. SoundRecords(task, f.runs, log[task], f.head)
      BY <3>1, <3>3, NoRecordsAreSound
    <3>5. /\ file' \in [Kinds -> [status : FileStatuses, head : Nat, runs : Seq(Records)]]
          /\ FilesAreSound'
      BY <1>1, <2>2, <3>1, <3>3, <3>4, FileIsWritten DEF f, ArtefactsAreKnown
    <3>6. file'["smoke"] = file["smoke"] \/ task = "smoke"
      BY <2>2, <3>1 DEF ArtefactsAreKnown, Kinds
    <3>7. QED
      BY <1>1, <3>5, <3>6 DEF ArtefactsAreKnown
  <2>3. QED
    BY <1>1, <2>1, <2>2
<1>3. EvidenceStands'
  BY <1>1, <1>2, EvidenceStays DEF Forget, Measured
<1>4. GroundIsSound'
  BY <1>1, GroundStays
<1>5. QED
  BY <1>1, <1>2, <1>3, <1>4, ForgetKeeps

\* A leg of the calibration, the last one with its result.
LEMMA G0LegKeeps == ASSUME CampaignInv, G0Leg PROVE CampaignInv'
<1> USE DEF CampaignInv
<1>1. /\ task = "g0" /\ UNCHANGED <<policy, head, cold, qual, file, log, claimed, observations>>
  BY DEF G0Leg, memory
<1>2. PICK passed \in BOOLEAN, cheap \in BOOLEAN :
         LET legs == Len(seen) + (IF passed THEN 1 ELSE 0)
         IN IF passed /\ legs < Len(Sampled)
            THEN /\ seen' = Append(seen, Sampled[legs])
                 /\ UNCHANGED <<g0, changed, task, pc, ledger, controls, stopAll, left>>
            ELSE /\ g0' = [status |-> IF OverheadKnown(legs) /\ cheap
                                      THEN "pass" ELSE "fail",
                            head |-> head, legs |-> legs]
                 /\ Anew({<<"g0", 0>>})
                 /\ Forget
  BY DEF G0Leg
<1>3. CASE /\ UNCHANGED <<g0, changed, task, pc, ledger, controls, stopAll, left>>
           /\ seen' \in Seq(BOOLEAN)
  <2>1. ArtefactsAreKnown' /\ ObservationIsClaimed' /\ ProcessIsKnown'
    BY <1>1, <1>3 DEF ArtefactsAreKnown, ObservationIsClaimed, ProcessIsKnown, Kinds
  <2>2. EvidenceStands'
    BY <1>1, <1>3 DEF EvidenceStands, Core, Measured
  <2>3. FilesAreSound' /\ GroundIsSound'
    BY <1>1, FilesStay, GroundStays DEF ArtefactsAreKnown
  <2>4. task' \notin Kinds /\ pc' \notin {"guard", "execute", "record", "finish"}
    BY <1>1, <1>3 DEF ProcessIsKnown, Kinds, Measured
  <2>5. QED
    BY <2>1, <2>2, <2>3, <2>4, NoCampaign
<1>4. CASE /\ g0' = [status |-> IF OverheadKnown(Len(seen) + (IF passed THEN 1 ELSE 0)) /\ cheap
                                THEN "pass" ELSE "fail",
                     head |-> head, legs |-> Len(seen) + (IF passed THEN 1 ELSE 0)]
           /\ Forget
  <2>1. Len(seen) \in Nat
    BY <1>1 DEF ProcessIsKnown
  <2>2. ArtefactsAreKnown'
    BY <1>1, <1>4, <2>1 DEF ArtefactsAreKnown
  <2>3. EvidenceStands'
    BY <1>1, <1>4 DEF EvidenceStands, Core, Measured, Forget, OverheadKnown
  <2>4. FilesAreSound' /\ GroundIsSound'
    BY <1>1, FilesStay, GroundStays DEF ArtefactsAreKnown
  <2>5. QED
    BY <1>1, <1>4, <2>2, <2>3, <2>4, ForgetKeeps
<1>5. QED
  <2> DEFINE legs == Len(seen) + (IF passed THEN 1 ELSE 0)
  <2>1. CASE passed /\ legs < Len(Sampled)
    <3>1. /\ seen' = Append(seen, Sampled[legs])
          /\ UNCHANGED <<g0, changed, task, pc, ledger, controls, stopAll, left>>
      BY <1>2, <2>1
    <3>2. seen \in Seq(BOOLEAN)
      BY <1>1 DEF ProcessIsKnown
    <3>3. legs \in 1 .. 4
      <4>1. Len(seen) \in Nat /\ Len(Sampled) = 4
        BY <3>2 DEF Sampled
      <4>2. QED
        BY <2>1, <4>1
    <3> HIDE DEF legs
    <3>4. Sampled[legs] \in BOOLEAN
      <4>1. Sampled \in Seq(BOOLEAN) /\ Len(Sampled) = 4
        BY DEF Sampled
      <4>2. QED
        BY ONLY <3>3, <4>1, ElementOfSeq
    <3>5. seen' \in Seq(BOOLEAN)
      <4>1. PICK x : x = Sampled[legs]
        OBVIOUS
      <4>2. seen' = Append(seen, x) /\ x \in BOOLEAN
        BY <3>1, <3>4, <4>1
      <4>3. QED
        BY ONLY <3>2, <4>2, AppendProperties
    <3>6. QED
      BY <1>3, <3>1, <3>5
  <2>2. CASE ~(passed /\ legs < Len(Sampled))
    BY <1>2, <1>4, <2>2
  <2>3. QED
    BY <2>1, <2>2

\* A cold initialization, the second one with the result of both.
LEMMA InitOnceKeeps == ASSUME CampaignInv, InitOnce PROVE CampaignInv'
<1> USE DEF CampaignInv
<1>1. /\ task = "cold" /\ UNCHANGED <<policy, head, g0, qual, file, log, claimed, observations>>
      /\ head \in Nat /\ seen \in Seq(Nat) /\ Len(seen) < 2
  BY DEF InitOnce, memory, ArtefactsAreKnown, ProcessIsKnown
<1>2. PICK passed \in BOOLEAN :
         LET runs == Append(seen, head)
         IN IF passed /\ Len(runs) < 2
            THEN /\ seen' = runs
                 /\ UNCHANGED <<cold, changed, task, pc, ledger, controls, stopAll, left>>
            ELSE /\ cold' = [status |-> IF passed THEN "pass" ELSE "fail",
                             runs |-> runs]
                 /\ Anew({<<"cold", 0>>})
                 /\ Forget
  BY DEF InitOnce
<1>3. PICK runs : runs = Append(seen, head)
  OBVIOUS
<1>4. runs \in Seq(Nat) /\ Len(runs) = Len(seen) + 1 /\ Len(seen) \in Nat
  BY <1>1, <1>3
<1>5. FilesAreSound' /\ GroundIsSound'
  BY <1>1, FilesStay, GroundStays DEF ArtefactsAreKnown
<1>6. CASE /\ seen' = runs /\ Len(runs) < 2
           /\ UNCHANGED <<cold, changed, task, pc, ledger, controls, stopAll, left>>
  <2>1. ArtefactsAreKnown' /\ ObservationIsClaimed' /\ ProcessIsKnown'
    BY <1>1, <1>4, <1>6 DEF ArtefactsAreKnown, ObservationIsClaimed, ProcessIsKnown, Kinds
  <2>2. EvidenceStands'
    BY <1>1, <1>6 DEF EvidenceStands, Core, Measured
  <2>4. task' \notin Kinds /\ pc' \notin {"guard", "execute", "record", "finish"}
    BY <1>1, <1>6 DEF ProcessIsKnown, Kinds, Measured
  <2>5. QED
    BY <1>5, <2>1, <2>2, <2>4, NoCampaign
<1>7. CASE /\ cold' = [status |-> IF passed THEN "pass" ELSE "fail", runs |-> runs]
           /\ passed => Len(runs) >= 2
           /\ Forget
  <2>2. ArtefactsAreKnown'
    BY <1>1, <1>4, <1>7 DEF ArtefactsAreKnown
  <2>3. EvidenceStands'
    BY <1>1, <1>4, <1>7 DEF EvidenceStands, Core, Measured, Forget
  <2>5. QED
    BY <1>1, <1>5, <1>7, <2>2, <2>3, ForgetKeeps
<1>8. QED
  <2>1. CASE passed /\ Len(runs) < 2
    BY <1>2, <1>3, <1>6, <2>1
  <2>2. CASE ~(passed /\ Len(runs) < 2)
    BY <1>2, <1>3, <1>4, <1>7, <2>2
  <2>3. QED
    BY <2>1, <2>2

\* A commit is qualified on its evidence.
LEMMA QualifyKeeps == ASSUME CampaignInv, Qualify PROVE CampaignInv'
<1> USE DEF CampaignInv
<1>1. /\ task = "qualify" /\ Forget
      /\ UNCHANGED <<policy, head, g0, cold, file, log, claimed, observations>>
      /\ seen[1] \in Nat /\ seen[1] <= head /\ head \in Nat
  BY DEF Qualify, memory, ProcessIsKnown, ArtefactsAreKnown
<1>2. PICK preflight \in BOOLEAN :
         qual' = [status |-> IF preflight /\ Qualifies(seen[1]) THEN "pass" ELSE "fail",
                  head |-> seen[1]]
  BY DEF Qualify
<1>3. ArtefactsAreKnown'
  BY <1>1, <1>2 DEF ArtefactsAreKnown
<1>4. EvidenceStands'
  <2>1. g0'.status = "pass" => g0'.legs = Len(Sampled)
    BY <1>1 DEF EvidenceStands
  <2>2. cold'.status = "pass" => Len(cold'.runs) = 2
    BY <1>1 DEF EvidenceStands
  <2>3. qual'.head <= head' /\ task' \notin Measured
    BY <1>1, <1>2 DEF Forget, Measured
  <2>4. ASSUME qual'.status = "pass", qual'.head = head'
        PROVE  /\ g0.status = "pass" /\ g0.head = head
               /\ file["smoke"].status = "pass" /\ file["smoke"].head = head
               /\ Core => cold.status = "pass" /\ \A i \in 1 .. 2 : cold.runs[i] = head
    <3>1. Qualifies(head)
      BY <1>1, <1>2, <2>4
    <3>2. Core => /\ cold.status = "pass" /\ Len(cold.runs) = 2 /\ cold.runs \in Seq(Nat)
                  /\ \A i \in DOMAIN cold.runs : cold.runs[i] = head
      BY <3>1 DEF Qualifies, ColdHolds, EvidenceStands, ArtefactsAreKnown
    <3>3. Core => cold.status = "pass" /\ \A i \in 1 .. 2 : cold.runs[i] = head
      BY <3>2
    <3>4. QED
      BY <3>1, <3>3 DEF Qualifies, RehearsalComplete
  <2>5. QED
    BY <1>1, <2>1, <2>2, <2>3, <2>4 DEF EvidenceStands, Core, Forget
<1>5. FilesAreSound' /\ GroundIsSound'
  BY <1>1, FilesStay, GroundStays DEF ArtefactsAreKnown
<1>6. QED
  BY <1>1, <1>3, <1>4, <1>5, ForgetKeeps

\* The processes that end as they are.
LEMMA StoppingKeeps == ASSUME CampaignInv, Stopping PROVE CampaignInv'
<1> USE DEF CampaignInv
<1>1. /\ task = "stopping" /\ Forget
      /\ UNCHANGED <<policy, head, g0, cold, qual, file, log, claimed, observations>>
  BY DEF Stopping, memory, artefacts
<1>2. ArtefactsAreKnown'
  BY <1>1 DEF ArtefactsAreKnown
<1>3. EvidenceStands'
  BY <1>1, EvidenceStays DEF Forget, Measured
<1>4. FilesAreSound' /\ GroundIsSound'
  BY <1>1, FilesStay, GroundStays DEF ArtefactsAreKnown
<1>5. QED
  BY <1>1, <1>2, <1>3, <1>4, ForgetKeeps

\* The memory observation, and the restore after it (phase14_memory.py).
LEMMA RestoreKeeps == ASSUME CampaignInv, Observe \/ Restore PROVE CampaignInv'
<1> USE DEF CampaignInv
<1>1. /\ UNCHANGED <<policy, head, g0, cold, qual, file, log, claimed>>
      /\ observations' = observations \/ (pc = "observe" /\ observations' = observations + 1)
      /\ Forget \/ (Observe /\ pc' = "restore"
                    /\ UNCHANGED <<task, seen, ledger, controls, stopAll, left>>)
  BY DEF Observe, Restore, artefacts
<1>2. ArtefactsAreKnown'
  BY <1>1 DEF ArtefactsAreKnown
<1>3. FilesAreSound' /\ GroundIsSound'
  BY <1>1, FilesStay, GroundStays DEF ArtefactsAreKnown
<1>4. CASE Forget
  <2>1. EvidenceStands'
    BY <1>1, <1>4, EvidenceStays DEF Forget, Measured
  <2>2. QED
    BY <1>1, <1>2, <1>3, <1>4, <2>1, ForgetKeeps
<1>5. CASE /\ Observe /\ pc' = "restore"
           /\ UNCHANGED <<task, seen, ledger, controls, stopAll, left>>
  <2>1. task = "memory" /\ pc = "observe" /\ claimed /\ observations = 0 /\ observations' = 1
    BY <1>5 DEF ObservationIsClaimed, Observe
  <2>2. ObservationIsClaimed'
    BY <1>1, <1>5, <2>1 DEF ObservationIsClaimed
  <2>3. ProcessIsKnown'
    BY <1>5, <2>1, <1>1 DEF ProcessIsKnown, Kinds, Measured
  <2>4. EvidenceStands'
    BY <1>1, <1>5, <2>1, EvidenceStays DEF Measured
  <2>5. QED
    BY <1>2, <1>3, <1>5, <2>1, <2>2, <2>3, <2>4, NoCampaign DEF Kinds
<1>6. QED
  BY <1>1, <1>4, <1>5

\* What is changed is noticed by its hash, which no part of the invariant is about.
LEMMA ChangeKeeps == ASSUME CampaignInv, ChangeEvidence \/ UNCHANGED vars PROVE CampaignInv'
<1>1. UNCHANGED <<policy, head, g0, cold, qual, file, log, claimed, observations, task, pc,
                  seen, ledger, controls, stopAll>>
  BY DEF ChangeEvidence, artefacts, memory, process, vars
<1>2. QED
  BY <1>1, NothingMoves

\* The last file of a campaign.
LEMMA FinishKeeps == ASSUME CampaignInv, Finish PROVE CampaignInv'
<1> USE DEF CampaignInv
<1>1. /\ pc = "finish" /\ task \in Kinds /\ Forget
      /\ UNCHANGED <<policy, head, g0, cold, qual, log, claimed, observations>>
  BY DEF Finish, memory, ProcessIsKnown
<1> DEFINE f == [status |-> IF task # "core" \/ AllPassed(ledger) THEN "pass" ELSE "ended",
                 head |-> seen[1], runs |-> ledger]
<1>2. file' = [file EXCEPT ![task] = f] /\ f.runs = ledger /\ f.head = seen[1]
      /\ (f.status = "pass" => task # "core" \/ AllPassed(ledger))
  BY DEF Finish
<1>3. f \in [status : FileStatuses, head : Nat, runs : Seq(Records)]
  BY <1>1 DEF ProcessIsKnown, FileStatuses
<1> HIDE DEF f
<1>4. SoundRecords(task, f.runs, log[task], f.head)
  BY <1>1, <1>2 DEF LedgerIsSound
<1>5. f.status = "pass" => Len(f.runs) = Len(Jobs(task)) /\ AllPassed(f.runs)
  BY <1>1, <1>2 DEF LedgerIsSound
<1>6. RanBetween(log[task], f.head, head)
  BY <1>1, <1>2 DEF LedgerIsSound
<1>7. /\ file' \in [Kinds -> [status : FileStatuses, head : Nat, runs : Seq(Records)]]
      /\ FilesAreSound'
  BY <1>1, <1>2, <1>3, <1>4, <1>5, <1>6, FileIsWritten DEF ArtefactsAreKnown
<1>8. file'["smoke"] = file["smoke"] \/ task = "smoke"
  BY <1>1, <1>2 DEF ArtefactsAreKnown, Kinds
<1>9. ArtefactsAreKnown'
  BY <1>1, <1>7 DEF ArtefactsAreKnown
<1>10. EvidenceStands'
  BY <1>1, <1>8, EvidenceStays DEF Forget, Measured
<1>11. GroundIsSound'
  BY <1>1, GroundStays
<1>12. QED
  BY <1>1, <1>7, <1>9, <1>10, <1>11, ForgetKeeps

\* Files and runs of campaigns that are looked at no longer.
LEMMA CampaignsGo ==
    ASSUME ArtefactsAreKnown, FilesAreSound, GroundIsSound, UNCHANGED <<head, g0, cold, qual>>,
           NEW old \in SUBSET Kinds,
           file' = [k \in Kinds |-> IF k \in old THEN NoFile ELSE file[k]],
           log' = [k \in Kinds |-> IF k \in old THEN <<>> ELSE log[k]]
    PROVE  /\ ArtefactsAreKnown' /\ FilesAreSound' /\ GroundIsSound'
           /\ \A k \in old : file'[k] = NoFile /\ log'[k] = <<>>
           /\ \A k \in Kinds \ old : file'[k] = file[k] /\ log'[k] = log[k]
<1>1. \A k \in old : file'[k] = NoFile /\ log'[k] = <<>>
  OBVIOUS
<1>2. \A k \in Kinds \ old : file'[k] = file[k] /\ log'[k] = log[k]
  OBVIOUS
<1>3. ArtefactsAreKnown'
  <2>1. <<>> \in Seq(Records) /\ <<>> \in Seq(RunRecords)
    OBVIOUS
  <2>2. NoFile \in [status : FileStatuses, head : Nat, runs : Seq(Records)]
    BY <2>1 DEF NoFile, FileStatuses
  <2>3. file' \in [Kinds -> [status : FileStatuses, head : Nat, runs : Seq(Records)]]
    BY <2>2 DEF ArtefactsAreKnown
  <2>4. log' \in [Kinds -> Seq(RunRecords)]
    BY <2>1 DEF ArtefactsAreKnown
  <2>5. QED
    BY <2>3, <2>4 DEF ArtefactsAreKnown
<1>4. FilesAreSound'
  <2> SUFFICES ASSUME NEW k \in Kinds
               PROVE  /\ SoundRecords(k, file'[k].runs, log'[k], file'[k].head)
                      /\ file'[k].status = "pass" =>
                            Len(file'[k].runs) = Len(Jobs(k)) /\ AllPassed(file'[k].runs)
                      /\ file'[k].status \notin {"none", "torn"} =>
                            RanBetween(log'[k], file'[k].head, head)
    BY DEF FilesAreSound
  <2>1. CASE k \in old
    BY <1>1, <2>1, NoRecordsAreSound DEF NoFile
  <2>2. CASE k \notin old
    BY <1>2, <2>2 DEF FilesAreSound
  <2>3. QED
    BY <2>1, <2>2
<1>5. GroundIsSound'
  BY <1>1, <1>2, GroundStays DEF Kinds
<1>6. QED
  BY <1>1, <1>2, <1>3, <1>4, <1>5

\* What replaces the evidence starts where no qualification stands on it.
LEMMA StartKeeps == ASSUME CampaignInv, StartG0 \/ StartCold \/ StartQualify PROVE CampaignInv'
<1> USE DEF CampaignInv
<1>1. /\ UNCHANGED <<policy, head, g0, cold, qual, claimed, observations, ledger, controls,
                     stopAll>>
      /\ task = "idle" /\ seen = <<>> /\ ledger = <<>> /\ controls = 0 /\ stopAll = FALSE
      /\ ArchiveCampaigns
  BY DEF StartG0, StartCold, StartQualify, memory, ProcessIsKnown
<1>2. /\ ArtefactsAreKnown' /\ FilesAreSound' /\ GroundIsSound'
      /\ file'["smoke"] = file["smoke"]
  <2>1. Measured \in SUBSET Kinds /\ "smoke" \in Kinds \ Measured
    BY DEF Measured, Kinds
  <2>2. /\ file' = [k \in Kinds |-> IF k \in Measured THEN NoFile ELSE file[k]]
        /\ log' = [k \in Kinds |-> IF k \in Measured THEN <<>> ELSE log[k]]
    BY <1>1 DEF ArchiveCampaigns
  <2>3. QED
    BY <1>1, <2>1, <2>2, CampaignsGo
<1>3. <<>> \in Seq(Records) /\ <<>> \in Seq(Nat) /\ <<>> \in Seq(BOOLEAN) /\ Len(<<>>) = 0
  OBVIOUS
<1>4. task' \in {"g0", "cold", "qualify"} /\ pc' \in {"leg", "once", "judge"}
  BY DEF StartG0, StartCold, StartQualify
<1>5. ProcessIsKnown'
  <2>1. task' = "qualify" => seen' = <<head>>
    BY DEF StartG0, StartCold, StartQualify
  <2>2. task' # "qualify" => seen' = <<>>
    BY <1>1 DEF StartG0, StartCold, StartQualify
  <2>3. head \in Nat /\ head' = head
    BY <1>1 DEF ArtefactsAreKnown
  <2>4. task' = "qualify" => seen'[1] \in Nat /\ seen'[1] <= head'
    BY <2>1, <2>3
  <2>5. /\ task' = "g0" => seen' \in Seq(BOOLEAN)
        /\ task' = "cold" => seen' \in Seq(Nat) /\ Len(seen') < 2
    <3>1. task' # "qualify" => seen' \in Seq(BOOLEAN) /\ seen' \in Seq(Nat) /\ Len(seen') = 0
      BY <1>3, <2>2
    <3>2. QED
      BY <3>1
  <2>6. ledger' \in Seq(Records) /\ controls' \in Nat /\ stopAll' \in BOOLEAN
    BY <1>1, <1>3
  <2>7. QED
    BY <1>4, <2>4, <2>5, <2>6 DEF ProcessIsKnown, Kinds, Measured
<1>6. EvidenceStands'
  <2>1. ~(qual.status = "pass" /\ qual.head = head)
    BY DEF StartG0, StartCold, StartQualify, EvidenceStands, Core
  <2>2. QED
    BY <1>1, <1>2, <1>4, <2>1 DEF EvidenceStands, Measured
<1>7. ObservationIsClaimed'
  BY <1>1, <1>4 DEF ObservationIsClaimed
<1>8. QED
  BY <1>2, <1>4, <1>5, <1>6, <1>7, NoCampaign DEF Kinds

\* The memory qualification claims its one observation.
LEMMA StartMemoryKeeps == ASSUME CampaignInv, StartMemory PROVE CampaignInv'
<1> USE DEF CampaignInv
<1>1. /\ UNCHANGED <<policy, head, g0, cold, qual, file, log, observations, seen, ledger,
                     controls, stopAll>>
      /\ task = "idle" /\ ~claimed /\ claimed' = TRUE /\ task' = "memory" /\ pc' = "observe"
  BY DEF StartMemory, artefacts, Claimable
<1>2. ArtefactsAreKnown' /\ ObservationIsClaimed'
  BY <1>1 DEF ArtefactsAreKnown, ObservationIsClaimed
<1>3. ProcessIsKnown'
  BY <1>1 DEF ProcessIsKnown, Kinds, Measured
<1>4. EvidenceStands'
  BY <1>1, EvidenceStays DEF Measured
<1>5. FilesAreSound' /\ GroundIsSound'
  BY <1>1, FilesStay, GroundStays DEF ArtefactsAreKnown
<1>6. QED
  BY <1>1, <1>2, <1>3, <1>4, <1>5, NoCampaign DEF Kinds

\* A campaign that starts names the commit that is checked out.
LEMMA CampaignBegins ==
    ASSUME CampaignInv, NEW kind \in Kinds, StartCampaign(kind)
    PROVE  CampaignInv'
<1> USE DEF CampaignInv
<1> DEFINE old == IF kind = "smoke" THEN Kinds ELSE {kind}
<1>1. /\ UNCHANGED <<policy, head, g0, cold, qual, claimed, observations, ledger, controls,
                     stopAll>>
      /\ task = "idle" /\ ledger = <<>> /\ controls = 0 /\ stopAll = FALSE
      /\ task' = kind /\ pc' = FirstPc(kind) /\ seen' = <<head>> /\ head \in Nat
  BY DEF StartCampaign, memory, ProcessIsKnown, ArtefactsAreKnown
<1>2. /\ file' = [k \in Kinds |-> IF k \in old THEN NoFile ELSE file[k]]
      /\ log' = [k \in Kinds |-> IF k \in old THEN <<>> ELSE log[k]]
      /\ old \in SUBSET Kinds /\ kind \in old
  BY DEF StartCampaign
<1>3. /\ kind = "smoke" => ~(file["smoke"].status = "pass" /\ file["smoke"].head = head)
      /\ kind # "smoke" => "smoke" \in Kinds \ old /\ kind \in Measured
      /\ kind \in Measured => GuardHolds
  BY DEF StartCampaign, Kinds, Measured
<1> HIDE DEF old
<1>4. /\ ArtefactsAreKnown' /\ FilesAreSound' /\ GroundIsSound'
      /\ file'[kind] = NoFile /\ log'[kind] = <<>>
      /\ kind # "smoke" => file'["smoke"] = file["smoke"]
  BY <1>1, <1>2, <1>3, CampaignsGo
<1>5. <<>> \in Seq(Records) /\ Len(<<>>) = 0 /\ DOMAIN <<>> = {}
  OBVIOUS
<1>6. ledger' = <<>> /\ DOMAIN ledger' = {} /\ DOMAIN log'[kind] = {} /\ seen'[1] = head
  BY <1>1, <1>4, <1>5
<1>7. ProcessIsKnown'
  BY <1>1, <1>5, <1>6 DEF ProcessIsKnown, Kinds, Measured, FirstPc
<1>8. EvidenceStands'
  <2>1. CASE kind = "smoke"
    <3>1. ~(qual.status = "pass" /\ qual.head = head)
      BY <1>3, <2>1 DEF EvidenceStands
    <3>2. QED
      BY <1>1, <2>1, <3>1 DEF EvidenceStands, Measured
  <2>2. CASE kind # "smoke"
    <3>1. kind \in Measured /\ qual.status = "pass" /\ qual.head = head
      BY <1>3, <2>2 DEF GuardHolds
    <3>2. QED
      BY <1>1, <1>4, <1>6, <2>2, <3>1 DEF EvidenceStands, Measured, Core
  <2>3. QED
    BY <2>1, <2>2
<1>9. LedgerIsSound'
  <2>1. SoundRecords(kind, <<>>, log'[kind], seen'[1])
    BY NoRecordsAreSound
  <2>2. Len(Jobs(kind)) > 0 /\ (pc' = "execute" => kind \notin Measured) /\ pc' # "finish"
    BY <1>1, JobsAre DEF Kinds, FirstPc, Measured
  <2>3. RanBetween(log'[kind], seen'[1], head')
    BY <1>6 DEF RanBetween
  <2>4. file'[kind].status = "none"
    BY <1>4 DEF NoFile
  <2>5. QED
    BY <1>1, <1>5, <1>6, <2>1, <2>2, <2>3, <2>4 DEF LedgerIsSound, AllPassed
<1>10. RunIsSound' /\ ControlIsKnown' /\ ObservationIsClaimed'
  BY <1>1, <1>6 DEF RunIsSound, ControlIsKnown, ObservationIsClaimed, FirstPc
<1>11. CoreIsWatched'
  BY <1>1, <1>6 DEF CoreIsWatched, StopsInTime, FirstPc
<1>12. QED
  BY <1>4, <1>7, <1>8, <1>9, <1>10, <1>11

\* What is resumed is of the commit that is checked out, and its control is found again.
LEMMA ControlIsFound ==
    ASSUME NEW kind \in Kinds, NEW runs \in Seq(Records), NEW runsOf, NEW commit,
           SoundRecords(kind, runs, runsOf, commit)
    PROVE  /\ ControlIn(runs, kind) \in Nat
           /\ \A i \in DOMAIN runs : Jobs(kind)[i].control => ControlIn(runs, kind) = runs[i].root
<1>1. \A i \in DOMAIN runs : runs[i].job = i /\ runs[i].root \in Nat
  <2>1. \A i \in DOMAIN runs : runs[i] \in Records
    OBVIOUS
  <2>2. QED
    BY <2>1 DEF Records, SoundRecords, Tells
<1>2. \A i \in DOMAIN runs : i \in Nat /\ i \in 1 .. Len(Jobs(kind))
  <2>1. Len(Jobs(kind)) \in Nat /\ Len(runs) \in Nat /\ Len(runs) <= Len(Jobs(kind))
    BY JobsAre DEF Kinds, SoundRecords
  <2>2. DOMAIN runs = 1 .. Len(runs)
    OBVIOUS
  <2>3. QED
    BY <2>1, <2>2
<1>3. \A i, j \in DOMAIN runs : Jobs(kind)[i].control /\ Jobs(kind)[j].control => i = j
  BY <1>2, JobsAre
<1>4. CASE ~ \E i \in DOMAIN runs : Jobs(kind)[runs[i].job].control
  BY <1>1, <1>4 DEF ControlIn
<1>5. ASSUME NEW i \in DOMAIN runs, Jobs(kind)[i].control
      PROVE  ControlIn(runs, kind) = runs[i].root
  <2> DEFINE r == CHOOSE r \in {runs[n] : n \in DOMAIN runs} : Jobs(kind)[r.job].control
  <2>1. \E x \in {runs[n] : n \in DOMAIN runs} : Jobs(kind)[x.job].control
    BY <1>1, <1>5
  <2>2. r \in {runs[n] : n \in DOMAIN runs} /\ Jobs(kind)[r.job].control
    BY <2>1
  <2>3. ControlIn(runs, kind) = r.root
    BY <1>1, <1>5 DEF ControlIn
  <2> HIDE DEF r
  <2>4. PICK n \in DOMAIN runs : r = runs[n]
    BY <2>2
  <2>5. n = i
    BY <1>1, <1>3, <1>5, <2>2, <2>4
  <2>6. QED
    BY <2>3, <2>4, <2>5
<1>6. QED
  BY <1>1, <1>4, <1>5

\* A campaign is resumed after the records that passed.
LEMMA ResumeKeeps ==
    ASSUME CampaignInv, NEW kind \in Kinds, ResumeCampaign(kind)
    PROVE  CampaignInv'
<1> USE DEF CampaignInv
<1> DEFINE runs == PassedPrefix(file[kind].runs)
<1>1. /\ UNCHANGED <<policy, head, g0, cold, qual, file, log, claimed, observations, stopAll>>
      /\ task = "idle" /\ stopAll = FALSE /\ head \in Nat
      /\ task' = kind /\ seen' = <<head>> /\ kind # "core"
      /\ file[kind].status \in {"running", "stopped"} /\ file[kind].head = head
      /\ kind \in Measured => GuardHolds
  BY DEF ResumeCampaign, memory, artefacts, ProcessIsKnown, ArtefactsAreKnown, SameIdentity
<1>2. /\ ledger' = runs /\ controls' = ControlIn(runs, kind)
      /\ pc' = IF Len(runs) = Len(Jobs(kind)) THEN "finish" ELSE FirstPc(kind)
  BY DEF ResumeCampaign
<1>3. /\ file[kind].runs \in Seq(Records) /\ log[kind] \in Seq(RunRecords)
      /\ SoundRecords(kind, file[kind].runs, log[kind], head)
      /\ RanBetween(log[kind], head, head)
  BY <1>1 DEF ArtefactsAreKnown, FilesAreSound
<1> HIDE DEF runs
<1>4. runs \in Seq(Records) /\ AllPassed(runs) /\ SoundRecords(kind, runs, log[kind], head)
  BY <1>3, PrefixIsSound DEF runs
<1>5. /\ controls' \in Nat
      /\ \A i \in DOMAIN runs : Jobs(kind)[i].control => controls' = runs[i].root
  BY <1>2, <1>4, ControlIsFound
<1>6. /\ seen'[1] = head /\ pc' \in {"finish", "execute", "guard"}
      /\ (pc' = "guard" => kind \in Measured)
      /\ (pc' = "execute" => kind \notin Measured)
  BY <1>1, <1>2 DEF FirstPc, Measured, Kinds
<1>7. ProcessIsKnown'
  BY <1>1, <1>2, <1>4, <1>5, <1>6 DEF ProcessIsKnown, Kinds, Measured
<1>8. EvidenceStands'
  <2>1. kind = "smoke" => ~(qual.status = "pass" /\ qual.head = head)
    BY <1>1 DEF EvidenceStands
  <2>2. kind \in Measured => qual.status = "pass" /\ qual.head = head
    BY <1>1 DEF GuardHolds
  <2>3. QED
    BY <1>1, <1>6, <2>1, <2>2 DEF EvidenceStands, Core, Measured, Kinds
<1>9. LedgerIsSound'
  <2>1. IF pc' = "finish" THEN Len(runs) = Len(Jobs(kind)) ELSE Len(runs) < Len(Jobs(kind))
    <3>1. Len(runs) <= Len(Jobs(kind)) /\ Len(runs) \in Nat /\ Len(Jobs(kind)) \in Nat
      BY <1>4, JobsAre DEF SoundRecords, Kinds
    <3>2. QED
      BY <1>2, <3>1 DEF FirstPc
  <2>2. QED
    BY <1>1, <1>2, <1>3, <1>4, <1>6, <2>1 DEF LedgerIsSound
<1>10. RunIsSound' /\ ControlIsKnown' /\ CoreIsWatched' /\ ObservationIsClaimed'
  BY <1>1, <1>2, <1>5, <1>6 DEF RunIsSound, ControlIsKnown, CoreIsWatched, ObservationIsClaimed
<1>11. ArtefactsAreKnown' /\ FilesAreSound' /\ GroundIsSound'
  BY <1>1, FilesStay, GroundStays DEF ArtefactsAreKnown
<1>12. QED
  BY <1>7, <1>8, <1>9, <1>10, <1>11

\* One more run.
LEMMA RunIsLogged ==
    ASSUME ArtefactsAreKnown, FilesAreSound, UNCHANGED <<head, g0, cold, qual, file>>,
           NEW kind \in Kinds, NEW run \in RunRecords,
           log' = [log EXCEPT ![kind] = Append(@, run)],
           file[kind].status \notin {"none", "torn"} => run.head \in file[kind].head .. head
    PROVE  /\ ArtefactsAreKnown' /\ FilesAreSound'
           /\ log[kind] \in Seq(RunRecords) /\ log'[kind] \in Seq(RunRecords)
           /\ Len(log[kind]) \in Nat /\ Len(log'[kind]) = Len(log[kind]) + 1
           /\ log'[kind][Len(log[kind]) + 1] = run
           /\ \A r \in 1 .. Len(log[kind]) : log'[kind][r] = log[kind][r]
           /\ \A k \in Kinds \ {kind} : log'[k] = log[k]
<1>1. log \in [Kinds -> Seq(RunRecords)]
  BY DEF ArtefactsAreKnown
<1>2. PICK new : new = Append(log[kind], run)
  OBVIOUS
<1>3. /\ new \in Seq(RunRecords) /\ Len(new) = Len(log[kind]) + 1 /\ Len(log[kind]) \in Nat
      /\ new[Len(log[kind]) + 1] = run
      /\ \A r \in 1 .. Len(log[kind]) : new[r] = log[kind][r]
  BY <1>1, <1>2, AppendProperties
<1>4. log' = [log EXCEPT ![kind] = new]
  BY <1>2
<1>5. log'[kind] = new /\ log' \in [Kinds -> Seq(RunRecords)]
      /\ \A k \in Kinds \ {kind} : log'[k] = log[k]
  BY ONLY <1>1, <1>3, <1>4, kind \in Kinds
<1>6. ArtefactsAreKnown'
  BY <1>5 DEF ArtefactsAreKnown
<1>7. FilesAreSound'
  <2> SUFFICES ASSUME NEW k \in Kinds
               PROVE  /\ SoundRecords(k, file[k].runs, log'[k], file[k].head)
                      /\ file[k].status = "pass" =>
                            Len(file[k].runs) = Len(Jobs(k)) /\ AllPassed(file[k].runs)
                      /\ file[k].status \notin {"none", "torn"} =>
                            RanBetween(log'[k], file[k].head, head)
    BY DEF FilesAreSound
  <2>1. /\ SoundRecords(k, file[k].runs, log[k], file[k].head)
        /\ file[k].status = "pass" =>
              Len(file[k].runs) = Len(Jobs(k)) /\ AllPassed(file[k].runs)
        /\ file[k].status \notin {"none", "torn"} =>
              RanBetween(log[k], file[k].head, head)
    BY DEF FilesAreSound
  <2>2. CASE k # kind
    BY <1>5, <2>1, <2>2
  <2>3. CASE k = kind
    <3>1. SoundRecords(k, file[k].runs, log'[k], file[k].head)
      <4>1. file[kind].runs \in Seq(Records) /\ Len(log[kind]) <= Len(new)
        BY <1>3 DEF ArtefactsAreKnown
      <4>2. log[kind] \in Seq(RunRecords)
        BY <1>1
      <4>3. SoundRecords(kind, file[kind].runs, log[kind], file[kind].head)
        BY <2>1, <2>3
      <4>4. SoundRecords(kind, file[kind].runs, new, file[kind].head)
        BY ONLY kind \in Kinds, <1>3, <4>1, <4>2, <4>3, RunsAreKept
      <4>5. QED
        BY <1>5, <2>3, <4>4
    <3>2. file[k].status \notin {"none", "torn"} => RanBetween(log'[k], file[k].head, head)
      <4>1. DOMAIN new = 1 .. Len(log[kind]) + 1 /\ DOMAIN log[kind] = 1 .. Len(log[kind])
        BY <1>1, <1>3
      <4>2. \A r \in DOMAIN new : r = Len(log[kind]) + 1 \/ r \in DOMAIN log[kind]
        BY <1>3, <4>1
      <4>3. QED
        BY <1>3, <1>5, <2>1, <2>3, <4>1, <4>2 DEF RanBetween
    <3>3. QED
      BY <2>1, <3>1, <3>2
  <2>4. QED
    BY <2>2, <2>3
<1>8. QED
  BY <1>1, <1>3, <1>5, <1>6, <1>7

\* What is noted of a run.
LEMMA RunIsARecord ==
    ASSUME CampaignInv, task \in Kinds, NEW v \in Verdicts
    PROVE  /\ RunOf(v) \in RunRecords /\ RunOf(v).job = Current /\ RunOf(v).head = head
           /\ RunOf(v).verdict = v
           /\ Loaded(task, Current) => RunOf(v).control = controls
<1>1. Len(ledger) \in Nat /\ controls \in Nat /\ head \in Nat
  BY DEF CampaignInv, ProcessIsKnown, ArtefactsAreKnown
<1>2. Current \in Nat
  BY <1>1 DEF Current
<1>3. PICK c \in Nat :
         /\ RunOf(v) = [job |-> Current, head |-> head, verdict |-> v, control |-> c]
         /\ Loaded(task, Current) => c = controls
  <2>1. CASE Jobs(task)[Current] = Job("L2", FALSE)
    BY <1>1, <2>1 DEF RunOf
  <2>2. CASE Jobs(task)[Current] # Job("L2", FALSE)
    BY <2>2 DEF RunOf, Loaded
  <2>3. QED
    BY <2>1, <2>2
<1>4. PICK rec : rec = RunOf(v)
  OBVIOUS
<1>5. rec = [job |-> Current, head |-> head, verdict |-> v, control |-> c]
  BY <1>3, <1>4
<1>6. rec \in RunRecords /\ rec.job = Current /\ rec.head = head /\ rec.verdict = v
      /\ rec.control = c
  BY <1>1, <1>2, <1>5 DEF RunRecords
<1>7. QED
  BY <1>3, <1>4, <1>6

\* A job is run where the core campaign may go on.
LEMMA GroundGrows ==
    ASSUME CampaignInv, task = "core", pc \in {"guard", "execute"}, Len(ledger) < Len(Jobs("core")),
           ~stopAll, ~FailedCase(ledger, Current), CaseAt(Current) = "L2" => Background(ledger),
           NEW v \in Verdicts, NEW new \in Seq(RunRecords), Len(new) = Len(log["core"]) + 1,
           Len(log["core"]) \in Nat,
           new[Len(log["core"]) + 1] = RunOf(v),
           \A r \in 1 .. Len(log["core"]) : new[r] = log["core"][r]
    PROVE  \A j \in DOMAIN new : SoundAt(new, j)
<1> DEFINE n == Len(log["core"])
<1>1. /\ ledger \in Seq(Records) /\ log["core"] \in Seq(RunRecords) /\ n \in Nat
      /\ DOMAIN new = 1 .. n + 1 /\ DOMAIN log["core"] = 1 .. n
  BY DEF CampaignInv, ProcessIsKnown, ArtefactsAreKnown, Kinds
<1>2. Tells(ledger, log["core"])
  BY DEF CampaignInv, LedgerIsSound, SoundRecords, Kinds
<1>3. /\ \A r \in 1 .. n : \E i \in DOMAIN ledger : ledger[i].root = r
      /\ StopsInTime(ledger, log["core"], stopAll)
  <2>1. CoreIsWatched /\ pc # "record"
    BY DEF CampaignInv
  <2>2. \A r \in 1 .. n : \E i \in DOMAIN ledger : ledger[i].root = r
    BY <1>1, <2>1 DEF CoreIsWatched
  <2>3. StopsInTime(ledger, log["core"], stopAll)
    BY <2>1 DEF CoreIsWatched
  <2>4. QED
    BY <2>2, <2>3
<1>4. \A r \in 1 .. n : log["core"][r].verdict \in Verdicts
  <2>1. \A r \in 1 .. n : log["core"][r] \in RunRecords
    BY <1>1
  <2>2. QED
    BY <2>1 DEF RunRecords
<1>5. \A i \in DOMAIN ledger : /\ ledger[i].job = i /\ ledger[i].root \in 0 .. n
                               /\ ledger[i].root = 0 => ledger[i].status = "not_run"
                               /\ ledger[i].root # 0 =>
                                     /\ ledger[i].root \in 1 .. n
                                     /\ log["core"][ledger[i].root].job = i
                                     /\ ledger[i].status
                                            = StatusOf(log["core"][ledger[i].root].verdict)
  BY <1>1, <1>2 DEF Tells
<1>6. new[n + 1].job = Current /\ (Loaded("core", Current) => new[n + 1].control = controls)
  BY RunIsARecord DEF Kinds
<1> HIDE DEF n
<1>7. ASSUME NEW r \in 1 .. n
      PROVE  /\ new[r].verdict \in {"pass", "weak"}
             /\ CaseAt(new[r].job) = CaseAt(Current) => new[r].verdict = "pass"
  <2>1. PICK i \in DOMAIN ledger : ledger[i].root = r
    BY <1>3
  <2>2. log["core"][r].job = i /\ ledger[i].status = StatusOf(log["core"][r].verdict)
        /\ new[r] = log["core"][r] /\ r # 0 /\ ledger[i].job = i
    BY <1>1, <1>5, <2>1 DEF n
  <2>3. log["core"][r].verdict \in {"pass", "weak"}
    BY <1>3, <2>1, <2>2 DEF StopsInTime
  <2>4. ASSUME CaseAt(new[r].job) = CaseAt(Current), log["core"][r].verdict = "weak"
        PROVE  FALSE
    <3>1. ledger[i].status = "valid_failure"
      BY <2>2, <2>4 DEF StatusOf
    <3>2. QED
      BY <2>2, <2>4, <3>1 DEF FailedCase
  <2>5. QED
    BY <2>2, <2>3, <2>4
<1>8. ASSUME CaseAt(Current) = "L2", NEW c \in {"U1", "U2"}
      PROVE  \E r \in 1 .. n : CaseAt(new[r].job) = c /\ new[r].verdict = "pass"
  <2>1. PICK i \in DOMAIN ledger : ledger[i].status = "pass" /\ CaseAt(ledger[i].job) = c
    BY <1>8 DEF Background, PassedCase
  <2>2. ledger[i].root \in 1 .. n /\ log["core"][ledger[i].root].job = i /\ ledger[i].job = i
        /\ StatusOf(log["core"][ledger[i].root].verdict) = "pass"
    BY <1>5, <2>1
  <2>3. log["core"][ledger[i].root].verdict = "pass"
    BY <1>4, <2>2, StatusesAre
  <2>4. QED
    BY <2>1, <2>2, <2>3 DEF n
<1>9. ASSUME Loaded("core", Current)
      PROVE  /\ controls \in 1 .. n /\ new[controls].verdict = "pass"
             /\ Jobs("core")[new[controls].job].control
  <2>1. Current = 6 /\ 5 \in DOMAIN ledger
    <3>1. PICK m \in Nat : m = Len(ledger)
      BY <1>1
    <3>2. Current = m + 1 /\ Current \in 1 .. Len(Jobs("core")) /\ DOMAIN ledger = 1 .. m
      BY <1>1, <3>1, JobsAre DEF Current
    <3>3. Current = 6
      <4>1. Current \in Nat /\ "core" \in Kinds
        BY <3>1, <3>2 DEF Kinds
      <4>2. Loaded("core", Current) <=> Current = 6
        BY <3>2, <4>1, JobsAre
      <4>3. QED
        BY <1>9, <4>2
    <3>4. QED
      BY <3>2, <3>3
  <2>2. CaseAt(Current) = "L2" /\ CaseAt(5) = "L2" /\ Jobs("core")[5].control
    BY <2>1, JobsAre DEF CaseAt, Kinds
  <2>3. ledger[5].status = "pass"
    <3>1. ledger[5].status = "pass" \/ FailedCase(ledger, 5) \/ ~Background(ledger)
      BY <1>3, <2>1, <2>2 DEF StopsInTime
    <3>2. FailedCase(ledger, 5) => FailedCase(ledger, Current)
      BY <2>2 DEF FailedCase
    <3>3. QED
      BY <2>2, <3>1, <3>2
  <2>4. controls = ledger[5].root
    BY <2>1, <2>2, <2>3 DEF CampaignInv, ControlIsKnown, Kinds
  <2>5. ledger[5].root \in 1 .. n /\ log["core"][ledger[5].root].job = 5
        /\ StatusOf(log["core"][ledger[5].root].verdict) = "pass"
    BY <1>5, <2>1, <2>3
  <2>6. log["core"][ledger[5].root].verdict = "pass"
    BY <1>4, <2>5, StatusesAre
  <2>7. QED
    BY <2>2, <2>4, <2>5, <2>6 DEF n
<1>10. SoundAt(new, n + 1)
  <2>0. PICK m : m = n + 1
    OBVIOUS
  <2>1. \A i : i \in 1 .. m - 1 <=> i \in 1 .. n
    BY <1>1, <2>0
  <2>2. /\ new[m].job = Current
        /\ Loaded("core", Current) => new[m].control = controls
    BY <1>6, <2>0
  <2>3. \A i \in 1 .. m - 1 :
           /\ new[i].verdict \in {"pass", "weak"}
           /\ CaseAt(new[i].job) = CaseAt(new[m].job) => new[i].verdict = "pass"
    BY <1>7, <2>1, <2>2
  <2>4. CaseAt(new[m].job) = "L2" =>
           \A c \in {"U1", "U2"} :
              \E i \in 1 .. m - 1 : CaseAt(new[i].job) = c /\ new[i].verdict = "pass"
    BY <1>8, <2>1, <2>2
  <2>5. Loaded("core", new[m].job) =>
           /\ new[m].control \in 1 .. m - 1
           /\ new[new[m].control].verdict = "pass"
           /\ Jobs("core")[new[new[m].control].job].control
    BY <1>9, <2>1, <2>2
  <2>6. SoundAt(new, m)
    BY ONLY <2>3, <2>4, <2>5 DEF SoundAt
  <2>7. QED
    BY <2>0, <2>6
<1>11. ASSUME NEW j \in 1 .. n PROVE SoundAt(new, j)
  <2>1. SoundAt(log["core"], j)
    BY <1>1 DEF CampaignInv, GroundIsSound
  <2>2. /\ new[j] = log["core"][j] /\ \A i \in 1 .. j - 1 : new[i] = log["core"][i]
    BY <1>1 DEF n
  <2>3. Loaded("core", new[j].job) => new[j].control \in 1 .. j - 1
    BY <2>1, <2>2 DEF SoundAt
  <2>4. QED
    BY ONLY <2>1, <2>2, <2>3 DEF SoundAt
<1>12. QED
  <2>1. \A j \in DOMAIN new : j = n + 1 \/ j \in 1 .. n
    BY <1>1
  <2>2. QED
    BY <1>10, <1>11, <2>1

\* A run ends, and is to be recorded.
LEMMA RunIsRemembered ==
    ASSUME CampaignInv, task \in Kinds, pc \in {"guard", "execute"}, NEW v \in Verdicts,
           UNCHANGED <<policy, head, g0, cold, qual, file, claimed, observations,
                       task, seen, ledger, stopAll>>,
           ArtefactsAreKnown', FilesAreSound',
           log[task] \in Seq(RunRecords), log'[task] \in Seq(RunRecords),
           NEW n \in Nat, n = Len(log[task]), Len(log'[task]) = n + 1,
           log'[task][n + 1] = RunOf(v),
           \A r \in 1 .. n : log'[task][r] = log[task][r],
           \A k \in Kinds \ {task} : log'[k] = log[k],
           pc' = "record",
           controls' = IF Jobs(task)[Current].control /\ v # "raised"
                       THEN Len(log'[task]) ELSE controls,
           task \in Measured /\ v = "pass" => RanBetween(log[task], seen[1], seen[1]),
           task = "core" => /\ ~stopAll /\ ~FailedCase(ledger, Current)
                            /\ CaseAt(Current) = "L2" => Background(ledger)
    PROVE  CampaignInv'
<1> USE DEF CampaignInv
<1>1. DOMAIN log'[task] = 1 .. n + 1 /\ DOMAIN log[task] = 1 .. n
  OBVIOUS
<1>2. /\ ledger \in Seq(Records) /\ Len(ledger) \in Nat /\ controls \in Nat /\ head \in Nat
      /\ seen[1] \in Nat /\ seen[1] <= head /\ Len(Jobs(task)) \in Nat
      /\ SoundRecords(task, ledger, log[task], seen[1]) /\ Tells(ledger, log[task])
      /\ Len(ledger) < Len(Jobs(task))
      /\ \A i \in DOMAIN ledger : ledger[i].root \in 0 .. n
  <2>1. /\ ledger \in Seq(Records) /\ Len(ledger) \in Nat /\ controls \in Nat /\ head \in Nat
        /\ seen[1] \in Nat /\ seen[1] <= head
    BY DEF ProcessIsKnown, ArtefactsAreKnown
  <2>4. Len(Jobs(task)) \in Nat
    BY JobsAre DEF Kinds
  <2>2. /\ SoundRecords(task, ledger, log[task], seen[1]) /\ Tells(ledger, log[task])
        /\ Len(ledger) < Len(Jobs(task))
    BY DEF LedgerIsSound, SoundRecords
  <2>3. QED
    BY <2>1, <2>2, <2>4 DEF Tells
<1>3. /\ Current \in Nat /\ Current \in 1 .. Len(Jobs(task)) /\ Current' = Current
      /\ DOMAIN ledger = 1 .. Len(ledger) /\ Current = Len(ledger) + 1
  <2>1. Current \in Nat /\ Current' = Current /\ Current = Len(ledger) + 1
    BY <1>2 DEF Current
  <2>2. QED
    BY <1>2, <2>1
<1>4. /\ RunOf(v).job = Current /\ RunOf(v).head = head /\ RunOf(v).verdict = v
      /\ Loaded(task, Current) => RunOf(v).control = controls
  BY RunIsARecord
<1>5. controls' \in Nat
  BY <1>1, <1>2
<1>6. ProcessIsKnown'
  BY ONLY <1>5, CampaignInv, task \in Kinds, pc' = "record",
          UNCHANGED <<head, task, seen, ledger, stopAll>>
     DEF CampaignInv, ProcessIsKnown, Kinds, Measured
<1>7. EvidenceStands' /\ ObservationIsClaimed'
  BY DEF EvidenceStands, ObservationIsClaimed, Core
<1>8. SoundRecords(task, ledger, log'[task], seen[1])
  <2>1. Len(log[task]) <= Len(log'[task])
    OBVIOUS
  <2>2. QED
    BY <1>1, <1>2, <2>1, RunsAreKept
<1>9. LedgerIsSound'
  <2>1. RanBetween(log'[task], seen[1], head)
    <3>1. RanBetween(log[task], seen[1], head)
      BY DEF LedgerIsSound
    <3>3. \A r \in DOMAIN log'[task] : r = n + 1 \/ r \in 1 .. n
      BY <1>1
    <3>4. head \in seen[1] .. head
      BY <1>2
    <3>5. QED
      BY <1>1, <1>4, <3>1, <3>3, <3>4 DEF RanBetween
  <2>2. QED
    BY <1>2, <1>8, <2>1 DEF LedgerIsSound
<1>10. RunIsSound'
  <2>1. Newest' = RunOf(v) /\ log'[task] # <<>>
    BY <1>1 DEF Newest
  <2>2. \A i \in DOMAIN ledger : ledger[i].root < Len(log'[task])
    BY <1>1, <1>2
  <2>3. task \in Measured /\ v = "pass" =>
           \A r \in 1 .. Len(log'[task]) - 1 : log'[task][r].head = seen[1]
    <3>1. \A r \in 1 .. n + 1 - 1 : r \in 1 .. n
      BY <1>1
    <3>3. RanBetween(log[task], seen[1], seen[1]) =>
             \A r \in 1 .. n : log[task][r].head = seen[1]
      BY <1>1, <1>2 DEF RanBetween
    <3>4. QED
      BY <3>1, <3>3
  <2>4. Loaded(task, Current) => RunOf(v).control = controls'
    BY <1>3, <1>4, JobsAre
  <2>5. Jobs(task)[Current].control /\ v = "pass" => controls' = Len(log'[task])
    OBVIOUS
  <2>6. QED
    BY <1>3, <1>4, <2>1, <2>2, <2>3, <2>4, <2>5 DEF RunIsSound
<1>11. ControlIsKnown'
  <2>1. CASE controls' = controls
    BY <2>1 DEF ControlIsKnown
  <2>2. CASE Jobs(task)[Current].control
    <3>1. \A i \in DOMAIN ledger : i \in Nat /\ i \in 1 .. Len(Jobs(task)) /\ i # Current
      BY <1>2, <1>3
    <3>2. \A i \in DOMAIN ledger : ~Jobs(task)[i].control
      BY <1>3, <2>2, <3>1, JobsAre
    <3>3. QED
      BY <3>2 DEF ControlIsKnown
  <2>3. QED
    BY <2>1, <2>2
<1>12. CoreIsWatched'
  <2> SUFFICES ASSUME task = "core" PROVE CoreIsWatched'
    BY DEF CoreIsWatched
  <2>1. /\ \A r \in DOMAIN log["core"] : \E i \in DOMAIN ledger : ledger[i].root = r
        /\ StopsInTime(ledger, log["core"], stopAll)
    BY DEF CoreIsWatched
  <2>2. DOMAIN log'["core"] = 1 .. n + 1 /\ DOMAIN log["core"] = 1 .. n /\ Len(log'["core"]) = n + 1
    BY <1>1
  <2>3. \A r \in DOMAIN log'["core"] : r = n + 1 \/ r \in 1 .. n
    BY <1>1, <2>2
  <2>4. \A i \in DOMAIN ledger : ledger[i].root # 0 =>
           log'["core"][ledger[i].root] = log["core"][ledger[i].root]
    BY <1>1, <1>2
  <2>5. StopsInTime(ledger, log'["core"], stopAll)
    BY <2>1, <2>4 DEF StopsInTime
  <2>6. QED
    BY <2>1, <2>2, <2>3, <2>5 DEF CoreIsWatched
<1>13. GroundIsSound'
  <2>1. CASE task = "core"
    <3>1. \A j \in DOMAIN log'["core"] : SoundAt(log'["core"], j)
      BY <1>1, <1>2, <2>1, GroundGrows
    <3>2. QED
      BY <3>1 DEF GroundIsSound
  <2>2. CASE task # "core"
    BY <1>1, <2>2, GroundStays DEF Kinds
  <2>3. QED
    BY <2>1, <2>2
<1>14. QED
  BY <1>6, <1>7, <1>9, <1>10, <1>11, <1>12, <1>13

\* The same, from the step as the actions state it.
LEMMA RunEnds ==
    ASSUME CampaignInv, task \in Kinds, pc \in {"guard", "execute"}, NEW v \in Verdicts,
           UNCHANGED <<policy, head, g0, cold, qual, file, claimed, observations,
                       task, seen, ledger, stopAll>>,
           log' = [log EXCEPT ![task] = Append(@, RunOf(v))], pc' = "record",
           controls' = IF Jobs(task)[Current].control /\ v # "raised"
                       THEN Len(log'[task]) ELSE controls,
           task \in Measured /\ v = "pass" => RanBetween(log[task], seen[1], seen[1]),
           task = "core" => /\ ~stopAll /\ ~FailedCase(ledger, Current)
                            /\ CaseAt(Current) = "L2" => Background(ledger)
    PROVE  CampaignInv'
<1>1. RunOf(v) \in RunRecords /\ RunOf(v).head = head
  BY RunIsARecord
<1>2. file[task].status \notin {"none", "torn"} => head \in file[task].head .. head
  BY ONLY CampaignInv, task \in Kinds
     DEF CampaignInv, LedgerIsSound, ProcessIsKnown, ArtefactsAreKnown
<1>3. ArtefactsAreKnown /\ FilesAreSound
  BY DEF CampaignInv
<1>4. /\ ArtefactsAreKnown' /\ FilesAreSound'
      /\ log[task] \in Seq(RunRecords) /\ log'[task] \in Seq(RunRecords)
      /\ Len(log[task]) \in Nat /\ Len(log'[task]) = Len(log[task]) + 1
      /\ log'[task][Len(log[task]) + 1] = RunOf(v)
      /\ \A r \in 1 .. Len(log[task]) : log'[task][r] = log[task][r]
      /\ \A k \in Kinds \ {task} : log'[k] = log[k]
  BY <1>1, <1>2, <1>3, RunIsLogged
<1>5. QED
  BY <1>4, RunIsRemembered

\* What leaves a job out of a core campaign, of the job that is next.
LEMMA LeavesOut ==
    ASSUME CampaignInv, task = "core", pc \in {"guard", "execute", "record"}
    PROVE  LET job == Jobs("core")[Current]
           IN /\ FamilyStopped(job) <=> FailedCase(ledger, Current)
              /\ job.case = "L2" /\ ~(Stable("U1") /\ Stable("U2"))
                    <=> CaseAt(Current) = "L2" /\ ~Background(ledger)
  BY DEF FamilyStopped, FailedCase, CaseAt, Stable, Background, PassedCase

\* The guard before a job (phase14_campaign.py, qualification_guard).
LEMMA GuardKeeps == ASSUME CampaignInv, Guard PROVE CampaignInv'
<1> USE DEF CampaignInv
<1>1. /\ pc = "guard" /\ task \in Measured /\ task \in Kinds
      /\ UNCHANGED <<policy, head, g0, cold, qual, file, claimed, observations>>
  BY DEF Guard, memory, ProcessIsKnown, Measured, Kinds
<1>2. task = "core" => /\ ~stopAll /\ ~FailedCase(ledger, Current)
                       /\ CaseAt(Current) = "L2" => Background(ledger)
  <2> SUFFICES ASSUME task = "core"
               PROVE  /\ ~stopAll /\ ~FailedCase(ledger, Current)
                      /\ CaseAt(Current) = "L2" => Background(ledger)
    OBVIOUS
  <2>1. ~LeftOut(Jobs("core")[Current])
    BY DEF Guard
  <2>2. QED
    BY <1>1, <2>1, LeavesOut DEF LeftOut
<1>3. \/ /\ GuardHolds /\ pc' = "execute"
         /\ UNCHANGED <<log, task, seen, ledger, controls, stopAll>>
      \/ /\ task = "core" /\ log' = [log EXCEPT !["core"] = Append(@, RunOf("raised"))]
         /\ pc' = "record" /\ UNCHANGED <<task, seen, ledger, controls, stopAll>>
      \/ Forget /\ UNCHANGED log
  BY DEF Guard
<1>4. CASE /\ GuardHolds /\ pc' = "execute"
           /\ UNCHANGED <<log, task, seen, ledger, controls, stopAll>>
  <2>1. ArtefactsAreKnown' /\ FilesAreSound' /\ GroundIsSound'
    BY <1>1, <1>4, FilesStay, GroundStays DEF ArtefactsAreKnown
  <2>2. ProcessIsKnown' /\ ObservationIsClaimed'
    BY <1>1, <1>4 DEF ProcessIsKnown, ObservationIsClaimed, Measured, Kinds
  <2>3. EvidenceStands'
    BY <1>1, <1>4 DEF EvidenceStands, Core
  <2>4. head = seen[1]
    BY <1>1, <1>4 DEF EvidenceStands, GuardHolds
  <2>5. LedgerIsSound'
    BY <1>1, <1>4, <2>4 DEF LedgerIsSound
  <2>6. RunIsSound' /\ ControlIsKnown'
    BY <1>4 DEF RunIsSound, ControlIsKnown
  <2>7. CoreIsWatched'
    BY <1>1, <1>2, <1>4 DEF CoreIsWatched, Current
  <2>8. QED
    BY <2>1, <2>2, <2>3, <2>5, <2>6, <2>7
<1>5. CASE /\ task = "core" /\ log' = [log EXCEPT !["core"] = Append(@, RunOf("raised"))]
           /\ pc' = "record" /\ UNCHANGED <<task, seen, ledger, controls, stopAll>>
  <2>1. log' = [log EXCEPT ![task] = Append(@, RunOf("raised"))]
    BY <1>5
  <2>2. PICK v \in Verdicts : v = "raised"
    BY DEF Verdicts
  <2>3. QED
    BY <1>1, <1>2, <1>5, <2>1, <2>2, RunEnds
<1>6. CASE Forget /\ UNCHANGED log
  <2>1. ArtefactsAreKnown' /\ FilesAreSound' /\ GroundIsSound'
    BY <1>1, <1>6, FilesStay, GroundStays DEF ArtefactsAreKnown
  <2>2. EvidenceStands'
    BY <1>1, <1>6, EvidenceStays DEF Forget, Measured
  <2>3. QED
    BY <1>1, <1>6, <2>1, <2>2, ForgetKeeps
<1>7. QED
  BY <1>3, <1>4, <1>5, <1>6

\* A job is run.
LEMMA ExecuteKeeps == ASSUME CampaignInv, Execute PROVE CampaignInv'
<1> USE DEF CampaignInv
<1>1. /\ pc = "execute" /\ task \in Kinds
      /\ UNCHANGED <<policy, head, g0, cold, qual, file, claimed, observations>>
  BY DEF Execute, memory, ProcessIsKnown
<1>2. PICK v \in Verdicts :
         /\ log' = [log EXCEPT ![task] = Append(@, RunOf(v))]
         /\ IF v = "raised" /\ task # "core"
            THEN Forget
            ELSE /\ pc' = "record"
                 /\ controls' = IF Jobs(task)[Current].control /\ v # "raised"
                                THEN Len(log'[task]) ELSE controls
                 /\ UNCHANGED <<task, seen, ledger, stopAll>>
  <2>1. PICK units \in IF task = "core" THEN 1 .. 2 ELSE {1} :
           \E o \in OutcomesOf(Jobs(task)[Current], task = "core" /\ left < units) :
              /\ log' = [log EXCEPT ![task] = Append(@, RunOf(o))]
              /\ IF o = "raised" /\ task # "core"
                 THEN Forget
                 ELSE /\ pc' = "record"
                      /\ controls' = IF Jobs(task)[Current].control /\ o # "raised"
                                     THEN Len(log'[task]) ELSE controls
                      /\ UNCHANGED <<task, seen, ledger, stopAll>>
    BY DEF Execute
  <2>2. OutcomesOf(Jobs(task)[Current], task = "core" /\ left < units) \subseteq Verdicts
    BY DEF OutcomesOf, Outcomes, Verdicts
  <2>3. QED
    BY <2>1, <2>2
<1>3. CASE v = "raised" /\ task # "core"
  <2>1. RunOf(v) \in RunRecords /\ RunOf(v).head = head
    BY <1>1, RunIsARecord
  <2>2. file[task].status \notin {"none", "torn"} => head \in file[task].head .. head
    BY ONLY CampaignInv, <1>1
       DEF CampaignInv, LedgerIsSound, ProcessIsKnown, ArtefactsAreKnown
  <2>3. ArtefactsAreKnown' /\ FilesAreSound' /\ log'["core"] = log["core"]
    BY <1>1, <1>2, <1>3, <2>1, <2>2, RunIsLogged DEF Kinds
  <2>4. EvidenceStands'
    BY <1>1, <1>2, <1>3, EvidenceStays DEF Forget, Measured
  <2>5. GroundIsSound'
    BY <2>3, GroundStays
  <2>6. QED
    BY <1>1, <1>2, <1>3, <2>3, <2>4, <2>5, ForgetKeeps
<1>4. CASE ~(v = "raised" /\ task # "core")
  <2>1. task \in Measured /\ v = "pass" => RanBetween(log[task], seen[1], seen[1])
    BY <1>1 DEF LedgerIsSound
  <2>2. task = "core" => /\ ~stopAll /\ ~FailedCase(ledger, Current)
                         /\ CaseAt(Current) = "L2" => Background(ledger)
    BY <1>1 DEF CoreIsWatched
  <2>3. QED
    BY <1>1, <1>2, <1>4, <2>1, <2>2, RunEnds
<1>5. QED
  BY <1>3, <1>4

\* One more record of a core campaign.
LEMMA StopsStill ==
    ASSUME NEW runs \in Seq(Records), NEW rec \in Records, NEW more, more = Append(runs, rec),
           NEW runsOf, NEW stops, NEW stop, stops => stop,
           StopsInTime(runs, runsOf, stops),
           \A i \in DOMAIN runs : runs[i].job = i,
           rec.job = Len(runs) + 1, Len(runs) < Len(Jobs("core")),
           ~stop /\ rec.root # 0 => runsOf[rec.root].verdict \in {"pass", "weak"},
           Jobs("core")[rec.job].control =>
              \/ rec.status \in {"pass", "valid_failure"} \/ stop
              \/ FailedCase(runs, rec.job) \/ ~Background(runs)
    PROVE  StopsInTime(more, runsOf, stop)
<1>1. PICK n \in Nat : n = Len(runs) /\ DOMAIN runs = 1 .. n
  OBVIOUS
<1>2. /\ DOMAIN more = 1 .. n + 1 /\ more[n + 1] = rec /\ \A i \in 1 .. n : more[i] = runs[i]
      /\ rec.job = n + 1 /\ n + 1 \in 1 .. 6
  <2>1. n < 6
    BY <1>1, JobsAre
  <2>2. rec.job = n + 1
    BY <1>1
  <2>3. Len(more) = n + 1 /\ more[n + 1] = rec /\ (\A i \in 1 .. n : more[i] = runs[i])
        /\ DOMAIN more = 1 .. n + 1
    BY <1>1, AppendProperties
  <2>4. QED
    BY <2>1, <2>2, <2>3
<1>3. \A i : FailedCase(runs, i) => FailedCase(more, i)
  <2> SUFFICES ASSUME NEW i, NEW m \in 1 .. n,
                      runs[m].status = "valid_failure" /\ CaseAt(runs[m].job) = CaseAt(i)
               PROVE  FailedCase(more, i)
    BY <1>1 DEF FailedCase
  <2>1. m \in DOMAIN more /\ more[m] = runs[m]
    BY <1>2
  <2>2. QED
    BY <2>1 DEF FailedCase
<1>4. rec.status = "valid_failure" => FailedCase(more, n + 1)
  BY <1>2 DEF FailedCase
<1>5. ASSUME CaseAt(rec.job) = "L2", Background(more) PROVE Background(runs)
  <2>1. ASSUME NEW c \in {"U1", "U2"}, PassedCase(more, c) PROVE PassedCase(runs, c)
    <3>1. PICK m \in DOMAIN more : more[m].status = "pass" /\ CaseAt(more[m].job) = c
      BY <2>1 DEF PassedCase
    <3>2. m # n + 1
      BY <1>2, <1>5, <3>1
    <3>3. m \in 1 .. n
      BY <1>2, <3>2
    <3>4. QED
      BY <1>1, <1>2, <3>1, <3>3 DEF PassedCase
  <2>2. QED
    BY <1>5, <2>1 DEF Background
<1>6. \A i \in 1 .. 6 : (Jobs("core")[i].control <=> i = 5) /\ CaseAt(5) = "L2" /\ CaseAt(6) = "L2"
  BY JobsAre DEF Kinds, CaseAt
<1>7. ASSUME ~stop, NEW i \in 1 .. n + 1, more[i].root # 0
      PROVE  runsOf[more[i].root].verdict \in {"pass", "weak"}
  <2>1. CASE i = n + 1
    BY <1>2, <1>7, <2>1
  <2>2. CASE i \in 1 .. n
    BY <1>1, <1>2, <1>7, <2>2 DEF StopsInTime
  <2>3. QED
    BY <1>1, <2>1, <2>2
<1>8. ASSUME NEW i \in 1 .. n + 1, Jobs("core")[i].control
      PROVE  more[i].status = "pass" \/ stop \/ FailedCase(more, i) \/ ~Background(more)
  <2>1. i = 5
    BY <1>2, <1>6, <1>8
  <2>2. CASE i = n + 1
    <3>1. CaseAt(rec.job) = "L2" /\ more[i] = rec /\ rec.job = i
      BY <1>2, <1>6, <2>1, <2>2
    <3>2. QED
      BY <1>3, <1>4, <1>5, <1>8, <2>2, <3>1
  <2>3. CASE i \in 1 .. n
    <3>1. n + 1 = 6
      BY <1>2, <2>1, <2>3
    <3>2. CaseAt(rec.job) = "L2" /\ more[i] = runs[i] /\ i \in DOMAIN runs
      BY <1>1, <1>2, <1>6, <2>3, <3>1
    <3>3. runs[i].status = "pass" \/ stops \/ FailedCase(runs, i) \/ ~Background(runs)
      BY <1>8, <3>2 DEF StopsInTime
    <3>4. QED
      BY <1>3, <1>5, <3>2, <3>3
  <2>4. QED
    BY <1>1, <2>2, <2>3
<1>9. QED
  BY <1>2, <1>7, <1>8 DEF StopsInTime

\* A record is written and the campaign goes on.
LEMMA CampaignGoesOn ==
    ASSUME CampaignInv, task \in Kinds, pc \in {"guard", "record"},
           UNCHANGED <<policy, head, g0, cold, qual, log, claimed, observations,
                       task, seen, controls>>,
           stopAll' \in BOOLEAN, NEW rec \in Records, ledger' = Append(ledger, rec),
           ledger' \in Seq(Records), Len(ledger') = Len(ledger) + 1,
           ledger'[Len(ledger) + 1] = rec, \A i \in 1 .. Len(ledger) : ledger'[i] = ledger[i],
           Len(ledger) \in Nat, Writes("running"), Onward, rec.job = Len(ledger) + 1,
           SoundRecords(task, ledger', log[task], seen[1]),
           task # "core" => rec.status = "pass",
           Jobs(task)[rec.job].control /\ rec.status = "pass" => controls = rec.root,
           task = "core" =>
              /\ \A r \in DOMAIN log["core"] :
                    r = rec.root \/ \E i \in DOMAIN ledger : ledger[i].root = r
              /\ StopsInTime(ledger', log["core"], stopAll')
    PROVE  CampaignInv'
<1> USE DEF CampaignInv
<1>1. PICK n \in Nat : n = Len(ledger)
  OBVIOUS
<1>2. /\ DOMAIN ledger' = 1 .. n + 1 /\ ledger'[n + 1] = rec /\ DOMAIN ledger = 1 .. n
      /\ \A i \in 1 .. n : ledger'[i] = ledger[i]
      /\ ledger' \in Seq(Records) /\ rec.job = n + 1
      /\ \A i \in 1 .. n + 1 : i = n + 1 \/ i \in 1 .. n
  <2>1. DOMAIN ledger' = 1 .. n + 1 /\ DOMAIN ledger = 1 .. n
    BY ONLY <1>1, ledger' \in Seq(Records), ledger \in Seq(Records),
            Len(ledger') = Len(ledger) + 1, CampaignInv DEF CampaignInv, ProcessIsKnown
  <2>2. QED
    BY <1>1, <2>1
<1>3. /\ pc' = (IF Len(ledger') = Len(Jobs(task)) THEN "finish" ELSE FirstPc(task))
      /\ pc' \in {"finish", "execute", "guard"} /\ (pc' = "guard" => task \in Measured)
      /\ (pc' = "execute" => task \notin Measured)
      /\ (pc' = "finish" <=> Len(ledger') = Len(Jobs(task)))
  BY DEF Onward, FirstPc, Measured, Kinds
<1> DEFINE f == [status |-> "running", head |-> seen[1], runs |-> ledger']
<1>4. file' = [file EXCEPT ![task] = f] /\ f.runs = ledger' /\ f.head = seen[1]
      /\ f.status = "running"
  BY DEF Writes
<1>5. seen[1] \in Nat /\ seen[1] <= head /\ head \in Nat
  BY DEF ProcessIsKnown, ArtefactsAreKnown
<1>6. f \in [status : FileStatuses, head : Nat, runs : Seq(Records)]
  BY <1>2, <1>5 DEF FileStatuses
<1> HIDE DEF f
<1>7. RanBetween(log[task], seen[1], head)
  BY DEF LedgerIsSound
<1>8. /\ file' \in [Kinds -> [status : FileStatuses, head : Nat, runs : Seq(Records)]]
      /\ FilesAreSound'
  BY <1>4, <1>6, <1>7, FileIsWritten DEF ArtefactsAreKnown
<1>9. /\ ArtefactsAreKnown' /\ GroundIsSound' /\ ObservationIsClaimed'
      /\ (file'["smoke"] = file["smoke"] \/ task = "smoke")
  <2>1. ArtefactsAreKnown'
    BY <1>8 DEF ArtefactsAreKnown
  <2>2. GroundIsSound'
    BY GroundStays
  <2>3. ObservationIsClaimed'
    BY <1>3 DEF ObservationIsClaimed
  <2>4. file'["smoke"] = file["smoke"] \/ task = "smoke"
    BY <1>4 DEF ArtefactsAreKnown, Kinds
  <2>5. QED
    BY <2>1, <2>2, <2>3, <2>4
<1>10. ProcessIsKnown'
  BY ONLY <1>2, <1>3, CampaignInv, task \in Kinds, stopAll' \in BOOLEAN,
          UNCHANGED <<head, task, seen, controls>>
     DEF CampaignInv, ProcessIsKnown, Kinds, Measured
<1>11. EvidenceStands'
  BY <1>9 DEF EvidenceStands, Core
<1>12. LedgerIsSound'
  <2>1. task # "core" => AllPassed(ledger')
    BY <1>2 DEF LedgerIsSound, AllPassed
  <2>2. IF pc' = "finish" THEN Len(ledger') = Len(Jobs(task)) ELSE Len(ledger') < Len(Jobs(task))
    <3>1. Len(ledger') <= Len(Jobs(task)) /\ Len(ledger') \in Nat /\ Len(Jobs(task)) \in Nat
      <4>1. Len(ledger') <= Len(Jobs(task)) /\ Len(Jobs(task)) \in Nat
        BY JobsAre DEF SoundRecords, Kinds
      <4>2. QED
        BY <1>2, <4>1
    <3>2. QED
      BY <1>3, <3>1
  <2>3. file'[task].head = seen[1]
    BY <1>4 DEF ArtefactsAreKnown
  <2>4. QED
    BY <1>3, <1>7, <2>1, <2>2, <2>3 DEF LedgerIsSound
<1>13. RunIsSound'
  BY <1>3 DEF RunIsSound
<1>14. ControlIsKnown'
  BY <1>2 DEF ControlIsKnown
<1>15. CoreIsWatched'
  <2> SUFFICES ASSUME task = "core" PROVE CoreIsWatched'
    BY DEF CoreIsWatched
  <2>1. ASSUME NEW r \in DOMAIN log["core"] PROVE \E i \in DOMAIN ledger' : ledger'[i].root = r
    <3>1. CASE r = rec.root
      <4>1. n + 1 \in DOMAIN ledger'
        BY <1>2
      <4>2. QED
        BY <1>2, <3>1, <4>1
    <3>2. CASE \E i \in DOMAIN ledger : ledger[i].root = r
      <4>1. PICK i \in 1 .. n : ledger[i].root = r
        BY <1>2, <3>2
      <4>2. i \in DOMAIN ledger' /\ ledger'[i].root = r
        BY <1>2, <4>1
      <4>3. QED
        BY <4>2
    <3>3. QED
      BY <3>1, <3>2
  <2>2. pc' # "execute"
    BY <1>3 DEF Measured
  <2>3. QED
    BY <2>1, <2>2 DEF CoreIsWatched
<1>16. QED
  BY <1>8, <1>9, <1>10, <1>11, <1>12, <1>13, <1>14, <1>15

\* A core campaign leaves a job out (phase14_core.py, campaign).
LEMMA LeaveOutKeeps == ASSUME CampaignInv, LeaveOut PROVE CampaignInv'
<1> USE DEF CampaignInv
<1>1. /\ pc = "guard" /\ task = "core" /\ task \in Kinds /\ LeftOut(Jobs("core")[Current])
      /\ stopAll' = (stopAll \/ OutOfTime(Jobs("core")[Current]))
      /\ ledger' = Append(ledger, Record("not_run", 0)) /\ Writes("running") /\ Onward
      /\ UNCHANGED <<policy, head, g0, cold, qual, log, claimed, observations, task, seen,
                     controls>>
  BY DEF LeaveOut, memory, Onward, Kinds
<1>2. PICK rec : rec = Record("not_run", 0)
  OBVIOUS
<1>3. /\ ledger \in Seq(Records) /\ Len(ledger) \in Nat /\ stopAll \in BOOLEAN
  BY DEF ProcessIsKnown
<1>4. Current = Len(ledger) + 1 /\ Current \in Nat
  BY <1>3 DEF Current
<1>5. rec \in Records /\ rec.job = Current /\ rec.root = 0 /\ rec.status = "not_run"
  BY <1>2, <1>4 DEF Record, Records, Statuses
<1>6. ledger' = Append(ledger, rec)
  BY <1>1, <1>2
<1>7. /\ ledger' \in Seq(Records) /\ Len(ledger') = Len(ledger) + 1
      /\ ledger'[Len(ledger) + 1] = rec /\ \A i \in 1 .. Len(ledger) : ledger'[i] = ledger[i]
  BY <1>3, <1>5, <1>6, AppendProperties
<1>8. /\ SoundRecords("core", ledger, log["core"], seen[1]) /\ Len(ledger) < Len(Jobs("core"))
      /\ log["core"] \in Seq(RunRecords) /\ Len(log["core"]) \in Nat
  BY <1>1 DEF LedgerIsSound, ArtefactsAreKnown
<1>9. SoundRecords("core", ledger', log["core"], seen[1])
  <2>1. rec.root \in 0 .. Len(log["core"]) /\ rec.status # "pass"
    BY <1>5, <1>8
  <2>2. rec.job = Len(ledger) + 1 /\ "core" \in Kinds
    BY <1>4, <1>5 DEF Kinds
  <2>3. QED
    BY ONLY <1>3, <1>5, <1>6, <1>8, <2>1, <2>2, RecordIsAdded
<1>10. /\ \A r \in DOMAIN log["core"] : \E i \in DOMAIN ledger : ledger[i].root = r
       /\ StopsInTime(ledger, log["core"], stopAll)
  BY <1>1 DEF CoreIsWatched
<1>11. PICK stops \in BOOLEAN, stop \in BOOLEAN : (stops <=> stopAll) /\ (stop <=> stopAll')
  BY <1>1, <1>3 DEF OutOfTime
<1>12. StopsInTime(ledger', log["core"], stopAll')
  <2>1. \A i \in DOMAIN ledger : ledger[i].job = i
    BY <1>8 DEF SoundRecords, Tells
  <2>2. stopAll' \/ FailedCase(ledger, Current) \/ (CaseAt(Current) = "L2" /\ ~Background(ledger))
    BY <1>1, LeavesOut DEF LeftOut
  <2>3. StopsInTime(ledger, log["core"], stops)
    BY <1>10, <1>11 DEF StopsInTime
  <2>4. stops => stop
    BY <1>1, <1>11
  <2>5. StopsInTime(ledger', log["core"], stop)
    BY <1>3, <1>4, <1>5, <1>6, <1>8, <1>11, <2>1, <2>2, <2>3, <2>4, StopsStill
  <2>6. QED
    BY <1>11, <2>5 DEF StopsInTime
<1>13. stopAll' \in BOOLEAN
  BY <1>1, <1>3 DEF OutOfTime
<1>14. QED
  BY <1>1, <1>3, <1>4, <1>5, <1>6, <1>7, <1>9, <1>10, <1>12, <1>13, CampaignGoesOn

\* A run is recorded, and the campaign goes on or stops.
LEMMA RecordKeeps == ASSUME CampaignInv, RecordRun PROVE CampaignInv'
<1> USE DEF CampaignInv
<1> DEFINE root == Len(log[task])
<1> DEFINE v == log[task][root].verdict
<1>1. /\ pc = "record" /\ task \in Kinds
      /\ UNCHANGED <<policy, head, g0, cold, qual, log, claimed, observations>>
      /\ ledger' = Append(ledger, Record(StatusOf(v), root))
      /\ IF task = "core" \/ v = "pass"
         THEN /\ Writes("running") /\ Onward /\ UNCHANGED controls
              /\ stopAll' = (stopAll \/ v \notin {"pass", "weak"})
         ELSE /\ Writes("stopped") /\ task' = "stopping" /\ pc' = "stopping"
              /\ UNCHANGED <<seen, controls, stopAll>>
  BY DEF RecordRun, memory, ProcessIsKnown
<1>2. /\ ledger \in Seq(Records) /\ Len(ledger) \in Nat /\ stopAll \in BOOLEAN
      /\ log[task] \in Seq(RunRecords) /\ root \in Nat /\ DOMAIN log[task] = 1 .. root
      /\ controls \in Nat
  BY <1>1 DEF ProcessIsKnown, ArtefactsAreKnown
<1>3. Current = Len(ledger) + 1 /\ Current \in Nat
  BY <1>2 DEF Current
<1>4. /\ root \in 1 .. root /\ log[task][root].job = Current
      /\ \A i \in DOMAIN ledger : ledger[i].root < root
      /\ task \in Measured /\ v = "pass" => \A r \in 1 .. root - 1 : log[task][r].head = seen[1]
      /\ Loaded(task, Current) => log[task][root].control = controls
      /\ Jobs(task)[Current].control /\ v = "pass" => controls = root
  BY <1>1, <1>2 DEF RunIsSound, Newest
<1>5. v \in Verdicts
  <2>1. log[task][root] \in RunRecords
    BY <1>2, <1>4
  <2>2. QED
    BY <2>1 DEF RunRecords
<1> HIDE DEF root
<1>6. PICK rec : rec = Record(StatusOf(v), root)
  OBVIOUS
<1>7. rec \in Records /\ rec.job = Current /\ rec.root = root /\ rec.status = StatusOf(v)
  <2>1. StatusOf(v) \in Statuses
    BY <1>5, StatusesAre
  <2>2. QED
    BY <1>2, <1>3, <1>6, <2>1 DEF Record, Records
<1> HIDE DEF v
<1>8. ledger' = Append(ledger, rec)
  BY <1>1, <1>6
<1>9. /\ ledger' \in Seq(Records) /\ Len(ledger') = Len(ledger) + 1
      /\ ledger'[Len(ledger) + 1] = rec /\ \A i \in 1 .. Len(ledger) : ledger'[i] = ledger[i]
  BY <1>2, <1>7, <1>8, AppendProperties
<1>10. /\ SoundRecords(task, ledger, log[task], seen[1]) /\ Tells(ledger, log[task])
       /\ Len(ledger) < Len(Jobs(task))
       /\ \A i \in DOMAIN ledger : ledger[i].job = i /\ ledger[i].root \in 0 .. root
  <2>1. SoundRecords(task, ledger, log[task], seen[1]) /\ Len(ledger) < Len(Jobs(task))
    BY <1>1 DEF LedgerIsSound
  <2>2. QED
    BY <2>1 DEF SoundRecords, Tells, root
<1>11. rec.status = "pass" => v = "pass"
  BY <1>5, <1>7, StatusesAre
<1>12. SoundRecords(task, ledger', log[task], seen[1])
  <2>1. \A j \in 1 .. Len(ledger) : ledger[j].root < rec.root
    BY <1>2, <1>4, <1>7
  <2>2. ASSUME Loaded(task, Current), rec.status = "pass", ledger[Len(ledger)].status = "pass"
        PROVE  log[task][rec.root].control = ledger[Len(ledger)].root
    <3>1. PICK n \in Nat : n = Len(ledger) /\ DOMAIN ledger = 1 .. n /\ Current = n + 1
      BY <1>2, <1>3
    <3>2. n + 1 \in 1 .. Len(Jobs(task)) /\ n + 1 \in Nat
      <4>1. Len(Jobs(task)) \in Nat
        BY <1>1, JobsAre DEF Kinds
      <4>2. QED
        BY <1>10, <3>1, <4>1
    <3>3. n \in 1 .. Len(Jobs(task)) /\ Jobs(task)[n].control /\ n \in DOMAIN ledger
      <4>1. Len(Jobs(task)) \in Nat
        BY <1>1, JobsAre DEF Kinds
      <4>2. Loaded(task, n + 1)
        BY <2>2, <3>1
      <4>3. (task = "formal" /\ n + 1 = 4) \/ (task = "core" /\ n + 1 = 6)
        BY <1>1, <3>2, <4>2, JobsAre
      <4>4. (n = 3 /\ task = "formal") \/ (n = 5 /\ task = "core")
        BY <3>1, <4>3
      <4>5. n \in 1 .. Len(Jobs(task)) /\ n \in DOMAIN ledger
        BY <3>1, <3>2, <4>1, <4>4
      <4>6. QED
        BY <1>1, <4>4, <4>5, JobsAre
    <3>4. controls = ledger[n].root
      BY <1>1, <2>2, <3>1, <3>3 DEF ControlIsKnown
    <3>5. QED
      BY <1>4, <1>7, <2>2, <3>1, <3>4
  <2>3. ASSUME task \in Measured, rec.status = "pass", NEW i \in DOMAIN ledger, ledger[i].root # 0
        PROVE  log[task][ledger[i].root].head = seen[1]
    <3>1. ledger[i].root \in 1 .. root - 1
      BY <1>2, <1>4, <1>10, <2>3
    <3>2. QED
      BY <1>4, <1>11, <2>3, <3>1
  <2>4. /\ rec.root \in 0 .. Len(log[task]) /\ rec.root # 0
        /\ log[task][rec.root].job = rec.job
        /\ rec.status = StatusOf(log[task][rec.root].verdict)
    BY <1>2, <1>4, <1>7 DEF root, v
  <2>5. /\ rec.root # 0 => \A j \in 1 .. Len(ledger) : ledger[j].root < rec.root
        /\ rec.root = 0 => rec.status = "not_run"
        /\ rec.job = Len(ledger) + 1
    BY <1>2, <1>3, <1>4, <1>7, <2>4
  <2>6. task \in Kinds /\ SoundRecords(task, ledger, log[task], seen[1]) /\ Len(ledger) < Len(Jobs(task))
    BY <1>1, <1>10
  <2>7. QED
    BY ONLY <1>2, <1>7, <1>8, <2>1, <2>2, <2>3, <2>4, <2>5, <2>6, RecordIsAdded
<1>13. CASE task = "core" \/ v = "pass"
  <2>1. /\ Writes("running") /\ Onward /\ UNCHANGED <<controls, task, seen>>
        /\ stopAll' = (stopAll \/ v \notin {"pass", "weak"}) /\ stopAll' \in BOOLEAN
    BY <1>1, <1>2, <1>13 DEF Onward
  <2>2. Jobs(task)[rec.job].control /\ rec.status = "pass" => controls = rec.root
    BY <1>4, <1>7, <1>11
  <2>3. ASSUME task = "core"
        PROVE  /\ \A r \in DOMAIN log["core"] :
                     r = rec.root \/ \E i \in DOMAIN ledger : ledger[i].root = r
               /\ StopsInTime(ledger', log["core"], stopAll')
    <3>1. /\ \A r \in DOMAIN log["core"] : r = root \/ \E i \in DOMAIN ledger : ledger[i].root = r
          /\ StopsInTime(ledger, log["core"], stopAll)
      BY <2>3 DEF CoreIsWatched, root
    <3>2. PICK stops \in BOOLEAN, stop \in BOOLEAN : (stops <=> stopAll) /\ (stop <=> stopAll')
      BY <1>2, <2>1
    <3>3. StopsInTime(ledger, log["core"], stops)
      BY <3>1, <3>2 DEF StopsInTime
    <3>4. (stops => stop) /\ (~stop => v \in {"pass", "weak"})
      BY <2>1, <3>2
    <3>5. stop \/ rec.status \in {"pass", "valid_failure"}
      BY <1>7, <3>4 DEF StatusOf
    <3>6. StopsInTime(ledger', log["core"], stop)
      <4>1. ~stop /\ rec.root # 0 => log["core"][rec.root].verdict \in {"pass", "weak"}
        BY <1>7, <2>3, <3>4 DEF v
      <4>2. rec.job = Len(ledger) + 1 /\ Len(ledger) < Len(Jobs("core"))
        BY <1>3, <1>7, <1>10, <2>3
      <4>3. \A i \in DOMAIN ledger : ledger[i].job = i
        BY <1>10
      <4>4. rec \in Records /\ ledger \in Seq(Records)
        BY <1>2, <1>7
      <4>5. QED
        BY ONLY <1>8, <3>3, <3>4, <3>5, <4>1, <4>2, <4>3, <4>4, StopsStill
    <3>7. StopsInTime(ledger', log["core"], stopAll')
      BY <3>2, <3>6 DEF StopsInTime
    <3>8. QED
      BY <1>7, <3>1, <3>7
  <2>4. task # "core" => rec.status = "pass"
    BY <1>7, <1>13 DEF StatusOf
  <2>5. QED
    BY <1>1, <1>2, <1>3, <1>7, <1>8, <1>9, <1>12, <2>1, <2>2, <2>3, <2>4, CampaignGoesOn
<1>14. CASE ~(task = "core" \/ v = "pass")
  <2>1. /\ Writes("stopped") /\ task' = "stopping" /\ pc' = "stopping"
        /\ UNCHANGED <<seen, controls, stopAll>>
    BY <1>1, <1>14
  <2> DEFINE f == [status |-> "stopped", head |-> seen[1], runs |-> ledger']
  <2>2. file' = [file EXCEPT ![task] = f] /\ f.runs = ledger' /\ f.head = seen[1]
        /\ f.status = "stopped"
    BY <2>1 DEF Writes
  <2>3. f \in [status : FileStatuses, head : Nat, runs : Seq(Records)]
    <3>1. seen[1] \in Nat
      BY <1>1 DEF ProcessIsKnown
    <3>2. QED
      BY <1>9, <3>1 DEF FileStatuses
  <2> HIDE DEF f
  <2>4. RanBetween(log[task], seen[1], head)
    BY <1>1 DEF LedgerIsSound
  <2>5. /\ file' \in [Kinds -> [status : FileStatuses, head : Nat, runs : Seq(Records)]]
        /\ FilesAreSound'
    BY <1>1, <1>12, <2>2, <2>3, <2>4, FileIsWritten DEF ArtefactsAreKnown
  <2>6. ArtefactsAreKnown'
    BY <1>1, <2>5 DEF ArtefactsAreKnown
  <2>7. GroundIsSound' /\ ObservationIsClaimed'
    BY <1>1, <2>1, GroundStays DEF ObservationIsClaimed
  <2>8. file'["smoke"] = file["smoke"] \/ task = "smoke"
    BY <1>1, <2>2 DEF ArtefactsAreKnown, Kinds
  <2>9. EvidenceStands'
    BY <1>1, <2>1, <2>8, EvidenceStays DEF Measured
  <2>10. ProcessIsKnown'
    BY ONLY <1>9, <1>2, <2>1 DEF ProcessIsKnown, Kinds, Measured
  <2>11. QED
    BY <2>1, <2>5, <2>6, <2>7, <2>9, <2>10, NoCampaign DEF Kinds
<1>15. QED
  BY <1>13, <1>14

\* Every step of the process, of the operator and of the outside keeps the invariant.
LEMMA CampaignSteps == CampaignInv /\ [Next]_vars => CampaignInv'
<1> SUFFICES ASSUME CampaignInv, [Next]_vars PROVE CampaignInv'
  OBVIOUS
<1>1. CASE ChangeEvidence \/ UNCHANGED vars
  BY <1>1, ChangeKeeps
<1>2. CASE Process
  BY <1>2, G0LegKeeps, InitOnceKeeps, QualifyKeeps, LeaveOutKeeps, GuardKeeps, ExecuteKeeps,
     RecordKeeps, StoppingKeeps, FinishKeeps, RestoreKeeps DEF Process
<1>3. CASE Operator
  BY <1>3, StartKeeps, StartMemoryKeeps, CampaignBegins, ResumeKeeps DEF Operator
<1>4. CASE Crash \/ NewCommit
  BY <1>4, CrashKeeps, NewCommitKeeps
<1>5. QED
  BY <1>1, <1>2, <1>3, <1>4 DEF Next

-----------------------------------------------------------------------------
(* The steps of a point.                                                   *)

USE DEF Displays

\* Before the first point.
LEMMA PointStarts == Point!Init => PointInv
<1> SUFFICES ASSUME Point!Init PROVE PointInv
  OBVIOUS
<1> USE DEF Point!Init
<1>1. PointIsKnown
  <2>1. Point!NoProbe \in Probes
    BY DEF Point!NoProbe, Probes, ProbeStates
  <2>2. Point!FreeSeat \in Seats
    BY DEF Point!FreeSeat, Seats
  <2>3. view \in Views
    BY DEF Point!FirstView, Views
  <2>4. reason \in BOOLEAN /\ died \in BOOLEAN /\ stopProbe \in BOOLEAN
    OBVIOUS
  <2>5. probe = Point!NoProbe /\ seat = Point!FreeSeat
    OBVIOUS
  <2>6. QED
    BY ONLY <2>1, <2>2, <2>3, <2>4, <2>5 DEF PointIsKnown
<1>2. SeatAgrees /\ ViewAgrees
  BY DEF SeatAgrees, ViewAgrees, Point!FreeSeat, Point!FirstView, Point!Display
<1>3. ProbeRelies /\ ProbeNotes
  BY DEF ProbeRelies, ProbeNotes, Point!FreeSeat, Point!NoProbe
<1>4. PointIsClosed
  BY DEF PointIsClosed, Point!NoProbe, Point!ProbeRuns, Point!ValidPointLeavesNothing
<1>5. QED
  BY <1>1, <1>2, <1>3, <1>4 DEF PointInv

\* The main thread and the stack, as far as they leave the probe and its seat alone.
LEMMA MainKeeps ==
    ASSUME PointInv, UNCHANGED <<probe, seat, view, died>>,
           \/ Point!Watch \/ Point!StopAtGate \/ Point!WatchFails \/ Point!TellProbe
           \/ Point!JoinProbe \/ Point!AbandonHotspot \/ Point!VerifyAfter
           \/ Point!ObservationFails \/ Point!LoadActs \/ Point!GeneratorExits
           \/ UNCHANGED Point!vars
    PROVE  PointInv'
<1> USE DEF Point!point, Point!threads, Point!stack, Point!bounds, Point!Goto
<1>1. reason' \in BOOLEAN /\ stopProbe' \in BOOLEAN
  <2> USE DEF PointInv, PointIsKnown
  <2>1. CASE Point!Watch
    BY <2>1 DEF Point!Watch
  <2>2. CASE Point!StopAtGate \/ Point!WatchFails
    BY <2>2 DEF Point!StopAtGate, Point!Stopped, Point!WatchFails
  <2>3. CASE Point!TellProbe
    BY <2>3 DEF Point!TellProbe
  <2>4. CASE Point!JoinProbe
    BY <2>4 DEF Point!JoinProbe
  <2>5. CASE Point!AbandonHotspot \/ Point!VerifyAfter
    BY <2>5 DEF Point!AbandonHotspot, Point!VerifyAfter
  <2>6. CASE Point!ObservationFails \/ Point!LoadActs \/ Point!GeneratorExits
    BY <2>6 DEF Point!ObservationFails, Point!LoadActs, Point!GeneratorExits
  <2>7. CASE UNCHANGED Point!vars
    BY <2>7 DEF Point!vars
  <2>8. QED
    BY <2>1, <2>2, <2>3, <2>4, <2>5, <2>6, <2>7
<1>2. SeatAgrees' /\ ViewAgrees' /\ ProbeRelies' /\ ProbeNotes' /\ PointIsKnown'
  BY <1>1 DEF PointInv, PointIsKnown, SeatAgrees, ViewAgrees, ProbeRelies, ProbeNotes,
         Point!Display, Point!ProbeRuns
<1>3. PointIsClosed'
  <2> USE DEF PointInv, PointIsClosed, Point!ProbeRuns, Point!ValidPointLeavesNothing
  <2>1. CASE Point!Watch
    BY <2>1 DEF Point!Watch
  <2>2. CASE Point!StopAtGate \/ Point!WatchFails
    BY <2>2 DEF Point!StopAtGate, Point!Stopped, Point!WatchFails
  <2>3. CASE Point!TellProbe
    BY <2>3 DEF Point!TellProbe
  <2>4. CASE Point!JoinProbe
    BY <2>4 DEF Point!JoinProbe
  <2>5. CASE Point!AbandonHotspot
    BY <2>5 DEF Point!AbandonHotspot
  <2>6. CASE Point!VerifyAfter
    BY <2>6 DEF Point!VerifyAfter, PointIsKnown, Point!Verifies, Point!InventoryAgrees,
                Point!Drained, Point!Display, SeatAgrees
  <2>7. CASE Point!ObservationFails
    BY <2>7 DEF Point!ObservationFails
  <2>8. CASE Point!LoadActs
    BY <2>8 DEF Point!LoadActs
  <2>9. CASE Point!GeneratorExits
    BY <2>9 DEF Point!GeneratorExits
  <2>10. CASE UNCHANGED Point!vars
    BY <2>10 DEF Point!vars
  <2>11. QED
    BY <2>1, <2>2, <2>3, <2>4, <2>5, <2>6, <2>7, <2>8, <2>9, <2>10
<1>4. QED
  BY <1>1, <1>2, <1>3 DEF PointInv

\* Where the process of a point ends, and its probe with it.
LEMMA EndsKeeps ==
    ASSUME PointInv, Point!Ends, UNCHANGED <<seat, view, reason, stopProbe>>,
           result' = "valid" => ~remains'
    PROVE  PointInv'
<1>1. PointIsKnown'
  BY DEF PointInv, PointIsKnown, Point!Ends, Point!ProbeRuns, Probes, ProbeStates
<1>2. SeatAgrees' /\ ViewAgrees'
  BY DEF PointInv, SeatAgrees, ViewAgrees, Point!Display
<1>3. ProbeRelies' /\ ProbeNotes'
  BY DEF PointInv, PointIsKnown, ProbeRelies, ProbeNotes, Point!Ends, Point!ProbeRuns, Probes
<1>4. PointIsClosed'
  BY DEF PointInv, PointIsKnown, PointIsClosed, Point!Ends, Point!ProbeRuns,
         Point!ValidPointLeavesNothing, Probes
<1>5. QED
  BY <1>1, <1>2, <1>3, <1>4 DEF PointInv

\* The stack is verified before the load.
LEMMA VerifyBeforeKeeps == ASSUME PointInv, Point!VerifyBefore PROVE PointInv'
<1> USE DEF Point!VerifyBefore
<1>1. CASE Point!Verifies
  <2> UNCHANGED <<probe, seat, view, died, reason, stopProbe>> /\ step' = "launch"
    BY <1>1 DEF Point!threads
  <2>1. SeatAgrees' /\ ViewAgrees' /\ ProbeRelies' /\ ProbeNotes' /\ PointIsKnown'
    BY DEF PointInv, PointIsKnown, SeatAgrees, ViewAgrees, ProbeRelies, ProbeNotes,
           Point!Display, Point!ProbeRuns
  <2>2. PointIsClosed'
    BY <1>1 DEF PointInv, PointIsClosed, Point!Verifies, Point!Drained, Point!ProbeRuns,
                Point!ValidPointLeavesNothing
  <2>3. QED
    BY <2>1, <2>2 DEF PointInv
<1>2. CASE ~Point!Verifies
  <2>1. result' = "valid" => ~remains'
    BY DEF PointInv, PointIsClosed, Point!ValidPointLeavesNothing
  <2>2. QED
    BY <1>2, <2>1, EndsKeeps DEF Point!threads
<1>3. QED
  BY <1>1, <1>2

\* The process of a point dies.
LEMMA CrashEndsPoint == ASSUME PointInv, Point!Crash PROVE PointInv'
<1>1. result' = "valid" => ~remains'
  BY DEF Point!Crash, PointInv, PointIsClosed, Point!ValidPointLeavesNothing
<1>2. QED
  BY <1>1, EndsKeeps DEF Point!Crash, Point!threads

\* The generator is removed, and the probe has ended or is missed.
LEMMA RemoveKeeps == ASSUME PointInv, Point!RemoveGenerator PROVE PointInv'
<1> USE DEF Point!RemoveGenerator
<1>1. result' = "valid" => ~remains'
  BY DEF PointInv, PointIsClosed, Point!ValidPointLeavesNothing, Point!Goto
<1>2. CASE Point!Ends
  BY <1>1, <1>2, EndsKeeps DEF Point!threads
<1>3. ASSUME container' = "none", step' \in {"cleanup", "after"},
             UNCHANGED <<probe, seat, view, died, reason, stopProbe>>, step = "remove"
      PROVE  PointInv'
  <2>1. SeatAgrees' /\ ViewAgrees' /\ ProbeRelies' /\ ProbeNotes' /\ PointIsKnown'
    BY <1>3 DEF PointInv, PointIsKnown, SeatAgrees, ViewAgrees, ProbeRelies, ProbeNotes,
           Point!Display, Point!ProbeRuns
  <2>2. PointIsClosed'
    BY <1>1, <1>3 DEF PointInv, PointIsClosed, Point!ProbeRuns, Point!ValidPointLeavesNothing
  <2>3. QED
    BY <2>1, <2>2 DEF PointInv
<1>4. QED
  BY <1>2, <1>3 DEF Point!Goto, Point!threads

\* A valid point is one whose probe has given everything back, and whose stack was verified.
LEMMA WriteResultKeeps == ASSUME PointInv, Point!WriteResult PROVE PointInv'
<1>1. result' = "valid" => ~remains'
  <2> SUFFICES ASSUME Point!Valid PROVE ~Point!Remains
    BY DEF Point!WriteResult
  <2> USE DEF Point!WriteResult, Point!Valid, PointInv, PointIsClosed
  <2>1. container = "none" /\ ~Point!ProbeRuns
    OBVIOUS
  <2>2. ~unprojected /\ ~holder /\ seat.queue = <<>> /\ (seat.hold => seat.order)
    OBVIOUS
  <2>3. ASSUME mode = "open" PROVE ~seat.order
    BY <2>3 DEF ProbeRelies
  <2>4. QED
    BY <2>1, <2>2, <2>3 DEF Point!Remains, Point!Drained
<1>2. QED
  BY <1>1, EndsKeeps DEF Point!WriteResult, Point!threads

\* Nothing is left of the point before that a new one would rely on.
LEMMA StartPointKeeps == ASSUME PointInv, Point!StartPoint PROVE PointInv'
<1> USE DEF Point!StartPoint, PointInv
<1>1. PointIsKnown'
  BY DEF PointIsKnown, Point!NoProbe, Probes, ProbeStates
<1>2. SeatAgrees' /\ ViewAgrees'
  BY DEF SeatAgrees, ViewAgrees, Point!Display
<1>3. ~Point!ProbeRuns
  BY DEF PointIsClosed
<1>4. ProbeRelies' /\ ProbeNotes'
  BY <1>3 DEF ProbeRelies, ProbeNotes, Point!NoProbe, Point!ProbeRuns
<1>5. PointIsClosed'
  BY <1>3 DEF PointIsClosed, Point!NoProbe, Point!ProbeRuns, Point!ValidPointLeavesNothing
<1>6. QED
  BY <1>1, <1>2, <1>4, <1>5

\* The generator and the probe are started.
LEMMA LaunchKeeps == ASSUME PointInv, Point!Launch PROVE PointInv'
<1> USE DEF Point!Launch, PointInv, Point!Goto, Point!threads
<1>1. Point!Display \in Displays /\ UNCHANGED <<seat, died, stopProbe, reason>>
  BY DEF PointIsKnown, Point!Display, Seats
<1>2. PointIsKnown'
  <2>1. probe' \in Probes
    BY DEF PointIsKnown, Probes, ProbeStates, Point!Writes
  <2>2. view' \in Views
    BY <1>1 DEF PointIsKnown, Views, Point!FirstView
  <2>3. QED
    BY <1>1, <2>1, <2>2 DEF PointIsKnown
<1>3. SeatAgrees' /\ ViewAgrees'
  BY <1>1 DEF SeatAgrees, ViewAgrees, Point!Display, Point!FirstView
<1>4. ~Point!ProbeRuns /\ seat.queue = <<>> /\ ~probe.checkout /\ ~probe.order
  BY DEF PointIsClosed
<1>5. ProbeRelies' /\ ProbeNotes'
  <2>1. CASE mode = "open"
    BY <1>1, <1>4, <2>1 DEF ProbeRelies, ProbeNotes, PointIsKnown, Point!ProbeRuns, Probes
  <2>2. CASE mode # "open"
    BY <1>1, <1>4, <2>2 DEF ProbeRelies, ProbeNotes, PointIsKnown, Point!ProbeRuns
  <2>3. QED
    BY <2>1, <2>2
<1>6. PointIsClosed'
  BY DEF PointIsClosed, Point!ValidPointLeavesNothing
<1>7. QED
  BY <1>2, <1>3, <1>5, <1>6

\* What a projection makes of the queue.
LEMMA QueueMoves ==
    ASSUME NEW S, NEW q \in Seq(S), q # <<>>
    PROVE  \E x \in S, t \in Seq(S) :
              /\ x = Head(q) /\ t = Tail(q)
              /\ t = <<>> => x = q[Len(q)]
              /\ t # <<>> => t[Len(t)] = q[Len(q)]
              /\ Len(q) = 1 => t = <<>> /\ x = q[1]
<1>1. PICK x, t : x = Head(q) /\ t = Tail(q)
  OBVIOUS
<1>2. /\ x \in S /\ t \in Seq(S) /\ Len(t) = Len(q) - 1
      /\ \A i \in 1 .. Len(t) : t[i] = q[i + 1]
  BY <1>1, HeadTailProperties
<1>3. Len(q) \in Nat \ {0} /\ x = q[1]
  BY <1>1, EmptySeq
<1>4. (t = <<>> => Len(t) = 0) /\ (t # <<>> => Len(t) \in Nat \ {0})
  BY <1>2, EmptySeq
<1>5. /\ t = <<>> => x = q[Len(q)]
      /\ t # <<>> => t[Len(t)] = q[Len(q)]
      /\ Len(q) = 1 => t = <<>> /\ x = q[1]
  BY ONLY <1>2, <1>3, <1>4
<1>6. QED
  BY ONLY <1>1, <1>2, <1>5

\* What happens to the seat by itself.
LEMMA SeatMoves ==
    ASSUME PointInv, Point!ProjectChange \/ Point!HoldIsCleanedUp \/ Point!HoldsLapse
    PROVE  PointInv'
<1> USE DEF PointInv, Point!point, Point!threads, Point!stack, Point!bounds
<1>1. ASSUME UNCHANGED <<seat, probe, view, step, reason, container, died, stopProbe,
                         verified, result, remains>>,
             ~unprojected => ~unprojected', ~holder => ~holder'
      PROVE  PointInv'
  BY <1>1 DEF PointIsKnown, SeatAgrees, ViewAgrees, ProbeRelies, ProbeNotes,
     PointIsClosed, Point!Display, Point!ProbeRuns, Point!ValidPointLeavesNothing
<1>2. ASSUME seat.queue # <<>>,
             seat' = [seat EXCEPT !.formal = Head(seat.queue), !.queue = Tail(@)],
             view' = [view EXCEPT !.unread = TRUE],
             UNCHANGED <<probe, step, reason, container, died, stopProbe, verified, result,
                         remains, unprojected, holder>>
      PROVE  PointInv'
  <2>1. PICK x \in Displays, t \in Seq(Displays) :
              /\ x = Head(seat.queue) /\ t = Tail(seat.queue)
              /\ t = <<>> => x = seat.queue[Len(seat.queue)]
              /\ t # <<>> => t[Len(t)] = seat.queue[Len(seat.queue)]
              /\ Len(seat.queue) = 1 => t = <<>> /\ x = seat.queue[1]
    BY <1>2, QueueMoves DEF PointIsKnown, Seats
  <2>2. seat' = [seat EXCEPT !.formal = x, !.queue = t]
    BY <1>2, <2>1
  <2>3. /\ seat'.hold = seat.hold /\ seat'.spent = seat.spent /\ seat'.order = seat.order
        /\ seat'.formal = x /\ seat'.queue = t /\ seat' \in Seats
    BY ONLY PointIsKnown, <2>2, x \in Displays, t \in Seq(Displays) DEF PointIsKnown, Seats
  <2>4. \A y : seat.queue = <<y>> => t = <<>> /\ x = y
    BY <2>1
  <2>5. /\ view' \in Views /\ view'.unread
    BY <1>2 DEF PointIsKnown, Views
  <2>6. PointIsKnown'
    BY ONLY PointIsKnown, <1>2, <2>3, <2>5 DEF PointIsKnown
  <2>7. SeatAgrees' /\ ViewAgrees'
    BY ONLY SeatAgrees, <1>2, <2>1, <2>3, <2>5 DEF SeatAgrees, ViewAgrees
  <2>8. ProbeRelies' /\ ProbeNotes'
    BY ONLY ProbeRelies, ProbeNotes, SeatAgrees, <1>2, <2>3, <2>4, <2>7
       DEF ProbeRelies, ProbeNotes, SeatAgrees, Point!ProbeRuns
  <2>9. PointIsClosed'
    BY ONLY PointIsClosed, <1>2, <2>3
       DEF PointIsClosed, Point!ProbeRuns, Point!ValidPointLeavesNothing
  <2>10. QED
    BY <2>6, <2>7, <2>8, <2>9
<1>3. ASSUME seat.hold, seat' = [seat EXCEPT !.hold = FALSE],
             view' = [view EXCEPT !.unread = @ \/ seat.formal = "AVAILABLE"],
             UNCHANGED <<probe, step, reason, container, died, stopProbe, verified, result,
                         remains, unprojected, holder>>
      PROVE  PointInv'
  <2>1. /\ ~seat'.hold /\ seat'.spent = seat.spent /\ seat'.order = seat.order
        /\ seat'.formal = seat.formal /\ seat'.queue = seat.queue
        /\ view'.unread = (view.unread \/ seat.formal = "AVAILABLE")
        /\ view'.reset = view.reset /\ view'.status = view.status
    BY <1>3 DEF PointIsKnown, Seats, Views
  <2>2. PointIsKnown'
    <3>1. seat' \in Seats
      BY <1>3 DEF PointIsKnown, Seats
    <3>2. view' \in Views
      BY <1>3 DEF PointIsKnown, Views
    <3>3. QED
      BY <1>3, <3>1, <3>2 DEF PointIsKnown
  <2>3. SeatAgrees' /\ ViewAgrees'
    BY <2>1 DEF SeatAgrees, ViewAgrees, Point!Display
  <2>4. ProbeRelies' /\ ProbeNotes'
    BY <1>3, <2>1 DEF ProbeRelies, ProbeNotes, Point!ProbeRuns
  <2>5. PointIsClosed'
    BY <1>3, <2>1 DEF PointIsClosed, Point!ProbeRuns, Point!ValidPointLeavesNothing
  <2>6. QED
    BY <2>2, <2>3, <2>4, <2>5
<1>4. QED
  <2>1. CASE Point!ProjectChange
    BY <1>1, <1>2, <2>1 DEF Point!ProjectChange, Point!Project
  <2>2. CASE Point!HoldIsCleanedUp
    BY <1>3, <2>2 DEF Point!HoldIsCleanedUp, Point!Announced
  <2>3. CASE Point!HoldsLapse
    BY <1>1, <1>3, <2>3 DEF Point!HoldsLapse, Point!Announced
  <2>4. QED
    BY <2>1, <2>2, <2>3

\* The read model is rebuilt.
LEMMA RebuildKeeps == ASSUME PointInv, Point!Rebuild PROVE PointInv'
<1> USE DEF PointInv, Point!Rebuild, Point!point, Point!threads, Point!bounds
<1>1. /\ seat'.hold = seat.hold /\ seat'.spent = seat.spent /\ seat'.order = seat.order
      /\ seat'.formal = (IF seat.order THEN "HELD" ELSE "AVAILABLE") /\ seat'.queue = <<>>
      /\ view'.reset /\ view'.unread = view.unread
      /\ (seat.queue = <<>> => seat'.formal = seat.formal)
  BY DEF PointIsKnown, SeatAgrees, Seats, Views
<1>2. PointIsKnown'
  <2>1. seat' \in Seats
    <3>1. <<>> \in Seq(Displays) /\ (IF seat.order THEN "HELD" ELSE "AVAILABLE") \in Displays
      OBVIOUS
    <3>2. QED
      BY <3>1 DEF PointIsKnown, Seats
  <2>2. view' \in Views
    BY DEF PointIsKnown, Views
  <2>3. QED
    BY <2>1, <2>2 DEF PointIsKnown
<1>3. SeatAgrees' /\ ViewAgrees'
  BY <1>1 DEF SeatAgrees, ViewAgrees
<1>4. ProbeRelies'
  BY <1>1 DEF ProbeRelies, PointIsKnown
<1>5. ProbeNotes' /\ PointIsClosed'
  BY <1>1 DEF ProbeNotes, PointIsClosed, Point!ProbeRuns, Point!ValidPointLeavesNothing
<1>6. QED
  BY <1>2, <1>3, <1>4, <1>5

\* A read shows what the stack shows.
LEMMA ReadShows ==
    ASSUME PointInv, view' = Point!AfterRead
    PROVE  /\ view' \in Views /\ view'.status = Point!Display
           /\ view'.unread = FALSE /\ view'.reset = FALSE
           /\ view'.changed => view.unread
  BY DEF PointInv, PointIsKnown, ViewAgrees, Point!AfterRead, Point!Display, Views, Seats

\* The probe polls for its change (propagation.py, wait_for).
LEMMA WaitForKeeps == ASSUME PointInv, Point!WaitFor PROVE PointInv'
<1> USE DEF PointInv
<1>1. /\ probe.at \in Point!Waits /\ UNCHANGED <<seat, step, reason, container, verified,
           result, remains, unprojected, holder, died, stopProbe>>
  BY DEF Point!WaitFor, Point!ProbeKeeps, Point!point, Point!threads, Point!stack
<1>2. PointIsClosed'
  BY <1>1 DEF PointIsClosed, Point!ProbeRuns, Point!ValidPointLeavesNothing, Point!Waits
<1>3. Point!AfterWait \in {"dwell", "holdIt", "ended"} /\ Point!Flow \in {"abandon", "confirm"}
  BY <1>1 DEF Point!AfterWait, Point!Flow, Point!Waits, PointIsKnown, Probes
<1>4. ASSUME view' = Point!AfterRead, Point!Sighted,
             probe' = [probe EXCEPT !.at = Point!AfterWait, !.flow = Point!Flow,
                                    !.untrue = @ \/ ~Point!IsTrue]
      PROVE  PointInv'
  <2>1. ~probe.failed => Point!IsTrue
    BY <1>1, <1>4, ReadShows DEF ProbeRelies, SeatAgrees, Point!IsTrue, Point!Sighted,
       Point!Target, Point!Display, Point!Waits, PointIsKnown, Seats
  <2>2. /\ probe' \in Probes /\ probe'.at = Point!AfterWait
        /\ probe'.failed = probe.failed /\ probe'.untrue = (probe.untrue \/ ~Point!IsTrue)
        /\ probe'.checkout = probe.checkout /\ probe'.order = probe.order
        /\ probe'.unanswered = probe.unanswered
    BY ONLY <1>3, <1>4, PointIsKnown DEF PointIsKnown, Probes, ProbeStates, Point!Writes
  <2>3. PointIsKnown' /\ SeatAgrees' /\ ViewAgrees'
    BY <1>1, <1>4, <2>2, ReadShows DEF PointIsKnown, SeatAgrees, ViewAgrees, Point!Display
  <2>4. ~probe'.failed => ~probe'.untrue
    BY <2>1, <2>2 DEF ProbeRelies
  <2>7. ProbeRelies'
    <3>1. view'.unread = FALSE
      BY <1>4, ReadShows
    <3>2. QED
      BY ONLY ProbeRelies, ProbeNotes, SeatAgrees, <1>1, <2>1, <2>2, <2>4, <3>1
         DEF ProbeRelies, ProbeNotes, SeatAgrees,
       Point!AfterWait, Point!Waits, Point!IsTrue
  <2>5. ProbeNotes'
    BY <1>1, <2>2 DEF ProbeNotes, Point!AfterWait, Point!Waits, Point!ProbeRuns
  <2>6. QED
    BY <1>2, <2>3, <2>7, <2>5
<1>5. ASSUME view' = Point!AfterRead, UNCHANGED probe PROVE PointInv'
  BY <1>1, <1>2, <1>5, ReadShows DEF PointIsKnown, SeatAgrees, ViewAgrees, ProbeRelies,
     ProbeNotes, Point!Display, Point!ProbeRuns
<1>6. ASSUME UNCHANGED view,
             probe' = [probe EXCEPT !.at = Point!AfterWait, !.flow = Point!Flow, !.failed = TRUE]
      PROVE  PointInv'
  <2>1. /\ probe' \in Probes /\ probe'.at = Point!AfterWait /\ probe'.failed
        /\ probe'.checkout = probe.checkout /\ probe'.order = probe.order
        /\ probe'.unanswered = probe.unanswered
    BY ONLY <1>3, <1>6, PointIsKnown DEF PointIsKnown, Probes, ProbeStates, Point!Writes
  <2>2. PointIsKnown' /\ SeatAgrees' /\ ViewAgrees'
    BY <1>1, <1>6, <2>1 DEF PointIsKnown, SeatAgrees, ViewAgrees, Point!Display
  <2>3. ProbeRelies' /\ ProbeNotes'
    BY <1>1, <2>1 DEF ProbeRelies, ProbeNotes, Point!AfterWait, Point!Waits, Point!ProbeRuns
  <2>4. QED
    BY <1>2, <2>2, <2>3
<1>7. ASSUME UNCHANGED view, probe' = [probe EXCEPT !.at = "cleanup", !.failed = TRUE]
      PROVE  PointInv'
  <2>1. /\ probe' \in Probes /\ probe'.at = "cleanup" /\ probe'.failed
        /\ probe'.checkout = probe.checkout /\ probe'.order = probe.order
        /\ probe'.unanswered = probe.unanswered
    BY ONLY <1>7, PointIsKnown DEF PointIsKnown, Probes, ProbeStates, Point!Writes
  <2>2. PointIsKnown' /\ SeatAgrees' /\ ViewAgrees'
    BY <1>1, <1>7, <2>1 DEF PointIsKnown, SeatAgrees, ViewAgrees, Point!Display
  <2>3. ProbeRelies' /\ ProbeNotes'
    BY <1>1, <2>1 DEF ProbeRelies, ProbeNotes, Point!Waits, Point!ProbeRuns
  <2>4. QED
    BY <1>2, <2>2, <2>3
<1>8. QED
  BY <1>4, <1>5, <1>6, <1>7 DEF Point!WaitFor

\* The probe dwells on its hold, and takes one of its two ways.
LEMMA DwellKeeps == ASSUME PointInv, Point!Dwell PROVE PointInv'
<1> USE DEF PointInv
<1>1. /\ probe.at = "dwell" /\ view' = Point!AfterRead
      /\ UNCHANGED <<seat, step, reason, container, verified, result, remains, unprojected,
                     holder, died, stopProbe>>
  BY DEF Point!Dwell, Point!ProbeKeeps, Point!point, Point!threads, Point!stack
<1>2. /\ probe' \in Probes
      /\ \/ probe'.at = Point!AfterDwell /\ probe'.failed = probe.failed
         \/ probe'.at = "cleanup" /\ probe'.failed
      /\ probe'.checkout = probe.checkout /\ probe'.order = probe.order
      /\ probe'.unanswered = probe.unanswered /\ probe'.untrue = probe.untrue
  <2>1. Point!AfterDwell \in {"cancelIt", "abandonIt", "confirmIt"}
    BY DEF Point!AfterDwell
  <2>2. \/ probe' = [probe EXCEPT !.at = Point!AfterDwell]
        \/ probe' = [probe EXCEPT !.at = "cleanup", !.failed = TRUE]
    BY DEF Point!Dwell
  <2>3. Point!AfterDwell \in ProbeStates /\ "cleanup" \in ProbeStates
    BY <2>1 DEF ProbeStates, Point!Writes
  <2>4. QED
    BY ONLY <2>2, <2>3, PointIsKnown DEF PointIsKnown, Probes
<1>3. PointIsKnown' /\ SeatAgrees' /\ ViewAgrees'
  BY <1>1, <1>2, ReadShows DEF PointIsKnown, SeatAgrees, ViewAgrees, Point!Display
<1>4. ProbeRelies' /\ ProbeNotes'
  BY <1>1, <1>2, ReadShows DEF ProbeRelies, ProbeNotes, Point!AfterDwell, Point!ProbeRuns
<1>5. PointIsClosed'
  BY <1>1 DEF PointIsClosed, Point!ProbeRuns, Point!ValidPointLeavesNothing
<1>6. QED
  BY <1>3, <1>4, <1>5

\* The probe sees that it is to stop.
LEMMA ProbeIsStoppedKeeps == ASSUME PointInv, Point!ProbeIsStopped PROVE PointInv'
<1> USE DEF PointInv
<1>1. /\ probe.at \in Point!Waits \cup {"dwell", "holdIt"}
      /\ UNCHANGED <<seat, view, step, reason, container, verified, result, remains,
                     unprojected, holder, died, stopProbe>>
  BY DEF Point!ProbeIsStopped, Point!ProbeKeeps, Point!point, Point!threads, Point!stack
<1>2. /\ probe' \in Probes /\ probe'.at = "cleanup" /\ probe'.failed
      /\ probe'.checkout = probe.checkout /\ probe'.order = probe.order
      /\ probe'.unanswered = probe.unanswered
  BY DEF Point!ProbeIsStopped, PointIsKnown, Probes, ProbeStates
<1>3. PointIsKnown' /\ SeatAgrees' /\ ViewAgrees'
  BY <1>1, <1>2 DEF PointIsKnown, SeatAgrees, ViewAgrees, Point!Display
<1>4. ProbeRelies' /\ ProbeNotes'
  BY <1>1, <1>2 DEF ProbeRelies, ProbeNotes, Point!ProbeRuns, Point!Waits
<1>5. PointIsClosed'
  BY <1>1 DEF PointIsClosed, Point!ProbeRuns, Point!ValidPointLeavesNothing, Point!Waits
<1>6. QED
  BY <1>3, <1>4, <1>5

\* What a change of the order makes of the queue.
LEMMA QueueGrows ==
    ASSUME NEW S, NEW q \in Seq(S), NEW x \in S, NEW t, t = Append(q, x)
    PROVE  t \in Seq(S) /\ t # <<>> /\ t[Len(t)] = x /\ (q = <<>> => t = <<x>>)
<1>1. t \in Seq(S) /\ t # <<>> /\ Len(t) = Len(q) + 1 /\ t[Len(q) + 1] = x
  BY AppendProperties
<1>2. q = <<>> => t = <<x>>
  OBVIOUS
<1>3. QED
  BY ONLY <1>1, <1>2

\* What a write that the stack accepts makes of the seat.
LEMMA EffectMeans ==
    ASSUME PointInv, NEW write \in Point!Writes, Point!Accepted(write), Point!Effect(write)
    PROVE  /\ seat' \in Seats /\ view' \in Views /\ SeatAgrees' /\ ViewAgrees'
           /\ write = "holdIt" => /\ seat'.hold /\ ~seat'.spent /\ ~seat.hold /\ ~seat.order
                                  /\ ~seat'.order /\ seat'.queue = seat.queue
           /\ write = "abandonIt" => /\ ~seat'.hold /\ ~seat.order /\ ~seat'.order
                                     /\ seat'.queue = seat.queue
           /\ write = "confirmIt" => /\ seat'.order /\ seat'.spent /\ seat'.hold = seat.hold
                                     /\ seat'.formal = seat.formal
                                     /\ seat.queue = <<>> => seat'.queue = <<"HELD">>
                                     /\ view'.unread = view.unread
           /\ write = "cancelIt" => /\ ~seat'.order /\ seat'.spent = seat.spent
                                    /\ seat'.hold = seat.hold /\ seat'.formal = seat.formal
                                    /\ seat.queue = <<>> => seat'.queue = <<"AVAILABLE">>
<1> USE DEF Point!Effect, Point!Applied, Point!Accepted, Point!Writes
<1>1. seat.queue \in Seq(Displays)
  BY DEF PointInv, PointIsKnown, Seats
<1>2. seat \in Seats /\ view \in Views /\ SeatAgrees /\ ViewAgrees
  BY DEF PointInv, PointIsKnown
<1>3. CASE write = "holdIt"
  <2>1. seat' = [seat EXCEPT !.hold = TRUE, !.spent = FALSE] /\ ~seat.hold /\ ~seat.order
    BY <1>3
  <2>2. Point!Announced
    BY <1>2, <1>3, <2>1 DEF Seats
  <2>3. QED
    BY ONLY <1>2, <1>3, <2>1, <2>2
       DEF Seats, Views, SeatAgrees, ViewAgrees, Point!Display, Point!Announced
<1>4. CASE write = "abandonIt"
  <2>1. seat' = [seat EXCEPT !.hold = FALSE] /\ ~seat.order
    BY <1>4
  <2>2. Point!Announced \/ (seat' = seat /\ view' = view)
    <3>1. IF seat' # seat THEN Point!Announced ELSE view' = view
      BY <1>4
    <3>2. QED
      BY <3>1
  <2>3. QED
    BY ONLY <1>2, <1>4, <2>1, <2>2
       DEF Seats, Views, SeatAgrees, ViewAgrees, Point!Display, Point!Announced
<1>5. CASE write = "confirmIt"
  <2>0. PICK q : q = Append(seat.queue, "HELD")
    OBVIOUS
  <2>1. q \in Seq(Displays) /\ q # <<>> /\ q[Len(q)] = "HELD"
        /\ (seat.queue = <<>> => q = <<"HELD">>)
    <3> HIDE DEF Displays
    <3>1. "HELD" \in Displays
      BY DEF Displays
    <3>2. q \in Seq(Displays)
      BY ONLY <1>1, <2>0, <3>1, QueueGrows
    <3>3. q # <<>> /\ q[Len(q)] = "HELD"
      BY ONLY <1>1, <2>0, <3>1, QueueGrows
    <3>4. seat.queue = <<>> => q = <<"HELD">>
      BY ONLY <1>1, <2>0, <3>1, QueueGrows
    <3>5. QED
      BY ONLY <3>2, <3>3, <3>4
  <2>2. seat' = [seat EXCEPT !.order = TRUE, !.spent = TRUE, !.queue = q] /\ view' = view
    BY <1>5, <2>0
  <2>3. QED
    BY ONLY <1>2, <1>5, <2>1, <2>2 DEF Seats, SeatAgrees, ViewAgrees, Point!Display
<1>6. CASE write = "cancelIt"
  <2>0. PICK q : q = Append(seat.queue, "AVAILABLE")
    OBVIOUS
  <2>1. q \in Seq(Displays) /\ q # <<>> /\ q[Len(q)] = "AVAILABLE"
        /\ (seat.queue = <<>> => q = <<"AVAILABLE">>)
    <3> HIDE DEF Displays
    <3>1. "AVAILABLE" \in Displays
      BY DEF Displays
    <3>2. q \in Seq(Displays)
      BY ONLY <1>1, <2>0, <3>1, QueueGrows
    <3>3. q # <<>> /\ q[Len(q)] = "AVAILABLE"
      BY ONLY <1>1, <2>0, <3>1, QueueGrows
    <3>4. seat.queue = <<>> => q = <<"AVAILABLE">>
      BY ONLY <1>1, <2>0, <3>1, QueueGrows
    <3>5. QED
      BY ONLY <3>2, <3>3, <3>4
  <2>2. seat' = [seat EXCEPT !.order = FALSE, !.queue = q] /\ view' = view
    BY <1>6, <2>0
  <2>3. QED
    BY ONLY <1>2, <1>6, <2>1, <2>2 DEF Seats, SeatAgrees, ViewAgrees, Point!Display
<1>7. QED
  BY <1>3, <1>4, <1>5, <1>6

\* The probe fails, and goes to give back what it has noted.
LEMMA GivingUpKeeps ==
    ASSUME PointInv, Point!ProbeKeeps, Point!ProbeRuns, probe' \in Probes, probe'.failed,
           probe'.at = "cleanup" \/ (probe'.at = "ended" /\ ~probe'.checkout /\ ~probe'.order),
           ~ (probe'.checkout /\ probe'.order),
           seat' \in Seats, view' \in Views, SeatAgrees', ViewAgrees',
           ~probe'.unanswered /\ ~died =>
               /\ seat'.hold /\ ~seat'.spent => probe'.checkout
               /\ seat'.order => probe'.order
    PROVE  PointInv'
<1>1. UNCHANGED <<step, reason, container, verified, result, remains, unprojected, holder,
                  died, stopProbe>>
  BY DEF Point!ProbeKeeps, Point!point, Point!threads, Point!stack
<1>2. PointIsKnown' /\ ProbeRelies'
  BY <1>1 DEF PointInv, PointIsKnown, ProbeRelies
<1>3. ProbeNotes'
  BY ONLY <1>1, ~ (probe'.checkout /\ probe'.order),
       probe'.at = "cleanup" \/ (probe'.at = "ended" /\ ~probe'.checkout /\ ~probe'.order),
       ~probe'.unanswered /\ ~died =>
               /\ seat'.hold /\ ~seat'.spent => probe'.checkout
               /\ seat'.order => probe'.order
     DEF ProbeNotes, Point!ProbeRuns
<1>4. PointIsClosed'
  BY <1>1 DEF PointInv, PointIsClosed, Point!ProbeRuns, Point!ValidPointLeavesNothing
<1>5. QED
  BY <1>2, <1>3, <1>4 DEF PointInv

\* A request of the probe, answered, refused or without an answer.
LEMMA WriteKeeps == ASSUME PointInv, Point!Write PROVE PointInv'
<1>1. /\ probe.at \in Point!Writes /\ Point!ProbeKeeps /\ Point!ProbeRuns
      /\ UNCHANGED <<step, reason, container, verified, result, remains, unprojected, holder,
                     died, stopProbe>>
  BY DEF Point!Write, Point!ProbeKeeps, Point!point, Point!threads, Point!stack,
         Point!ProbeRuns, Point!Writes
<1>2. ASSUME Point!Accepted(probe.at), Point!Effect(probe.at), probe' = Point!Noted(probe.at)
      PROVE  PointInv'
  <2> DEFINE at == probe.at
  <2>1. /\ probe' \in Probes /\ probe'.failed = probe.failed /\ probe'.untrue = probe.untrue
        /\ probe'.unanswered = probe.unanswered
        /\ at = "holdIt" => /\ probe'.at = "seeHold" /\ probe'.checkout
                            /\ probe'.order = probe.order
        /\ at = "abandonIt" => /\ probe'.at = "seeAbandon" /\ ~probe'.checkout
                               /\ probe'.order = probe.order
        /\ at = "confirmIt" => /\ probe'.at = "seeConfirm" /\ ~probe'.checkout /\ probe'.order
        /\ at = "cancelIt" => /\ probe'.at = "seeCancel" /\ probe'.checkout = probe.checkout
                              /\ ~probe'.order
    BY <1>1, <1>2 DEF Point!Noted, Point!Writes, Point!Waits, PointInv, PointIsKnown, Probes,
                      ProbeStates
  <2>2. /\ seat' \in Seats /\ view' \in Views /\ SeatAgrees' /\ ViewAgrees'
    BY <1>1, <1>2, EffectMeans
  <2>3. PointIsKnown' /\ PointIsClosed'
    BY <1>1, <2>1, <2>2 DEF PointInv, PointIsKnown, PointIsClosed, Point!ProbeRuns,
       Point!ValidPointLeavesNothing
  <2>4. CASE at = "holdIt"
    <3>1. /\ seat'.hold /\ ~seat'.spent /\ ~seat'.order /\ seat'.queue = seat.queue
      BY <1>1, <1>2, <2>4, EffectMeans
    <3>2. QED
      BY ONLY PointInv, <1>1, <2>1, <2>2, <2>3, <2>4, <3>1
         DEF PointInv, ProbeRelies, ProbeNotes, Point!ProbeRuns
  <2>5. CASE at = "abandonIt"
    <3>1. /\ ~seat'.hold /\ ~seat'.order /\ seat'.queue = seat.queue
      BY <1>1, <1>2, <2>5, EffectMeans
    <3>2. QED
      BY ONLY PointInv, <1>1, <2>1, <2>2, <2>3, <2>5, <3>1
         DEF PointInv, ProbeRelies, ProbeNotes, Point!ProbeRuns
  <2>6. CASE at = "confirmIt"
    <3>1. /\ seat'.order /\ seat'.spent /\ seat'.hold = seat.hold /\ seat'.formal = seat.formal
          /\ seat.queue = <<>> => seat'.queue = <<"HELD">>
          /\ view'.unread = view.unread
      BY <1>1, <1>2, <2>6, EffectMeans
    <3>2. ~probe.failed => seat.formal = "AVAILABLE"
      BY <2>6 DEF PointInv, ProbeRelies, SeatAgrees
    <3>3. QED
      BY ONLY PointInv, <1>1, <2>1, <2>2, <2>3, <2>6, <3>1, <3>2
         DEF PointInv, ProbeRelies, ProbeNotes, Point!ProbeRuns
  <2>7. CASE at = "cancelIt"
    <3>1. /\ ~seat'.order /\ seat'.spent = seat.spent /\ seat'.hold = seat.hold
          /\ seat'.formal = seat.formal
          /\ seat.queue = <<>> => seat'.queue = <<"AVAILABLE">>
      BY <1>1, <1>2, <2>7, EffectMeans
    <3>2. ~probe.failed => seat.formal = "HELD"
      BY <2>7 DEF PointInv, ProbeRelies, SeatAgrees
    <3>3. QED
      BY ONLY PointInv, <1>1, <2>1, <2>2, <2>3, <2>7, <3>1, <3>2
         DEF PointInv, ProbeRelies, ProbeNotes, Point!ProbeRuns
  <2>8. QED
    BY <1>1, <2>4, <2>5, <2>6, <2>7 DEF Point!Writes
<1>3. ASSUME probe' = [probe EXCEPT !.at = "cleanup", !.failed = TRUE], UNCHANGED <<seat, view>>
      PROVE  PointInv'
  <2>1. /\ probe' \in Probes /\ probe'.failed /\ probe'.at = "cleanup"
        /\ probe'.checkout = probe.checkout /\ probe'.order = probe.order
        /\ probe'.unanswered = probe.unanswered
    BY <1>3 DEF PointInv, PointIsKnown, Probes, ProbeStates
  <2>2. SeatAgrees' /\ ViewAgrees' /\ seat' \in Seats /\ view' \in Views
    BY <1>3 DEF PointInv, PointIsKnown, SeatAgrees, ViewAgrees, Point!Display
  <2>3. QED
    BY <1>1, <1>3, <2>1, <2>2, GivingUpKeeps DEF PointInv, ProbeNotes
<1>4. ASSUME probe' = [probe EXCEPT !.at = "cleanup", !.failed = TRUE, !.unanswered = TRUE],
             \/ Point!Accepted(probe.at) /\ Point!Effect(probe.at)
             \/ UNCHANGED <<seat, view>>
      PROVE  PointInv'
  <2>1. /\ probe' \in Probes /\ probe'.failed /\ probe'.at = "cleanup"
        /\ probe'.checkout = probe.checkout /\ probe'.order = probe.order
        /\ probe'.unanswered
    BY <1>4 DEF PointInv, PointIsKnown, Probes, ProbeStates
  <2>2. SeatAgrees' /\ ViewAgrees' /\ seat' \in Seats /\ view' \in Views
    <3>1. CASE UNCHANGED <<seat, view>>
      BY <3>1 DEF PointInv, PointIsKnown, SeatAgrees, ViewAgrees, Point!Display
    <3>2. QED
      BY <1>1, <1>4, <3>1, EffectMeans
  <2>3. QED
    BY <1>1, <2>1, <2>2, GivingUpKeeps DEF PointInv, ProbeNotes
<1>5. QED
  BY <1>2, <1>3, <1>4 DEF Point!Write

\* The finally of the probe gives up what it has noted as active.
LEMMA CleanUpKeeps == ASSUME PointInv, Point!CleanUp PROVE PointInv'
<1>1. probe.at = "cleanup" /\ Point!ProbeKeeps /\ Point!ProbeRuns /\ probe.failed
  BY DEF Point!CleanUp, Point!ProbeRuns, PointInv, ProbeRelies
<1>2. probe \in Probes /\ SeatAgrees /\ ViewAgrees /\ seat \in Seats /\ view \in Views
  BY DEF PointInv, PointIsKnown
<1>3. /\ ~ (probe.checkout /\ probe.order)
      /\ ~probe.unanswered /\ ~died => /\ seat.hold /\ ~seat.spent => probe.checkout
                                       /\ seat.order => probe.order
  BY DEF PointInv, ProbeNotes
<1>4. ASSUME UNCHANGED <<seat, view>>
      PROVE  SeatAgrees' /\ ViewAgrees' /\ seat' \in Seats /\ view' \in Views
  BY <1>2, <1>4 DEF SeatAgrees, ViewAgrees, Point!Display
<1>5. ASSUME Point!NothingActive, probe' = [probe EXCEPT !.at = "ended"], UNCHANGED <<seat, view>>
      PROVE  PointInv'
  <2>1. ~probe.checkout /\ ~probe.order
    BY <1>5 DEF Point!NothingActive
  <2>2. /\ probe' \in Probes /\ probe'.failed /\ probe'.at = "ended"
        /\ ~probe'.checkout /\ ~probe'.order /\ probe'.unanswered = probe.unanswered
    BY <1>1, <1>2, <1>5, <2>1 DEF Probes, ProbeStates
  <2>3. QED
    BY <1>1, <1>3, <1>4, <1>5, <2>1, <2>2, GivingUpKeeps
<1>6. ASSUME ~Point!NothingActive
      PROVE  /\ Point!CleanedUp \in Probes /\ Point!CleanedUp.at = "cleanup"
             /\ Point!CleanedUp.failed /\ ~Point!CleanedUp.checkout
             /\ probe.checkout => Point!CleanedUp.order = probe.order
             /\ ~probe.checkout => ~Point!CleanedUp.order
             /\ Point!CleanedUp.unanswered = probe.unanswered
  BY <1>1, <1>2, <1>6 DEF Point!CleanedUp, Point!NothingActive, Probes
<1>7. ASSUME ~Point!NothingActive, probe' = Point!CleanedUp, NEW write,
             write = (IF probe.checkout THEN "abandonIt" ELSE "cancelIt"),
             IF Point!Accepted(write) THEN Point!Effect(write) ELSE UNCHANGED <<seat, view>>
      PROVE  PointInv'
  <2>1. write \in Point!Writes
    BY <1>7 DEF Point!Writes
  <2>2. SeatAgrees' /\ ViewAgrees' /\ seat' \in Seats /\ view' \in Views
    BY <1>4, <1>7, <2>1, EffectMeans
  <2>3. ASSUME ~probe.unanswered, ~died
        PROVE  ~(seat'.hold /\ ~seat'.spent) /\ (seat'.order => probe'.order)
    <3>1. CASE probe.checkout
      <4>1. Point!Accepted(write)
        BY <1>3, <1>7, <2>3, <3>1 DEF Point!Accepted
      <4>2. ~seat'.hold /\ ~seat'.order
        BY <1>7, <2>1, <3>1, <4>1, EffectMeans
      <4>3. QED
        BY <4>2
    <3>2. CASE ~probe.checkout
      <4>1. CASE Point!Accepted(write)
        <5>1. ~seat'.order /\ seat'.spent = seat.spent /\ seat'.hold = seat.hold
          BY <1>7, <2>1, <3>2, <4>1, EffectMeans
        <5>2. QED
          BY <1>3, <2>3, <3>2, <5>1
      <4>2. CASE ~Point!Accepted(write)
        <5>1. ~seat.order /\ UNCHANGED seat
          BY <1>7, <3>2, <4>2 DEF Point!Accepted
        <5>2. QED
          BY <1>3, <2>3, <3>2, <5>1
      <4>3. QED
        BY <4>1, <4>2
    <3>3. QED
      BY <3>1, <3>2
  <2>4. QED
    BY <1>1, <1>6, <1>7, <2>2, <2>3, GivingUpKeeps
<1>8. ASSUME ~Point!NothingActive, probe' = [Point!CleanedUp EXCEPT !.unanswered = TRUE],
             UNCHANGED <<seat, view>>
      PROVE  PointInv'
  <2>1. /\ probe' \in Probes /\ probe'.at = "cleanup" /\ probe'.failed /\ ~probe'.checkout
        /\ probe'.unanswered
    BY <1>6, <1>8 DEF Probes
  <2>2. QED
    BY <1>1, <1>4, <1>8, <2>1, GivingUpKeeps
<1>9. QED
  BY <1>5, <1>7, <1>8 DEF Point!CleanUp

\* Every step of a point keeps the invariant.
LEMMA PointSteps == PointInv /\ [Point!Next]_(Point!vars) => PointInv'
<1> SUFFICES ASSUME PointInv, [Point!Next]_(Point!vars) PROVE PointInv'
  OBVIOUS
<1>1. CASE \/ Point!Watch \/ Point!StopAtGate \/ Point!WatchFails \/ Point!TellProbe
           \/ Point!JoinProbe \/ Point!AbandonHotspot \/ Point!VerifyAfter
           \/ Point!ObservationFails \/ Point!LoadActs \/ Point!GeneratorExits
           \/ UNCHANGED Point!vars
  <2>1. UNCHANGED <<probe, seat, view, died>>
    BY <1>1 DEF Point!Watch, Point!StopAtGate, Point!Stopped, Point!WatchFails,
       Point!TellProbe, Point!JoinProbe, Point!AbandonHotspot, Point!VerifyAfter,
       Point!ObservationFails, Point!LoadActs, Point!GeneratorExits, Point!Goto, Point!point,
       Point!vars
  <2>2. QED
    BY <1>1, <2>1, MainKeeps
<1>2. QED
  BY <1>1, VerifyBeforeKeeps, CrashEndsPoint, RemoveKeeps, WriteResultKeeps, StartPointKeeps,
     LaunchKeeps, SeatMoves, RebuildKeeps, WaitForKeeps, DwellKeeps, ProbeIsStoppedKeeps,
     WriteKeeps, CleanUpKeeps
     DEF Point!Next, Point!Finished, Point!MainStep, Point!ProbeStep, Point!StackStep

-----------------------------------------------------------------------------
(* What follows of the campaigns.                                          *)

\* A job that is run now is of a commit whose evidence stands.
LEMMA RehearsedIsMeasured == CampaignInv => OnlyRehearsedCommitsAreMeasured
<1> SUFFICES ASSUME CampaignInv, pc = "execute", task \in Measured, head = qual.head
             PROVE  /\ qual.status = "pass" /\ g0.legs = Len(Sampled)
                    /\ \A i \in DOMAIN Jobs("smoke") :
                         LET r == log["smoke"][file["smoke"].runs[i].root]
                         IN r.job = i /\ r.verdict = "pass" /\ r.head = head
                    /\ Core => Len(cold.runs) = 2 /\ \A i \in 1 .. 2 : cold.runs[i] = head
  BY DEF OnlyRehearsedCommitsAreMeasured
<1>1. /\ qual.status = "pass" /\ g0.status = "pass" /\ g0.legs = Len(Sampled)
      /\ file["smoke"].status = "pass" /\ file["smoke"].head = head
      /\ Core => Len(cold.runs) = 2 /\ \A i \in 1 .. 2 : cold.runs[i] = head
  BY DEF CampaignInv, EvidenceStands
<1> DEFINE runs == file["smoke"].runs
<1> DEFINE ran == log["smoke"]
<1>2. /\ runs \in Seq(Records) /\ ran \in Seq(RunRecords) /\ head \in Nat
      /\ Tells(runs, ran) /\ Len(runs) = Len(Jobs("smoke")) /\ AllPassed(runs)
      /\ RanBetween(ran, head, head)
  BY <1>1 DEF CampaignInv, ArtefactsAreKnown, FilesAreSound, SoundRecords, Kinds
<1> HIDE DEF runs, ran
<1>3. DOMAIN Jobs("smoke") = 1 .. 2 /\ DOMAIN runs = 1 .. 2 /\ DOMAIN ran = 1 .. Len(ran)
      /\ Len(ran) \in Nat
  <2>1. DOMAIN Jobs("smoke") = 1 .. 2
    BY DEF Jobs
  <2>2. Len(runs) = 2
    BY <1>2, JobsAre
  <2>3. QED
    BY <1>2, <2>1, <2>2
<1>4. ASSUME NEW i \in 1 .. 2
      PROVE  /\ ran[runs[i].root].job = i /\ ran[runs[i].root].verdict = "pass"
             /\ ran[runs[i].root].head = head
  <2>1. runs[i].status = "pass" /\ runs[i].root \in 0 .. Len(ran) /\ runs[i].root # 0
        /\ ran[runs[i].root].job = i /\ StatusOf(ran[runs[i].root].verdict) = "pass"
    BY <1>2, <1>3 DEF Tells, AllPassed
  <2>2. runs[i].root \in DOMAIN ran /\ ran[runs[i].root] \in RunRecords
    BY <1>2, <1>3, <2>1
  <2>3. ran[runs[i].root].verdict = "pass"
    <3>1. ran[runs[i].root].verdict \in Verdicts
      BY <2>2 DEF RunRecords
    <3>2. QED
      BY <2>1, <3>1, StatusesAre
  <2>4. ran[runs[i].root].head = head
    <3>1. ran[runs[i].root].head \in head .. head
      BY <1>2, <2>2 DEF RanBetween
    <3>2. QED
      BY <1>2, <3>1
  <2>5. QED
    BY <2>1, <2>3, <2>4
<1>5. QED
  BY <1>1, <1>3, <1>4 DEF runs, ran

\* The ground, as the property says it.
LEMMA GroundSuffices == CampaignInv => RunsOnSoundGround
  BY DEF CampaignInv, GroundIsSound, SoundAt, RunsOnSoundGround, CaseAt, Loaded

\* The file of a campaign that is recorded as passed.
LEMMA PassedIsWhole == CampaignInv => PassedCampaignIsWhole
<1> SUFFICES ASSUME CampaignInv, NEW k \in Kinds, file[k].status = "pass"
             PROVE  LET runs == file[k].runs
                        run(i) == log[k][runs[i].root]
                    IN /\ Len(runs) = Len(Jobs(k))
                       /\ \A i \in DOMAIN runs :
                            /\ runs[i].root # 0
                            /\ run(i).job = i
                            /\ run(i).verdict = "pass"
                            /\ \A j \in 1 .. i - 1 : runs[j].root < runs[i].root
                            /\ k # "smoke" /\ i < Len(runs) => run(i).head = file[k].head
                            /\ Jobs(k)[i] = Job("L2", FALSE) =>
                                 run(i).control = runs[i - 1].root
  BY DEF PassedCampaignIsWhole
<1> DEFINE runs == file[k].runs
<1> DEFINE ran == log[k]
<1>1. /\ runs \in Seq(Records) /\ ran \in Seq(RunRecords)
      /\ SoundRecords(k, runs, ran, file[k].head) /\ Len(runs) = Len(Jobs(k)) /\ AllPassed(runs)
  BY DEF CampaignInv, ArtefactsAreKnown, FilesAreSound
<1> HIDE DEF runs, ran
<1>2. /\ Tells(runs, ran) /\ Compares(k, runs, ran)
      /\ k # "smoke" => StaysOnCommit(runs, ran, file[k].head)
  BY <1>1 DEF SoundRecords, Kinds, Measured
<1>3. PICK n \in Nat : n = Len(runs) /\ DOMAIN runs = 1 .. n /\ Len(Jobs(k)) = n
  BY <1>1
<1>4. ASSUME NEW i \in 1 .. n
      PROVE  /\ runs[i].root # 0 /\ ran[runs[i].root].job = i
             /\ ran[runs[i].root].verdict = "pass"
             /\ \A j \in 1 .. i - 1 : runs[j].root < runs[i].root
             /\ k # "smoke" /\ i < n => ran[runs[i].root].head = file[k].head
             /\ Loaded(k, i) => ran[runs[i].root].control = runs[i - 1].root
  <2>1. /\ runs[i].status = "pass" /\ runs[i].root \in 0 .. Len(ran) /\ runs[i].root # 0
        /\ ran[runs[i].root].job = i /\ StatusOf(ran[runs[i].root].verdict) = "pass"
        /\ \A j \in 1 .. i - 1 : runs[j].root < runs[i].root
    BY <1>1, <1>2, <1>3 DEF Tells, AllPassed
  <2>2. ran[runs[i].root].verdict = "pass"
    <3>1. ran[runs[i].root] \in RunRecords
      BY <1>1, <2>1
    <3>2. ran[runs[i].root].verdict \in Verdicts
      BY <3>1 DEF RunRecords
    <3>3. QED
      BY <2>1, <3>2, StatusesAre
  <2>3. ASSUME k # "smoke", i < n PROVE ran[runs[i].root].head = file[k].head
    <3>1. n \in DOMAIN runs /\ i \in DOMAIN runs /\ runs[n].status = "pass"
      BY <1>1, <1>3 DEF AllPassed
    <3>2. QED
      BY <1>2, <2>1, <2>3, <3>1 DEF StaysOnCommit
  <2>4. ASSUME Loaded(k, i) PROVE ran[runs[i].root].control = runs[i - 1].root
    <3>1. i # 1 /\ i - 1 \in 1 .. n
      <4>1. i \in 1 .. Len(Jobs(k)) /\ i \in Nat
        BY <1>3
      <4>2. i # 1
        BY <2>4, <4>1, JobsAre
      <4>3. QED
        BY <4>2
    <3>2. runs[i - 1].status = "pass"
      BY <1>1, <1>3, <3>1 DEF AllPassed
    <3>3. QED
      BY <1>2, <1>3, <2>1, <2>4, <3>2 DEF Compares
  <2>5. QED
    BY <2>1, <2>2, <2>3, <2>4
<1>5. QED
  BY <1>1, <1>3, <1>4 DEF runs, ran, Loaded

\* What the runs check of the campaigns.
LEMMA CampaignInvSuffices == CampaignInv => CampaignsAreSound /\ PassedCampaignIsWhole
<1>1. CampaignInv => ObservedOnce
  BY DEF CampaignInv, ObservationIsClaimed, ObservedOnce
<1>2. QED
  BY <1>1, RehearsedIsMeasured, GroundSuffices, PassedIsWhole DEF CampaignsAreSound

\* What the runs check of the points.
LEMMA PointInvSuffices == PointInv => SamplesAreTrue /\ NothingIsHandedOn
<1>1. PointInv => Point!SamplesAreTrue
  BY DEF PointInv, ProbeRelies, Point!SamplesAreTrue
<1>2. PointInv => Point!ProbeCleansUp
  BY DEF PointInv, PointIsKnown, Seats, ProbeNotes, Point!ProbeRuns, Point!ProbeCleansUp
<1>3. PointInv => Point!ValidPointLeavesNothing
  BY DEF PointInv, PointIsClosed
<1>4. QED
  BY <1>1, <1>2, <1>3 DEF SamplesAreTrue, NothingIsHandedOn, Point!NothingIsHandedOn

-----------------------------------------------------------------------------

\* The strengthening of the two properties of campaigns is an invariant of every history of
\* processes, crashes, resumptions, commits and changed evidence (phase14_campaign.py).
THEOREM CampaignInvCorrect == Spec => []CampaignInv
<1>1. QED
  BY CampaignStarts, CampaignSteps, PTL DEF Spec

\* A campaign measures only a commit that was rehearsed, on ground that the earlier runs left
\* sound, and the memory observation is made once (phase14_campaign.py, qualification_guard;
\* phase14_core.py, campaign; phase14_memory.py, the claim).
THEOREM CampaignsAreSoundCorrect == Spec => []CampaignsAreSound
<1>1. QED
  BY CampaignInvCorrect, CampaignInvSuffices, PTL

\* A campaign recorded as passed has a passed run of every job, in their order, from the commit
\* it names, and its loaded L2 was compared with its own control (phase14_campaign.py, campaign
\* with --resume-from; phase14_core.py, campaign).
THEOREM PassedCampaignIsWholeCorrect == Spec => []PassedCampaignIsWhole
<1>1. QED
  BY CampaignInvCorrect, CampaignInvSuffices, PTL

\* The strengthening of the two properties of a point is an invariant of any number of points,
\* faults and lapsed holds (propagation.py and measure.py).
THEOREM PointInvCorrect == Point!Spec => []PointInv
<1>1. QED
  BY PointStarts, PointSteps, PTL DEF Point!Spec

\* A probe that ends without a failure has taken no sighting that another event brought about
\* for the one it waited for (propagation.py, wait_for).
THEOREM SamplesAreTrueCorrect == Point!Spec => []SamplesAreTrue
<1>1. QED
  BY PointInvCorrect, PointInvSuffices, PTL

\* Neither a probe that has ended nor a point with a valid result leaves a hold, an order, a
\* process or a change under way to the next point (propagation.py and measure.py, finally).
THEOREM NothingIsHandedOnCorrect == Point!Spec => []NothingIsHandedOn
<1>1. QED
  BY PointInvCorrect, PointInvSuffices, PTL

\* A step of the experiments is one of the campaign and one of the point, or neither moves.
LEMMA ExperimentsStep == [ExperimentsNext]_everything => [Next]_vars /\ [Point!Next]_(Point!vars)
<1> SUFFICES ASSUME [ExperimentsNext]_everything PROVE [Next]_vars /\ [Point!Next]_(Point!vars)
  OBVIOUS
<1>1. \/ Next /\ UNCHANGED pointVars
      \/ Point!Next /\ UNCHANGED vars
      \/ UNCHANGED <<vars, pointVars>>
  BY DEF ExperimentsNext, everything
<1>2. UNCHANGED pointVars => UNCHANGED Point!vars
  BY DEF pointVars, Point!vars, Point!point, Point!threads, Point!stack, Point!bounds
<1>3. QED
  BY <1>1, <1>2

\* The four together, of the specification that is model-checked.
THEOREM ExperimentsAreSound ==
    ExperimentsSpec => [](CampaignsAreSound /\ PassedCampaignIsWhole
                          /\ SamplesAreTrue /\ NothingIsHandedOn)
<1>1. ExperimentsInit => CampaignInv /\ PointInv
  BY CampaignStarts, PointStarts DEF ExperimentsInit
<1>2. CampaignInv /\ PointInv /\ [ExperimentsNext]_everything => CampaignInv' /\ PointInv'
  BY ExperimentsStep, CampaignSteps, PointSteps
<1>3. QED
  BY <1>1, <1>2, CampaignInvSuffices, PointInvSuffices, PTL DEF ExperimentsSpec
=============================================================================
