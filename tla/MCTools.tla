------------------------------ MODULE MCTools ------------------------------
(***************************************************************************)
(* Instances of the tools around the load tests, each of which is a system *)
(* of its own: a behaviour is that of one of them, and the others stay in  *)
(* their initial state.                                                    *)
(***************************************************************************)
EXTENDS LoadRun, Sequences

(* The parameters of the tools, under their own names; MaxBreaks bounds the*)
(* faults of those tools where one is enough.                              *)
CONSTANTS
    MaxAsked, MaxCommands, MaxTrials, MaxProcesses, MaxCrashes, MaxEdits, MaxPlans, MaxRuns,
    MaxRequests, MaxFaults, MaxBreaks, MaxForeign, MaxSwaps, MaxAttempts,
    WindowSamples, IdleSamples, SettleSamples, Scripts, Frozen, Identities, Users

VARIABLES
    system, \* the tool this behaviour is of
    redis, backend, db, holds, cached, files, newest, stats, plan, pos,
    warmed, pcStack, run, results, plans, faults, startedWhole, pcSeatMap,
    tool, runSeatMap, identity, before, after, late, resultSeatMap,
    generator, sent, finished, open, trouble, up, startedSeatMap, total,
    snapshot, faultsSeatMap, startedAt, crowded, abandoned, pcQualify,
    created, stop, exitCode, overdue, valid, owner, k6, faultsQualify,
    strayed, pcRelease, selected, others, volumes, sampler, swaps, saved,
    known, idle, waited, samples, gate, foreign, attempts, auditedAt,
    between, earned, stage, t, dataset, spec, pcSmoke, doing, targets,
    using, dbSmoke, redisSmoke, backendSmoke, export, dump, hash,
    generatorSmoke, overdueSmoke, passed, records, checkpoint, evidence,
    starts, faultsSmoke, crashes, edits, tainted, finishedSmoke,
    args, phase, startedPools, user, pcActivity, asked, knownActivity, pipe,
    lines, command, samplesActivity, failed, closed, done, report,
    scripts, clean, source, stackProtocol, k6Protocol, seat, pcProtocol,
    trial, whole, samplerProtocol, errors, filesProtocol, manifest,
    passedProtocol, compared, editsProtocol, kindAccount, at, sentAccount,
    handling, told, checkout, order, session, ownerAccount, lapsed,
    pcAccount, captured, correct, commandFixture, pcFixture, module, test,
    todo, careful, good, status, redisFixture, stopped, backendFixture,
    forced, busyFixture, broken, modules, commands, faultsFixture,
    dual, pcStartup, k6Startup, compose, goodStartup, warmedStartup, refused, seen,
    errorsStartup, overdueStartup, raised, ran, absent, faultsStartup

-----------------------------------------------------------------------------
(* Short plans that put every kind of reset before every kind of workload  *)
(* that changes the stack.                                                 *)
Entry(reset, kind, warm) == [reset |-> reset, kind |-> kind, warm |-> warm]

Plans == {
    [experiment |-> FALSE,
     entries |-> <<Entry("logical", "down", <<>>), Entry("logical", "payment", <<>>)>>],
    [experiment |-> FALSE,
     entries |-> <<Entry("full", "payment", <<>>), Entry("none", "checkout", <<>>)>>],
    [experiment |-> FALSE,
     entries |-> <<Entry("none", "cold", <<"read">>), Entry("logical", "map", <<"cold">>)>>],
    [experiment |-> TRUE,
     entries |-> <<Entry("logical", "login", <<>>), Entry("logical", "login", <<>>)>>]}

(* Targets small enough to be looked at one by one, valid and invalid.     *)
Stage(n) == [users |-> n, ramp |-> 2, hold |-> 4]

Targets == [mode |-> "formal", seed |-> 7, events |-> 2, sessionsPerEvent |-> 2, seatsPerSession |-> 90,
  registeredUsers |-> 190, activeAuthSessions |-> 170, loginUsers |-> 20,
  share |-> [browse |-> 60, hold |-> 25, order |-> 15], refresh |-> <<2, 6>>, maxSeats |-> 2,
  rounds |-> <<<<Stage(20), Stage(40)>>, <<Stage(40)>>>>, burst |-> 40,
  hotspot |-> [users |-> 40, seats |-> 4, contenders |-> 10],
  expiryOrders |-> 20, paymentRate |-> 1, windowSeconds |-> 6, loginSeconds |-> 8,
  slices |-> [main |-> <<0, 40>>, calibration |-> <<40, 42>>, control |-> <<42, 44>>,
     payment |-> <<44, 64>>, expiry |-> <<64, 84>>, background |-> <<84, 124>>,
     backgroundHold |-> <<124, 144>>, backgroundOrder |-> <<144, 164>>, login |-> <<170, 190>>],
  seatSlices |-> [main |-> <<0, 80>>, payment |-> <<80, 100>>, expiry |-> <<100, 120>>,
     backgroundHold |-> <<120, 140>>, backgroundOrder |-> <<140, 160>>, control |-> <<160, 162>>],
  smoke |-> [users |-> 20, authSamples |-> 2, registeredUsers |-> 190, activeAuthSessions |-> 170,
     loginUsers |-> 20, seatsPerSession |-> 60, ramp |-> 2, hold |-> 4, hotspotSeats |-> 2,
     refresh |-> <<1, 3>>]]

TargetInputs ==
  UNION {{[Targets EXCEPT !.seed = s, !.events = e, !.sessionsPerEvent = 4 \div e] : e \in {1, 2, 4}} : s \in {0, 7}}
  \union {[Targets EXCEPT !.maxSeats = 1],
   [Targets EXCEPT !.share = [browse |-> 65, hold |-> 20, order |-> 15]],
   [Targets EXCEPT !.share = [browse |-> 58, hold |-> 27, order |-> 15]],
   [Targets EXCEPT !.share = [browse |-> 60, hold |-> 25, order |-> 20]],
   [Targets EXCEPT !.slices["payment"] = <<30, 64>>],
   [Targets EXCEPT !.slices["payment"] = <<44, 54>>],
   [Targets EXCEPT !.slices["login"] = <<165, 185>>],
   [Targets EXCEPT !.slices["backgroundOrder"] = <<160, 180>>],
   [Targets EXCEPT !.slices["main"] = <<0, 30>>],
   [Targets EXCEPT !.seatSlices["payment"] = <<60, 80>>],
   [Targets EXCEPT !.seatSlices["expiry"] = <<90, 110>>],
   [Targets EXCEPT !.seatSlices["control"] = <<359, 361>>],
   [Targets EXCEPT !.hotspot.seats = 5],
   [Targets EXCEPT !.rounds = <<<<Stage(30)>>>>],
   [Targets EXCEPT !.rounds = <<<<Stage(40), Stage(20)>>>>],
   [Targets EXCEPT !.loginUsers = 25],
   [Targets EXCEPT !.smoke.activeAuthSessions = 150],
   [Targets EXCEPT !.smoke.seatsPerSession = 50],
   [Targets EXCEPT !.smoke.hotspotSeats = 3]}

Z(n, r) == [name |-> n, rows |-> r, price |-> 1]
ProfileInputs ==
   {[mode |-> "profile", events |-> e, sessionsPerEvent |-> n, registeredUsers |-> 3, activeAuthSessions |-> a,
     rows |-> 4, seatsPerRow |-> p, zones |-> z] :
     e \in {1, 2}, n \in {1, 3}, a \in {0, 2, 4}, p \in {1, 3},
     z \in {<<Z("A", 4)>>, <<Z("A", 1), Z("B", 2), Z("C", 1)>>, <<Z("A", 2), Z("A", 2)>>, <<Z("A", 2), Z("B", 1)>>,
            <<Z("A", 0), Z("B", 4)>>, <<Z("A", 3), Z("B", 2)>>}}

MCInputs == TargetInputs \union ProfileInputs
MCCases == [case : {"U1", "U2"}, round : {1, 2}, sessionCount : {1}]
           \union [case : {"J1", "L1", "H1", "H3"}, round : {1}, sessionCount : {1}]
           \union [case : {"H2"}, round : {1}, sessionCount : {2, 4}]

(* Runs of run_k6 around the smallest pools that suffice for them.         *)
One(n) == [f \in {"main"} |-> n]
Two(m, n) == [f \in {"checkout", "payment"} |-> IF f = "checkout" THEN m ELSE n]
Three == [f \in {"public", "auth", "seat-map"} |-> 1]

Steady == [workload |-> "checkout", mode |-> "steady", cold |-> FALSE,
    rate |-> One(2), start |-> One(0), target |-> One(0), vus |-> 1,
    contenders |-> 2, sessions |-> 8, seats |-> 8, authPool |-> 3,
    duration |-> 3, base |-> 1, ramp |-> 2, hold |-> 0, recovery |-> 1, down |-> 1]
Ramp == [Steady EXCEPT !.rate = One(0), !.start = One(1), !.target = One(2), !.ramp = 3]
MixedWrites == [Steady EXCEPT !.workload = "synthetic-mixed-transactional",
    !.rate = Two(1, 2), !.start = Two(0, 0), !.target = Two(2, 3),
    !.duration = 2, !.sessions = 9, !.seats = 9]
MixedReads == [Steady EXCEPT !.workload = "synthetic-mixed-read",
    !.rate = Three, !.start = Three, !.target = Three, !.duration = 1]
OneFlow == {"formal-seat-contention", "temporary-hold-contention", "checkout",
            "payment-start", "payment-lifecycle", "login"}

RunInputs ==
  UNION {{[[x EXCEPT !.mode = m] EXCEPT !.workload = w] :
     w \in OneFlow \union {"auth-read"}, m \in {"smoke", "steady", "soak", "discovery", "spike", "wave"}} :
     x \in {Steady, Ramp}}
  \union {[Steady EXCEPT !.workload = "auth-read", !.cold = TRUE, !.sessions = n] : n \in {7, 8}}
  \union {[Steady EXCEPT !.workload = w, !.seats = n] : w \in OneFlow, n \in {6, 7, 8}}
  \union {[Steady EXCEPT !.workload = "temporary-hold-contention", !.sessions = n] : n \in {14, 15, 16}}
  \union {[Ramp EXCEPT !.workload = w, !.mode = "discovery", !.sessions = 40, !.seats = n] :
     w \in OneFlow, n \in {7, 8}}
  \union {[Ramp EXCEPT !.mode = "spike", !.sessions = n, !.seats = n, !.start = One(s)] :
     n \in {23, 24}, s \in {1, 5}}
  \union {[MixedWrites EXCEPT !.sessions = n, !.mode = m] : n \in {8, 9}, m \in {"smoke", "steady", "soak"}}
  \union {[MixedWrites EXCEPT !.mode = "spike", !.ramp = 1, !.hold = 1, !.sessions = n, !.seats = n] :
     n \in {29, 30}}
  \union {[MixedReads EXCEPT !.mode = m] : m \in {"steady", "soak", "spike", "discovery"}}
  \union {[Steady EXCEPT !.workload = w, !.mode = "wave", !.contenders = 100, !.sessions = n] :
     w \in {"formal-hot-seat-wave", "temporary-hold-hot-wave"}, n \in {99, 100}}

(* Three modules of tests, of which one replaces Redis (seat_hold_...).    *)
ToolSuite == <<<<"plain">>, <<"outage", "restart", "plain">>, <<"outage">>>>

(* Both kinds of jobs of a smoke campaign.                                 *)
ToolJobs == <<"load", "expiry">>

-----------------------------------------------------------------------------
Stack == INSTANCE PerformanceStack WITH
    MaxFaults <- MaxBreaks, pc <- pcStack

SeatMap == INSTANCE SeatMapRun WITH
    Tools <- {"calibrate", "capacity", "diagnose"}, MaxFaults <- MaxBreaks, pc <- pcSeatMap, run <- runSeatMap,
    result <- resultSeatMap, started <- startedSeatMap,
    faults <- faultsSeatMap

Qualify == INSTANCE QualificationPoint WITH
    Points <- {"first", "second"}, pc <- pcQualify,
    faults <- faultsQualify

Release == INSTANCE ResourceRelease WITH
    pc <- pcRelease

Inputs == INSTANCE LoadInputs WITH
    Inputs <- MCInputs, Cases <- MCCases, SeatsPerRow <- 10,
    UserSlice <- 20, SeatSlice <- 40

Smoke == INSTANCE SmokeCampaign WITH
    Jobs <- ToolJobs, MaxStarts <- MaxProcesses, pc <- pcSmoke, db <- dbSmoke,
    redis <- redisSmoke, backend <- backendSmoke,
    generator <- generatorSmoke, overdue <- overdueSmoke,
    faults <- faultsSmoke, finished <- finishedSmoke

Pools == INSTANCE WorkloadPools WITH
    Runs <- RunInputs, started <- startedPools

Activity == INSTANCE ActivitySampler WITH
    Users <- {"light", "clock", "host"}, pc <- pcActivity,
    known <- knownActivity, samples <- samplesActivity

Protocol == INSTANCE FixedProtocol WITH
    stack <- stackProtocol, k6 <- k6Protocol, pc <- pcProtocol,
    sampler <- samplerProtocol, files <- filesProtocol,
    passed <- passedProtocol, edits <- editsProtocol

Account == INSTANCE JourneyAccounting WITH
    Kinds <- {"formal", "temporary", "order", "payment", "login"},
    kind <- kindAccount, sent <- sentAccount, owner <- ownerAccount,
    pc <- pcAccount

Fixture == INSTANCE FixtureRegression WITH
    Suite <- ToolSuite,
    command <- commandFixture, pc <- pcFixture, redis <- redisFixture,
    backend <- backendFixture, busy <- busyFixture,
    faults <- faultsFixture

Startup == INSTANCE StartupWarmup WITH
    MaxFaults <- MaxBreaks, pc <- pcStartup, k6 <- k6Startup,
    good <- goodStartup, warmed <- warmedStartup, errors <- errorsStartup,
    overdue <- overdueStartup, faults <- faultsStartup

ASSUME InstancesAreValid ==
    /\ Stack!ConstantsAssumption
    /\ SeatMap!ConstantsAssumption
    /\ Qualify!ConstantsAssumption
    /\ Release!ConstantsAssumption
    /\ Inputs!ConstantsAssumption
    /\ Smoke!ConstantsAssumption
    /\ Pools!ConstantsAssumption
    /\ Activity!ConstantsAssumption
    /\ Protocol!ConstantsAssumption
    /\ Account!ConstantsAssumption
    /\ Fixture!ConstantsAssumption
    /\ Startup!ConstantsAssumption

-----------------------------------------------------------------------------
Systems == {"Run", "Stack", "SeatMap", "Qualify", "Release", "Inputs", "Smoke", "Pools", "Activity",
            "Protocol", "Account", "Fixture", "Startup"}

stackVars == <<redis, backend, db, holds, cached, files, newest, stats, plan, pos,
    warmed, pcStack, run, results, plans, faults, startedWhole>>
seatMapVars == <<pcSeatMap, tool, runSeatMap, identity, before, after, late,
    resultSeatMap, generator, sent, finished, open, trouble, up,
    startedSeatMap, total, snapshot, faultsSeatMap, startedAt, crowded,
    abandoned>>
qualifyVars == <<pcQualify, created, stop, exitCode, overdue, valid, owner, k6,
    faultsQualify, strayed>>
releaseVars == <<pcRelease, selected, others, volumes, sampler, swaps, saved, known,
    idle, waited, samples, gate, foreign, attempts, auditedAt, between,
    earned>>
inputsVars == <<stage, t, dataset, spec>>
smokeVars == <<pcSmoke, doing, targets, using, dbSmoke, redisSmoke, backendSmoke,
    export, dump, hash, generatorSmoke, overdueSmoke, passed, records,
    checkpoint, evidence, starts, faultsSmoke, crashes, edits, tainted,
    finishedSmoke>>
poolsVars == <<args, phase, startedPools>>
activityVars == <<user, pcActivity, asked, knownActivity, pipe, lines, command,
    samplesActivity, failed, closed, done, report>>
protocolVars == <<scripts, clean, source, stackProtocol, k6Protocol, seat, pcProtocol,
    trial, whole, samplerProtocol, errors, filesProtocol, manifest,
    passedProtocol, compared, editsProtocol>>
accountVars == <<kindAccount, at, sentAccount, handling, told, checkout, order, session,
    ownerAccount, lapsed, pcAccount, captured, correct>>
fixtureVars == <<commandFixture, pcFixture, module, test, todo, careful, good, status,
    redisFixture, stopped, backendFixture, forced, busyFixture, broken,
    modules, commands, faultsFixture>>
startupVars == <<dual, pcStartup, k6Startup, compose, goodStartup, warmedStartup, refused,
    seen, errorsStartup, overdueStartup, raised, ran, absent, faultsStartup>>

(* Only the tool that is looked at begins in more than one way.            *)
ToolsInit ==
    /\ system \in Systems
    /\ Init /\ (system = "Run" \/ mode = "core")
    /\ Inputs!Init /\ (system = "Inputs" \/ t = Targets)
    /\ Pools!Init /\ (system = "Pools" \/ args = Steady)
    /\ Activity!Init /\ (system = "Activity" \/ user = "light")
    /\ Stack!Init /\ SeatMap!Init /\ Qualify!Init /\ Release!Init /\ Smoke!Init
    /\ Protocol!Init /\ Fixture!Init
    /\ Startup!Init /\ (system = "Startup" \/ (~dual /\ k6Startup["old"] = "none"))
    /\ Account!Init /\ (system = "Account" \/ kindAccount = "order")

(* What the other tools keep.                                              *)
OthersOfRun == <<system, stackVars, seatMapVars, qualifyVars, releaseVars, inputsVars,
    smokeVars, poolsVars, activityVars, protocolVars, accountVars,
    fixtureVars, startupVars>>
OthersOfStack == <<system, vars, seatMapVars, qualifyVars, releaseVars, inputsVars,
    smokeVars, poolsVars, activityVars, protocolVars, accountVars,
    fixtureVars, startupVars>>
OthersOfSeatMap == <<system, vars, stackVars, qualifyVars, releaseVars, inputsVars,
    smokeVars, poolsVars, activityVars, protocolVars, accountVars,
    fixtureVars, startupVars>>
OthersOfQualify == <<system, vars, stackVars, seatMapVars, releaseVars, inputsVars,
    smokeVars, poolsVars, activityVars, protocolVars, accountVars,
    fixtureVars, startupVars>>
OthersOfRelease == <<system, vars, stackVars, seatMapVars, qualifyVars, inputsVars,
    smokeVars, poolsVars, activityVars, protocolVars, accountVars,
    fixtureVars, startupVars>>
OthersOfInputs == <<system, vars, stackVars, seatMapVars, qualifyVars, releaseVars,
    smokeVars, poolsVars, activityVars, protocolVars, accountVars,
    fixtureVars, startupVars>>
OthersOfSmoke == <<system, vars, stackVars, seatMapVars, qualifyVars, releaseVars,
    inputsVars, poolsVars, activityVars, protocolVars, accountVars,
    fixtureVars, startupVars>>
OthersOfPools == <<system, vars, stackVars, seatMapVars, qualifyVars, releaseVars,
    inputsVars, smokeVars, activityVars, protocolVars, accountVars,
    fixtureVars, startupVars>>
OthersOfActivity == <<system, vars, stackVars, seatMapVars, qualifyVars, releaseVars,
    inputsVars, smokeVars, poolsVars, protocolVars, accountVars,
    fixtureVars, startupVars>>
OthersOfProtocol == <<system, vars, stackVars, seatMapVars, qualifyVars, releaseVars,
    inputsVars, smokeVars, poolsVars, activityVars, accountVars,
    fixtureVars, startupVars>>
OthersOfAccount == <<system, vars, stackVars, seatMapVars, qualifyVars, releaseVars,
    inputsVars, smokeVars, poolsVars, activityVars, protocolVars,
    fixtureVars, startupVars>>
OthersOfFixture == <<system, vars, stackVars, seatMapVars, qualifyVars, releaseVars,
    inputsVars, smokeVars, poolsVars, activityVars, protocolVars,
    accountVars, startupVars>>
OthersOfStartup == <<system, vars, stackVars, seatMapVars, qualifyVars, releaseVars,
    inputsVars, smokeVars, poolsVars, activityVars, protocolVars,
    accountVars, fixtureVars>>

ToolsNext ==
    \/ system = "Run" /\ Next /\ UNCHANGED OthersOfRun
    \/ system = "Stack" /\ Stack!Next /\ UNCHANGED OthersOfStack
    \/ system = "SeatMap" /\ SeatMap!Next /\ UNCHANGED OthersOfSeatMap
    \/ system = "Qualify" /\ Qualify!Next /\ UNCHANGED OthersOfQualify
    \/ system = "Release" /\ Release!Next /\ UNCHANGED OthersOfRelease
    \/ system = "Inputs" /\ Inputs!Next /\ UNCHANGED OthersOfInputs
    \/ system = "Smoke" /\ Smoke!Next /\ UNCHANGED OthersOfSmoke
    \/ system = "Pools" /\ Pools!Next /\ UNCHANGED OthersOfPools
    \/ system = "Activity" /\ Activity!Next /\ UNCHANGED OthersOfActivity
    \/ system = "Protocol" /\ Protocol!Next /\ UNCHANGED OthersOfProtocol
    \/ system = "Account" /\ Account!Next /\ UNCHANGED OthersOfAccount
    \/ system = "Fixture" /\ Fixture!Next /\ UNCHANGED OthersOfFixture
    \/ system = "Startup" /\ Startup!Next /\ UNCHANGED OthersOfStartup

(* The fairness of every tool.                                             *)
everything == <<system, vars, stackVars, seatMapVars, qualifyVars, releaseVars,
                inputsVars, smokeVars, poolsVars, activityVars,
                protocolVars, accountVars, fixtureVars, startupVars>>

(* A step of a tool's own process, and of the time that its deadlines      *)
(* measure; the generators and the systems under test are not fair.        *)
Work ==
    \/ system = "Run" /\ Coordinator /\ UNCHANGED OthersOfRun
    \/ system = "Stack" /\ (Stack!PlanNext \/ Stack!RunNext) /\ UNCHANGED OthersOfStack
    \/ system = "SeatMap" /\ SeatMap!Main /\ UNCHANGED OthersOfSeatMap
    \/ system = "Qualify" /\ Qualify!Step("first") /\ UNCHANGED OthersOfQualify
    \/ system = "Smoke" /\ Smoke!Progress /\ UNCHANGED OthersOfSmoke
    \/ system = "Activity" /\ Activity!Owner /\ UNCHANGED OthersOfActivity
    \/ system = "Startup" /\ Startup!Startup /\ UNCHANGED OthersOfStartup

Time ==
    \/ system = "Run" /\ Tick /\ UNCHANGED OthersOfRun
    \/ system = "SeatMap" /\ SeatMap!Deadline /\ UNCHANGED OthersOfSeatMap
    \/ system = "Qualify" /\ Qualify!Deadline("first") /\ UNCHANGED OthersOfQualify
    \/ system = "Smoke" /\ Smoke!Deadline /\ UNCHANGED OthersOfSmoke
    \/ system = "Startup" /\ Startup!HourPasses /\ UNCHANGED OthersOfStartup

ToolsFairness == WF_everything(Work) /\ WF_everything(Time)

ToolsSpec == ToolsInit /\ [][ToolsNext]_everything /\ ToolsFairness

-----------------------------------------------------------------------------
(* No unit of a run of the two-host test loads before or apart from the    *)
(* others, and none goes on when the run is over, or is alive while its    *)
(* evidence is read (phase14_core.arm, execute_case of run_phase14.py).    *)
LoadStaysInHand == LoadIsCoordinated /\ NothingRunsAfterwards

(* A run that passes had met its thresholds on its own data, and left the  *)
(* stack as it found it (run_k6.py, main and its finally), and none of the *)
(* two-host test passes that was stopped for a reason (run_phase14.py,     *)
(* verdict). A case that is                                                *)
(* reconciled was counted exactly (phase14_verify.py), a measurement of the*)
(* fixed protocol that passed loaded the stack, alone, and what its gate   *)
(* accepts of a load is of one measurement (phase18 protocol.py,           *)
(* phase18_ab_gate.py), and a suite that returns 0 is whole                *)
(* (phase14_regression.py).                                                *)
PassedRunIsTrustworthy ==
    /\ PassedMeansClean
    /\ Stack!PassedRunIsTrustworthy /\ Stack!PassedRunRestoresTheStack
    /\ Account!CountedIsStored
    /\ Protocol!PassedOnce /\ Protocol!LoadIsOfOneTrial
    /\ Fixture!PassedSuiteIsWhole

(* Every run loads the stack its workload and plan declare (run_baseline.py*)
(* and run_login_experiment.py), the difference of counters that a passed  *)
(* seat-map run reports is its load (calibrate_seat_map.py,                *)
(* characterize_seat_map_capacity.py), and the swap gate opens only on a   *)
(* host that earned it (phase14_stop_approved_projects.py). The evidence   *)
(* beside a run is its own (run_entry and run of run_login_experiment.py). *)
MeasuredAsDeclared ==
    /\ Stack!MeasuredOnDeclaredStack /\ Stack!EvidenceIsOfItsRun
    /\ SeatMap!WindowIsTheLoads
    /\ Release!GateIsEarned

(* A sample is the answer to its own question, and a report without errors *)
(* is of a sampling that left nothing behind (phase14_pg_stream.py).       *)
SamplesAreAnswers == Activity!AnswersAreTheirs /\ Activity!CleanMeansClosed

(* What was planned is delivered, exactly, in the shares and to the seats  *)
(* that the targets ask for, out of files that list what was generated     *)
(* (phase14_model.py, run_phase14.py, generate_dataset.py). Those that     *)
(* write have users and seats of their own: the journeys of a planned case *)
(* (phase14-flow.js), and the iterations of a run (run_k6.py).             *)
PlannedIsDelivered ==
    /\ Inputs!PlannedIsDelivered /\ Inputs!HotspotIsExact /\ Inputs!ExportIsTheDataset
    /\ Inputs!WritersNeverMeet /\ Pools!PoolsAreOneShot
    /\ Stack!DatasetIsNamedLast

(* Every case of the smoke campaign begins on the prepared data            *)
(* (run_phase14.py, Environment.reset), every burst of the fixed protocol  *)
(* on a free seat (protocol.py, burst), every module of tests with Redis   *)
(* running (phase14_regression.py, main), and a timed load over background *)
(* users with every one of them warmed (phase14_startup.py).               *)
CaseStartsClean ==
    /\ Smoke!CaseStartsClean /\ Protocol!BurstFindsItsSeat /\ Fixture!ModulesFindRedis
    /\ Startup!WarmBeforeLoad /\ Startup!TroubleIsItsOwn

(* A smoke campaign that returns 0 is whole (run_phase14.py, campaign).    *)
WholeCampaign == Smoke!WholeCampaign

(* A tool takes away what it created, all of it and nothing else, however  *)
(* its work fails: a seat-map run stops its generator, in the except of    *)
(* calibrate_seat_map.py and of characterize_seat_map_capacity.py, unless  *)
(* the tool is interrupted or docker does not stop it; a qualification     *)
(* point its containers, but not those of another point of the same name   *)
(* (the finally of phase19 protocol/calibrate.py); and the backend whose   *)
(* payments fail is not left beside the usual one (the finally of          *)
(* run_failure, phase14_regression.py).  Of the last two nothing is        *)
(* promised when they are killed, or the commands that take away fail.     *)
ToolsCleanUp ==
    /\ [](SeatMap!LoadStopsWithTheTool /\ Qualify!NothingIsLeft /\ Fixture!OneBackend)
    /\ Qualify!NothingForeignIsRemoved

(* What is at work comes to an end, though generators hang and whatever    *)
(* fails, because a deadline sees to it: a run (run_phase14.py), a plan    *)
(* (run_baseline.py), the loop of a capacity run, a qualification point,   *)
(* a smoke campaign, a sampler that was told to stop, and the warming of   *)
(* the background users.                                                   *)
Busy ==
    \/ system = "Run" /\ pc # "over"
    \/ pcStack # "idle"
    \/ pcSeatMap = "loop" /\ tool = "capacity"
    \/ system = "Qualify" /\ ~Qualify!Over("first")
    \/ pcSmoke # "off"
    \/ system = "Activity" /\ pcActivity # "ended" /\ (user = "light" => done)
    \/ system = "Startup" /\ ~Startup!Over

EveryToolEnds == Busy ~> ~Busy
=============================================================================
