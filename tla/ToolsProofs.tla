----------------------------- MODULE ToolsProofs -----------------------------
(***************************************************************************)
(* Proofs about the tools around the load tests: what a run, a sampler, a  *)
(* plan, a seat-map run, a smoke campaign, a suite of tests, the fixed     *)
(* protocol, the reconciliation of the journeys, the release of host       *)
(* resources and the warming of users report is true, and the tools leave  *)
(* behind what they promise to leave behind.  For any numbers of           *)
(* units, plans, runs, trials, samples, users, crashes, faults and changes;*)
(* of the plans, suites and jobs of MCTools the proofs use no more than    *)
(* InstancesAreValid says.                                                 *)
(***************************************************************************)
EXTENDS MCTools, FiniteSetTheorems, SequenceTheorems, TLAPS

LEMMA TwoInARow ==
    ASSUME NEW S, NEW x \in S, NEW y \in S
    PROVE  Append(<<x>>, y) = <<x, y>>
<1> DEFINE appended == Append(<<x>>, y)
           pair == <<x, y>>
<1>1. appended \in Seq(S) /\ pair \in Seq(S) /\ Len(appended) = 2 /\ Len(pair) = 2
  OBVIOUS
<1>2. \A i \in 1 .. 2 : appended[i] = pair[i]
  OBVIOUS
<1>3. appended = pair
  <2> HIDE DEF appended, pair
  <2>1. QED
    BY <1>1, <1>2, SeqEqual
<1>4. QED
  BY <1>3

-----------------------------------------------------------------------------
(* A run of the two-host load test. *)

Preparing == {"reset", "calibrate", "warm", "arm"}
Starting == {"launch", "check", "look", "leave", "abort"}
Loading == {"watch", "stop", "reap", "cleanup", "drain", "judge"}

\* The units and how many of them were started and seen ready.
Counted ==
    /\ gen \in [Unit -> Alive \cup {"none", "stopped", "exited", "crashed"}]
    /\ started \in 0 .. N /\ ready \in 0 .. started

\* Until the units are started there are none, and no deadline runs; nothing is started
\* before the restored database is there.
PreparedFirst ==
    /\ pc \in Preparing => clock = "init" /\ ready = 0 /\ \A u \in Unit : gen[u] = "none"
    /\ pc \notin {"reset", "over"} =>
          database = "baseline" \/ (pc = "caller" /\ \A u \in Unit : gen[u] = "none")

\* The coordinator looks for the marker of a unit that was started, and leaves the
\* initialization without an exception only when it has seen all of them.
SeenInOrder ==
    /\ pc \in {"check", "look"} => ready < started
    /\ pc = "leave" /\ ~failing => ready = N

\* As long as a unit is missing in a core campaign no unit has sent a request, and either
\* the release has not come or no unit is left to see it.
NoneAlone ==
    Core /\ ready # N =>
        /\ \A u \in Unit : gen[u] \notin {"load", "exited"}
        /\ IF pc \in Preparing \cup Starting THEN clock \in {"init", "guard"}
                                             ELSE \A u \in Unit : gen[u] \notin Alive

\* A container that was started can be inspected, and when the samplers drain every unit has
\* exited.
NoneLeft ==
    /\ \A u \in Unit : gen[u] # "starting"
    /\ pc \in {"drain", "judge", "over"} => AllExited

\* The inductive invariant of a run.
InHand == Counted /\ PreparedFirst /\ SeenInOrder /\ NoneAlone /\ NoneLeft

\* Whatever failed is a reason when the run is judged, and no thread adds one after that.
ReasonsAreKnown ==
    /\ pc \in Preparing => watcher = "off"
    /\ pc \in Starting \cup {"join"} => watcher # "off"
    /\ pc \in Preparing \cup Starting \cup {"join"} => record = "none"
    /\ pc \in Loading => record # "none" /\ (record # "pass" => "error" \in reasons)
    /\ record = "pass" => watcher \notin {"off", "sampling"}
    /\ pc = "judge" => light \in {"failed", "stopped"} /\ (light = "failed" => "light" \in reasons)
    /\ result = "pass" => pc = "over"
    /\ PassedMeansClean

LEMMA NIsPositive == N \in Nat /\ N > 0
  BY ConstantsAssumption

LEMMA LoadStarts == Init => InHand /\ Counted /\ ReasonsAreKnown
<1> SUFFICES ASSUME Init PROVE InHand /\ Counted /\ ReasonsAreKnown
  OBVIOUS
<1> USE NIsPositive DEF Init
<1>1. Counted
  BY DEF Counted
<1>2. PreparedFirst /\ SeenInOrder /\ NoneAlone /\ NoneLeft
  BY DEF PreparedFirst, SeenInOrder, NoneAlone, NoneLeft, Preparing
<1>3. ReasonsAreKnown
  BY DEF ReasonsAreKnown, Preparing, Starting, Loading, PassedMeansClean
<1>4. QED
  BY <1>1, <1>2, <1>3 DEF InHand

\* What a generator does, and what a stop does, unit by unit.
LEMMA GeneratorShape ==
    ASSUME Counted, NEW u \in Unit, Generator(u)
    PROVE  /\ gen[u] \in Alive /\ gen'[u] # "starting"
           /\ gen[u] = "starting" => gen'[u] \in {"init", "crashed"}
           /\ gen[u] # "starting" => gen'[u] \in {"ready", "load", "exited", "crashed"}
           /\ gen'[u] = "load" => clock \in {"business", "late"}
           /\ gen'[u] = "exited" => gen[u] = "load"
           /\ gen' \in [Unit -> Alive \cup {"none", "stopped", "exited", "crashed"}]
           /\ \A v \in Unit : v # u => gen'[v] = gen[v]
           /\ UNCHANGED <<mode, clock, pc, database, started, ready, watcher, leaving,
                          failing, light, host, reasons, record, result>>
           /\ faulty' # faulty => gen[u] = "load"
  BY DEF Counted, Generator, Moves, Alive, Running

LEMMA StopShape ==
    ASSUME Counted, StopGenerators
    PROVE  /\ gen' \in [Unit -> Alive \cup {"none", "stopped", "exited", "crashed"}]
           /\ \A u \in Unit : gen'[u] = IF gen[u] \in Running THEN "stopped" ELSE gen[u]
  BY DEF Counted, StopGenerators

LEMMA CountsAreKept == Counted /\ SeenInOrder /\ [Next]_vars => Counted'
<1> SUFFICES ASSUME Counted, SeenInOrder, [Next]_vars PROVE Counted'
  OBVIOUS
<1> USE NIsPositive
<1>1. CASE UNCHANGED <<gen, started, ready>>
  BY <1>1 DEF Counted, Unit
<1>2. CASE Launch
  <2>1. CASE started < N
    <3>1. started + 1 \in Unit /\ started + 1 \in 0 .. N
      BY <2>1 DEF Counted, Unit
    <3>2. /\ gen' \in [Unit -> Alive \cup {"none", "stopped", "exited", "crashed"}]
          /\ started' \in {started, started + 1} /\ ready' = ready
      BY <1>2, <3>1 DEF Launch, Counted, Alive, Running
    <3>3. QED
      BY <3>1, <3>2 DEF Counted, Unit
  <2>2. CASE ~(started < N)
    BY <1>1, <1>2, <2>2 DEF Launch
  <2>3. QED
    BY <2>1, <2>2
<1>3. CASE Look
  <2>1. UNCHANGED <<gen, started>> /\ ready' \in {ready, ready + 1} /\ ready < started
    BY <1>3 DEF Look, SeenInOrder
  <2>2. QED
    BY <2>1 DEF Counted, Unit
<1>4. ASSUME StopGenerators, UNCHANGED <<started, ready>> PROVE Counted'
  BY <1>4, StopShape DEF Counted, Unit
<1>5. ASSUME NEW u \in Unit, Generator(u) PROVE Counted'
  BY <1>5, GeneratorShape DEF Counted, Unit
<1>6. CASE Coordinator
  <2>1. CASE Abort \/ Stop \/ Cleanup \/ Caller
    BY <1>1, <1>4, <2>1 DEF Abort, Stop, Cleanup, Caller
  <2>2. CASE Reset \/ Calibrate \/ Warm \/ Arm \/ Check \/ Leave \/ Join
    BY <1>1, <2>2 DEF Reset, Calibrate, Warm, Arm, Check, Leave, Join
  <2>3. CASE Watch \/ Reap \/ Drain \/ Judge
    BY <1>1, <2>3 DEF Watch, Reap, Drain, Judge
  <2>4. QED
    BY <1>2, <1>3, <1>6, <2>1, <2>2, <2>3 DEF Coordinator
<1>7. CASE Observe \/ LightFails \/ Tick \/ HostTrouble \/ UNCHANGED vars
  BY <1>1, <1>7 DEF Observe, LightFails, Tick, HostTrouble, vars
<1>8. QED
  BY <1>5, <1>6, <1>7 DEF Next

\* The stops reach the generators: the commands that stop them do not fail, and a container
\* that was started can be inspected.
StopsReach == ~StopsFail /\ ~SlowStart

LEMMA InHandIsKept == StopsReach /\ InHand /\ [Next]_vars => InHand'
<1> SUFFICES ASSUME StopsReach, InHand, [Next]_vars PROVE InHand'
  OBVIOUS
<1> USE NIsPositive DEF InHand
<1>1. Counted'
  BY CountsAreKept
<1>2. /\ \A u \in Unit : gen[u] \in Alive => gen[u] \in Running
      /\ started \in Nat /\ ready \in Nat /\ ready <= started /\ started <= N
  <2>1. started \in Nat /\ ready \in Nat /\ ready <= started /\ started <= N
    BY DEF Counted
  <2>2. QED
    BY <2>1 DEF NoneLeft, Alive
\* The coordinator goes on, and no generator does.
<1>3. ASSUME UNCHANGED <<mode, clock, gen, started, ready>>,
             Core /\ ready # N =>
                 IF pc' \in Preparing \cup Starting THEN pc \in Preparing \cup Starting
                                                   ELSE \A u \in Unit : gen[u] \notin Alive,
             pc' \in Preparing => pc \in Preparing,
             pc' # "reset",
             \/ pc' = "over"
             \/ database' = "baseline"
             \/ pc' = "caller" /\ \A u \in Unit : gen[u] = "none",
             pc' \in {"check", "look"} => ready < started,
             pc' = "leave" => failing' \/ ready = N,
             pc' \in {"drain", "judge", "over"} => AllExited
      PROVE  InHand'
  <2>1. PreparedFirst'
    BY <1>3 DEF PreparedFirst, Unit
  <2>2. SeenInOrder'
    BY <1>3 DEF SeenInOrder
  <2>3. NoneAlone'
    BY <1>3 DEF NoneAlone, Core, Unit, Alive, Running
  <2>4. NoneLeft'
    BY <1>3 DEF NoneLeft, AllExited, Alive, Running, Unit
  <2>5. QED
    BY <1>1, <2>1, <2>2, <2>3, <2>4
<1>4. /\ pc \in Preparing => \A u \in Unit : gen[u] = "none"
      /\ Core /\ ready # N /\ pc \notin Preparing \cup Starting => \A u \in Unit : gen[u] \notin Alive
      /\ (\A u \in Unit : gen[u] = "none") => AllExited
  BY DEF PreparedFirst, NoneAlone, AllExited, Alive, Running
<1>5. CASE Reset \/ Calibrate \/ Warm
  <2>1. CASE Raised
    BY <1>3, <1>4, <1>5, <2>1
       DEF Reset, Calibrate, Warm, Raised, Preparing, Starting, Alive, Running
  <2>2. CASE ~Raised
    BY <1>3, <1>5, <2>2 DEF Reset, Calibrate, Warm, Preparing, Starting, PreparedFirst
  <2>3. QED
    BY <2>1, <2>2
<1>6. CASE Arm
  BY <1>3, <1>6 DEF Arm, Preparing, Starting, PreparedFirst
<1>7. CASE Check \/ Leave
  BY <1>3, <1>7 DEF Check, Leave, Fails, Preparing, Starting, PreparedFirst, SeenInOrder
<1>8. CASE Join \/ Watch \/ Reap
  BY <1>3, <1>4, <1>8 DEF Join, Watch, Reap, Preparing, Starting, PreparedFirst
<1>9. CASE Drain
  <2>1. AllExited /\ database = "baseline" /\ pc' = "judge" /\ UNCHANGED <<mode, clock, gen, started, ready, database>>
    BY <1>9 DEF Drain, NoneLeft, PreparedFirst
  <2>2. QED
    BY <1>3, <1>9, <2>1 DEF AllExited, Preparing, Starting
<1>10. CASE Judge
  <2>1. AllExited /\ database = "baseline" /\ UNCHANGED <<mode, clock, gen, started, ready>>
        /\ pc' \in {"caller", "over"} /\ (pc' = "caller" => UNCHANGED database)
    BY <1>10 DEF Judge, Raised, NoneLeft, PreparedFirst
  <2>2. QED
    BY <1>3, <2>1 DEF AllExited, Preparing, Starting
\* The generators are stopped, and all of them can be.
<1>11. ASSUME StopGenerators, UNCHANGED <<mode, clock, started, ready>>,
              pc' \in {"join", "reap", "drain", "over"}, pc' = "over" \/ database' = "baseline"
       PROVE  InHand'
  <2>1. \A u \in Unit : gen'[u] \notin Alive /\ gen'[u] \in {gen[u], "stopped"}
    BY <1>2, <1>11, StopShape DEF Alive, Running
  <2>2. PreparedFirst' /\ SeenInOrder'
    BY <1>11 DEF PreparedFirst, SeenInOrder, Preparing
  <2>3. NoneAlone'
    BY <1>11, <2>1 DEF NoneAlone, Core, Preparing, Starting, Unit
  <2>4. NoneLeft'
    BY <2>1 DEF NoneLeft, AllExited, Alive, Unit
  <2>5. QED
    BY <1>1, <2>2, <2>3, <2>4
<1>12. CASE Abort \/ Stop \/ Cleanup \/ Caller
  BY <1>11, <1>12 DEF StopsReach, Abort, Stop, Cleanup, Caller, PreparedFirst
<1>13. CASE Launch
  <2>1. CASE Fails /\ UNCHANGED <<gen, started>>
    BY <1>3, <1>13, <2>1 DEF Launch, Fails, Preparing, Starting, PreparedFirst
  <2>2. CASE started < N /\ started' = started + 1
    <3>1. /\ pc = "launch" /\ pc' \in {"launch", "check"} /\ started' = started + 1
          /\ gen' = [gen EXCEPT ![started + 1] = "init"]
          /\ UNCHANGED <<mode, clock, database, ready, failing>>
      BY <1>2, <1>13, <2>2 DEF Launch, StopsReach
    <3>2. \A u \in Unit : gen'[u] \in {gen[u], "init"}
      BY <3>1 DEF Counted
    <3>3. PreparedFirst' /\ SeenInOrder'
      BY <1>2, <2>2, <3>1 DEF PreparedFirst, SeenInOrder, Preparing
    <3>4. NoneAlone' /\ NoneLeft'
      BY <3>1, <3>2 DEF NoneAlone, NoneLeft, Core, Starting, Unit
    <3>5. QED
      BY <1>1, <3>3, <3>4
  <2>3. QED
    BY <1>13, <2>1, <2>2 DEF Launch
<1>14. CASE Look
  <2>1. /\ ready < started /\ ready' \in {ready, ready + 1}
        /\ pc' \in {"leave", "launch", "check"}
        /\ pc' = "check" => ready' < started
        /\ pc' = "leave" => ready' = N
        /\ pc \in Starting /\ pc = "look" /\ database = "baseline"
        /\ UNCHANGED <<mode, clock, gen, started, database>>
    BY <1>2, <1>14 DEF Look, SeenInOrder, Starting, PreparedFirst
  <2>2. PreparedFirst' /\ SeenInOrder' /\ NoneLeft'
    BY <2>1 DEF PreparedFirst, SeenInOrder, NoneLeft, Preparing, Unit
  <2>3. NoneAlone'
    BY <1>2, <2>1 DEF NoneAlone, Core, Starting, Unit
  <2>4. QED
    BY <1>1, <2>2, <2>3
<1>15. CASE Tick
  <2>1. /\ UNCHANGED <<mode, pc, database, gen, started, ready, failing>>
        /\ pc \notin Preparing /\ pc # "reset" /\ pc # "over"
        /\ Core /\ clock = "init" => clock' = "guard"
        /\ clock = "guard" => pc \notin Starting
    BY <1>15 DEF Tick, Preparing, Starting
  <2>2. PreparedFirst' /\ SeenInOrder' /\ NoneLeft'
    BY <2>1 DEF PreparedFirst, SeenInOrder, NoneLeft, AllExited, Unit
  <2>3. NoneAlone'
    BY <2>1 DEF NoneAlone, Core, Unit
  <2>4. QED
    BY <1>1, <2>2, <2>3
<1>16. ASSUME NEW u \in Unit, Generator(u) PROVE InHand'
  <2>1. /\ gen[u] \in Running /\ gen'[u] # "starting"
        /\ gen'[u] = "load" => clock \in {"business", "late"}
        /\ gen'[u] = "exited" => gen[u] = "load"
        /\ \A v \in Unit : v # u => gen'[v] = gen[v]
        /\ UNCHANGED <<mode, clock, pc, database, started, ready, failing>>
    BY <1>2, <1>16, GeneratorShape
  <2>2. pc \notin Preparing \cup {"drain", "judge", "over"} /\ gen[u] # "none"
    BY <1>4, <2>1 DEF NoneLeft, AllExited, Alive, Running
  <2>3. PreparedFirst' /\ SeenInOrder'
    BY <2>1, <2>2 DEF PreparedFirst, SeenInOrder
  <2>4. NoneAlone'
    <3>1. ASSUME Core, ready # N
          PROVE  pc \in Starting /\ gen[u] # "load" /\ clock \in {"init", "guard"}
      BY <1>2, <2>1, <2>2, <3>1 DEF NoneAlone, Alive
    <3>2. QED
      BY <2>1, <3>1 DEF NoneAlone, Core, Unit
  <2>5. NoneLeft'
    BY <2>1, <2>2 DEF NoneLeft, Unit
  <2>6. QED
    BY <1>1, <2>3, <2>4, <2>5
<1>17. CASE Observe \/ LightFails \/ HostTrouble \/ UNCHANGED vars
  <2>1. UNCHANGED <<mode, clock, pc, database, gen, started, ready, failing>>
    BY <1>17 DEF Observe, LightFails, HostTrouble, vars
  <2>2. QED
    BY <1>1, <2>1 DEF PreparedFirst, SeenInOrder, NoneAlone, NoneLeft, AllExited, Core, Unit
<1>18. QED
  BY <1>5, <1>6, <1>7, <1>8, <1>9, <1>10, <1>12, <1>13, <1>14, <1>15, <1>16, <1>17
     DEF Next, Coordinator

LEMMA ReasonsAreKept == Counted /\ ReasonsAreKnown /\ [Next]_vars => ReasonsAreKnown'
<1> SUFFICES ASSUME Counted, ReasonsAreKnown, [Next]_vars PROVE ReasonsAreKnown'
  OBVIOUS
<1> USE NIsPositive DEF ReasonsAreKnown
<1>0. PassedMeansClean' \/ result' = "pass"
  BY DEF PassedMeansClean
\* Up to the load.
<1>1. CASE Reset \/ Calibrate \/ Warm \/ Arm
  BY <1>0, <1>1 DEF Reset, Calibrate, Warm, Arm, Raised, Preparing, Starting, Loading
<1>2. CASE Launch \/ Check \/ Look \/ Leave \/ Abort
  BY <1>0, <1>2 DEF Launch, Check, Look, Leave, Abort, Fails, Preparing, Starting, Loading
<1>3. CASE Join
  BY <1>0, <1>3 DEF Join, InitializationFailed, Preparing, Starting, Loading
\* The load and its end.
<1>4. CASE Watch
  BY <1>0, <1>4 DEF Watch, Preparing, Starting, Loading
<1>5. CASE Stop \/ Reap \/ Cleanup \/ Drain
  BY <1>0, <1>5 DEF Stop, Reap, Cleanup, Drain, Raised, Preparing, Starting, Loading
<1>6. CASE Judge
  <2>1. /\ pc = "judge" /\ pc' \in {"over", "caller"}
        /\ result' = "pass" => reasons = {} /\ Delivered /\ ~faulty /\ pc' = "over"
        /\ UNCHANGED <<gen, watcher, light, faulty, reasons, record>>
    BY <1>6 DEF Judge, Passed, Raised
  <2>2. PassedMeansClean'
    BY <2>1 DEF PassedMeansClean, Delivered, Loading, Unit
  <2>3. QED
    BY <2>1, <2>2 DEF Preparing, Starting, Loading
<1>7. CASE Caller
  BY <1>0, <1>7 DEF Caller, Preparing, Starting, Loading
\* What goes on beside the coordinator.
<1>8. CASE Observe
  <2>1. /\ watcher = "sampling" /\ watcher' \in {"sampling", "failed", "left"}
        /\ reasons \subseteq reasons'
        /\ UNCHANGED <<pc, light, record, result>>
    BY <1>8 DEF Observe
  <2>2. record # "pass" /\ result # "pass"
    BY <2>1 DEF PassedMeansClean
  <2>3. QED
    BY <2>1, <2>2 DEF PassedMeansClean, Preparing
<1>9. CASE LightFails
  BY <1>9 DEF LightFails, PassedMeansClean
<1>10. CASE Tick \/ HostTrouble \/ UNCHANGED vars
  BY <1>10 DEF Tick, HostTrouble, PassedMeansClean, Unit, vars
<1>11. ASSUME NEW u \in Unit, Generator(u) PROVE ReasonsAreKnown'
  <2>1. result # "pass"
    BY <1>11, GeneratorShape DEF PassedMeansClean, Alive, Running
  <2>2. UNCHANGED <<pc, watcher, light, reasons, record, result>>
    BY <1>11, GeneratorShape
  <2>3. QED
    BY <2>1, <2>2 DEF PassedMeansClean
<1>12. QED
  BY <1>1, <1>2, <1>3, <1>4, <1>5, <1>6, <1>7, <1>8, <1>9, <1>10, <1>11 DEF Next, Coordinator

LEMMA LoadSteps == [ToolsNext]_everything => [Next]_vars
  BY DEF ToolsNext, everything, OthersOfActivity,
     OthersOfStack, OthersOfSeatMap, OthersOfQualify, OthersOfRelease, OthersOfInputs, OthersOfPools,
     OthersOfSmoke, OthersOfProtocol, OthersOfAccount, OthersOfFixture, OthersOfStartup

\* While the commands that stop the generators work, no unit loads apart from the others or
\* before the database is restored, and none goes on when the run is over.
THEOREM LoadStaysInHandCorrect == StopsReach => (ToolsSpec => []LoadStaysInHand)
<1> SUFFICES ASSUME StopsReach PROVE ToolsSpec => []LoadStaysInHand
  OBVIOUS
<1>1. ToolsInit => InHand
  BY LoadStarts DEF ToolsInit
<1>2. InHand /\ [ToolsNext]_everything => InHand'
  BY InHandIsKept, LoadSteps
<1>3. InHand => LoadStaysInHand
  BY DEF InHand, PreparedFirst, NoneAlone, NoneLeft, LoadStaysInHand, LoadIsCoordinated,
     NothingRunsAfterwards, Preparing
<1>4. QED
  BY <1>1, <1>2, <1>3, PTL DEF ToolsSpec

LEMMA OrderIsKept == Counted /\ SeenInOrder /\ [Next]_vars => SeenInOrder'
<1> SUFFICES ASSUME Counted, SeenInOrder, [Next]_vars PROVE SeenInOrder'
  OBVIOUS
<1> USE NIsPositive
<1>0. started \in Nat /\ ready \in Nat /\ ready <= started /\ started <= N
  BY DEF Counted
<1>1. CASE UNCHANGED <<pc, started, ready, failing>>
  BY <1>1 DEF SeenInOrder
<1>2. CASE Reset \/ Calibrate \/ Warm \/ Arm
  BY <1>2 DEF Reset, Calibrate, Warm, Arm, Raised, SeenInOrder
<1>3. CASE Launch
  <2>1. pc' \in {"launch", "check", "leave"} /\ ready' = ready
        /\ (pc' = "check" => started' = started + 1) /\ (pc' = "leave" => failing')
    BY <1>3 DEF Launch, Fails
  <2>2. QED
    BY <1>0, <2>1 DEF SeenInOrder
<1>4. CASE Check \/ Leave
  BY <1>4 DEF Check, Leave, Fails, SeenInOrder
<1>5. CASE Look
  BY <1>0, <1>5 DEF Look, SeenInOrder
<1>6. CASE Abort \/ Join \/ Watch \/ Stop \/ Reap
  BY <1>6 DEF Abort, Join, Watch, Stop, Reap, SeenInOrder
<1>7. CASE Cleanup \/ Drain \/ Judge \/ Caller
  BY <1>7 DEF Cleanup, Drain, Judge, Caller, Raised, SeenInOrder
<1>8. CASE Observe \/ LightFails \/ Tick \/ HostTrouble \/ UNCHANGED vars
  BY <1>1, <1>8 DEF Observe, LightFails, Tick, HostTrouble, vars
<1>9. ASSUME NEW u \in Unit, Generator(u) PROVE SeenInOrder'
  BY <1>1, <1>9 DEF Generator
<1>10. QED
  BY <1>2, <1>3, <1>4, <1>5, <1>6, <1>7, <1>8, <1>9 DEF Next, Coordinator

\* A run of the two-host test that passes was not stopped for a reason, lost no unit and was
\* sampled to its end, whether the commands that stop the generators fail or not
\* (run_phase14.py, finish_case and verdict).
LEMMA PassedRunsAreClean == ToolsSpec => []PassedMeansClean
<1> DEFINE Judged == Counted /\ SeenInOrder /\ ReasonsAreKnown
<1>1. ToolsInit => Judged
  BY LoadStarts DEF ToolsInit, InHand
<1>2. Judged /\ [ToolsNext]_everything => Judged'
  BY CountsAreKept, OrderIsKept, ReasonsAreKept, LoadSteps
<1>3. Judged => PassedMeansClean
  BY DEF ReasonsAreKnown
<1> HIDE DEF Judged
<1>4. QED
  BY <1>1, <1>2, <1>3, PTL DEF ToolsSpec

-----------------------------------------------------------------------------
(* The activity sampler. *)

ActivityTypes ==
    /\ user \in {"light", "clock", "host"}
    /\ pcActivity \in {"start", "handshake", "reading", "idle", "close", "quitting", "forced",
                       "joining", "ended"}
    /\ asked \in 0 .. MaxAsked
    /\ knownActivity \in BOOLEAN
    /\ pipe \in Seq(Nat) /\ lines \in Seq(Nat)
    /\ command \in {"none", "up", "down"}
    /\ samplesActivity \in Seq([question : Nat, answer : Nat])
    /\ failed \in BOOLEAN /\ closed \in BOOLEAN
    /\ report \in {"none", "clean", "errors"}

\* One question at a time is on its way, and nothing else.
OneQuestion ==
    /\ pcActivity = "start" => command = "none" /\ pipe = <<>> /\ lines = <<>>
    /\ pcActivity # "start" => command # "none"
    /\ Activity!Waiting /\ command = "up" =>
          \/ pipe = <<asked>> /\ lines = <<>>
          \/ pipe = <<>> /\ lines = <<asked>>
    /\ Activity!Waiting /\ command = "down" =>
          lines \in {<<>>, <<Activity!EndOfLines>>, <<asked, Activity!EndOfLines>>}
    /\ pcActivity = "idle" /\ command = "up" => pipe = <<>> /\ lines = <<>>
    /\ pcActivity = "idle" /\ command = "down" => lines = <<Activity!EndOfLines>>

\* What was recorded is what was asked, but for the question that is open or was given up.
Recorded ==
    /\ Activity!AnswersAreTheirs
    /\ pcActivity \in {"start", "handshake"} => asked = 0
    /\ pcActivity \in {"start", "handshake", "idle"} => Len(samplesActivity) = asked
    /\ pcActivity = "reading" => asked = Len(samplesActivity) + 1
    /\ pcActivity \in {"start", "handshake", "idle", "reading"} => ~failed

\* A sampling that ends without an error ends as it was meant to.
EndsInOrder ==
    /\ ~failed /\ pcActivity \in {"close", "quitting", "forced", "joining", "ended"} =>
          /\ Len(samplesActivity) = asked
          /\ user = "clock" => asked = 1
          /\ user = "host" => asked = MaxAsked
    /\ pcActivity = "joining" => command = "down"
    /\ pcActivity = "ended" /\ ~failed => closed /\ command = "down"
    /\ report = "clean" => pcActivity = "ended" /\ ~failed

ActivityInv == ActivityTypes /\ OneQuestion /\ Recorded /\ EndsInOrder

LEMMA ActivityStarts == Activity!Init => ActivityInv
<1> SUFFICES ASSUME Activity!Init PROVE ActivityInv
  OBVIOUS
<1> USE InstancesAreValid DEF Activity!Init, Activity!ConstantsAssumption
<1>1. ActivityTypes
  <2>1. <<>> \in Seq(Nat) /\ <<>> \in Seq([question : Nat, answer : Nat])
    OBVIOUS
  <2>2. 0 \in 0 .. MaxAsked
    OBVIOUS
  <2>3. QED
    BY <2>1, <2>2 DEF ActivityTypes
<1>2. OneQuestion
  BY DEF OneQuestion, Activity!Waiting
<1>3. Recorded /\ EndsInOrder
  BY DEF Recorded, EndsInOrder, Activity!AnswersAreTheirs
<1>4. QED
  BY <1>1, <1>2, <1>3 DEF ActivityInv

LEMMA ActivityKeeps == ActivityInv /\ [Activity!Next]_(Activity!vars) => ActivityInv'
<1> SUFFICES ASSUME ActivityInv, [Activity!Next]_(Activity!vars) PROVE ActivityInv'
  OBVIOUS
<1> USE DEF ActivityInv
<1>0. MaxAsked \in Nat /\ MaxAsked > 0 /\ Activity!EndOfLines \in Nat /\ Activity!EndOfLines > asked
      /\ Activity!Quit \in Nat /\ Activity!Quit > asked
  BY InstancesAreValid DEF Activity!ConstantsAssumption, Activity!EndOfLines, Activity!Quit, ActivityTypes
<1>1. CASE Activity!Answer
  <2>1. ActivityTypes'
    BY <1>1 DEF Activity!Answer, Activity!owner, ActivityTypes
  <2>2. OneQuestion'
    <3>1. UNCHANGED <<pcActivity, asked, command>> /\ command = "up" /\ pipe # <<>>
          /\ pipe' = Tail(pipe) /\ lines' = Append(lines, Head(pipe))
      BY <1>1 DEF Activity!Answer, Activity!owner
    <3>2. ASSUME Activity!Waiting PROVE pipe' = <<>> /\ lines' = <<asked>>
      <4>1. pipe = <<asked>> /\ lines = <<>>
        BY <3>1, <3>2 DEF OneQuestion
      <4>2. QED
        BY <3>1, <4>1
    <3>3. pcActivity # "idle" /\ pcActivity # "start"
      BY <3>1 DEF OneQuestion
    <3>4. QED
      BY <3>1, <3>2, <3>3 DEF OneQuestion, Activity!Waiting
  <2>3. Recorded' /\ EndsInOrder'
    BY <1>1 DEF Activity!Answer, Activity!owner, Recorded, EndsInOrder, Activity!AnswersAreTheirs
  <2>4. QED
    BY <2>1, <2>2, <2>3
<1>2. CASE Activity!CommandEnds
  <2>0. UNCHANGED <<user, pcActivity, asked, knownActivity, samplesActivity, failed, closed, pipe, done, report>>
        /\ command = "up" /\ command' = "down" /\ lines' = Append(lines, Activity!EndOfLines)
    BY <1>2 DEF Activity!CommandEnds, Activity!owner
  <2>1. ActivityTypes'
    BY <2>0, <1>0 DEF ActivityTypes
  <2>2. OneQuestion'
    <3>1. asked \in Nat
      BY DEF ActivityTypes
    <3>2. ASSUME Activity!Waiting
          PROVE  lines' \in {<<Activity!EndOfLines>>, <<asked, Activity!EndOfLines>>}
      <4>1. CASE lines = <<>>
        BY <2>0, <4>1
      <4>2. CASE lines = <<asked>>
        BY <2>0, <3>1, <4>2, <1>0, TwoInARow
      <4>3. QED
        BY <2>0, <3>2, <4>1, <4>2 DEF OneQuestion
    <3>3. pcActivity = "idle" => lines' = <<Activity!EndOfLines>>
      BY <2>0 DEF OneQuestion
    <3>4. Activity!EndOfLines' = Activity!EndOfLines
      BY DEF Activity!EndOfLines
    <3>5. QED
      BY <2>0, <3>2, <3>3, <3>4 DEF OneQuestion, Activity!Waiting
  <2>3. Recorded' /\ EndsInOrder'
    BY <2>0 DEF Recorded, EndsInOrder, Activity!AnswersAreTheirs
  <2>4. QED
    BY <2>1, <2>2, <2>3
<1>3. CASE Activity!Quits
  <2>0. UNCHANGED <<user, pcActivity, asked, knownActivity, samplesActivity, failed, closed, done, report>>
        /\ command = "up" /\ command' = "down" /\ lines' = Append(lines, Activity!EndOfLines)
        /\ pipe # <<>> /\ Head(pipe) = Activity!Quit /\ pipe' = Tail(pipe)
    BY <1>3 DEF Activity!Quits, Activity!owner
  <2>1. ActivityTypes'
    BY <2>0, <1>0 DEF ActivityTypes
  <2>2. OneQuestion'
    <3>1. asked \in Nat
      BY DEF ActivityTypes
    <3>2. ~Activity!Waiting /\ pcActivity \notin {"idle", "start"}
      BY <2>0, <3>1, <1>0 DEF OneQuestion
    <3>3. QED
      BY <2>0, <3>2 DEF OneQuestion, Activity!Waiting
  <2>3. Recorded' /\ EndsInOrder'
    BY <2>0 DEF Recorded, EndsInOrder, Activity!AnswersAreTheirs
  <2>4. QED
    BY <2>1, <2>2, <2>3
<1>4. CASE Activity!Open
  <2>0. /\ UNCHANGED <<user, asked, knownActivity, samplesActivity, failed, closed, lines, done, report>>
        /\ pcActivity = "start" /\ pcActivity' = "handshake" /\ command' = "up" /\ pipe' = <<asked>>
    BY <1>4 DEF Activity!Open
  <2>1. ActivityTypes'
    BY <2>0 DEF ActivityTypes
  <2>2. OneQuestion'
    BY <2>0 DEF OneQuestion, Activity!Waiting
  <2>3. Recorded' /\ EndsInOrder'
    BY <2>0 DEF Recorded, EndsInOrder, Activity!AnswersAreTheirs
  <2>4. QED
    BY <2>1, <2>2, <2>3
<1>5. CASE Activity!Receive
  <2>0. /\ UNCHANGED <<user, asked, closed, pipe, command, done, report>>
        /\ Activity!Waiting /\ lines # <<>> /\ lines' = Tail(lines)
        /\ pcActivity \in {"handshake", "reading"}
    BY <1>5 DEF Activity!Receive, Activity!Waiting
  <2>t. asked \in Nat /\ Head(lines) \in Nat /\ lines' \in Seq(Nat)
    BY <2>0 DEF ActivityTypes
  <2>1. CASE Head(lines) = Activity!EndOfLines
    <3>1. /\ failed' = TRUE /\ pcActivity' = "close" /\ UNCHANGED <<knownActivity, samplesActivity>>
      BY <2>0, <2>1, <1>5 DEF Activity!Receive, Activity!Fail
    <3>2. ActivityTypes'
      BY <2>0, <2>t, <3>1 DEF ActivityTypes
    <3>3. OneQuestion'
      BY <2>0, <3>1 DEF OneQuestion, Activity!Waiting
    <3>4. Recorded' /\ EndsInOrder'
      BY <2>0, <3>1 DEF Recorded, EndsInOrder, Activity!AnswersAreTheirs
    <3>5. QED
      BY <3>2, <3>3, <3>4
  <2>2. CASE Head(lines) # Activity!EndOfLines
    <3>1. /\ UNCHANGED failed /\ pcActivity' = "idle" /\ knownActivity' = TRUE
          /\ samplesActivity' = IF pcActivity = "reading"
                          THEN Append(samplesActivity, [question |-> asked, answer |-> Head(lines)])
                          ELSE samplesActivity
      BY <2>0, <2>2, <1>5 DEF Activity!Receive
    <3>2. ActivityTypes'
      <4>1. [question |-> asked, answer |-> Head(lines)] \in [question : Nat, answer : Nat]
        BY <2>t
      <4>2. samplesActivity' \in Seq([question : Nat, answer : Nat])
        <5>1. samplesActivity \in Seq([question : Nat, answer : Nat])
          BY DEF ActivityTypes
        <5>2. Append(samplesActivity, [question |-> asked, answer |-> Head(lines)])
                 \in Seq([question : Nat, answer : Nat])
          BY <4>1, <5>1, AppendProperties
        <5>3. QED
          BY <3>1, <5>1, <5>2
      <4>3. QED
        BY <2>0, <2>t, <3>1, <4>2 DEF ActivityTypes
    <3>3. /\ Head(lines) = asked
          /\ command = "up" => pipe = <<>> /\ lines' = <<>>
          /\ command = "down" => lines' = <<Activity!EndOfLines>>
      <4>1. CASE command = "up"
        <5>1. lines = <<asked>> /\ pipe = <<>>
          BY <2>0, <4>1 DEF OneQuestion
        <5>2. QED
          BY <2>0, <4>1, <5>1
      <4>2. CASE command = "down"
        <5>1. lines = <<asked, Activity!EndOfLines>>
          BY <2>0, <2>2, <4>2 DEF OneQuestion
        <5>2. QED
          BY <2>0, <2>t, <4>2, <5>1
      <4>3. QED
        BY <2>0, <4>1, <4>2 DEF OneQuestion, ActivityTypes
    <3>4. OneQuestion'
      <4>1. Activity!EndOfLines' = Activity!EndOfLines
        BY DEF Activity!EndOfLines
      <4>2. QED
        BY <2>0, <3>1, <3>3, <4>1 DEF OneQuestion, Activity!Waiting
    <3>5. Recorded' /\ EndsInOrder'
      <4>1. CASE pcActivity = "handshake"
        BY <2>0, <3>1, <4>1 DEF Recorded, EndsInOrder, Activity!AnswersAreTheirs
      <4>2. CASE pcActivity = "reading"
        <5> DEFINE e == [question |-> asked, answer |-> asked]
        <5>1. /\ Len(samplesActivity) \in Nat /\ asked = Len(samplesActivity) + 1
              /\ Len(samplesActivity') = asked
              /\ samplesActivity'[asked] = e
              /\ \A i \in 1 .. Len(samplesActivity) : samplesActivity'[i] = samplesActivity[i]
          BY <2>t, <3>1, <3>3, <4>2 DEF ActivityTypes, Recorded
        <5>2. Activity!AnswersAreTheirs'
          <6> SUFFICES ASSUME NEW i \in 1 .. asked
                       PROVE  /\ samplesActivity'[i].answer = samplesActivity'[i].question
                              /\ samplesActivity'[i].question = i
            BY <5>1 DEF Activity!AnswersAreTheirs
          <6>1. CASE i = asked
            BY <5>1, <6>1
          <6>2. CASE i # asked
            <7>1. i \in 1 .. Len(samplesActivity)
              BY <5>1, <6>2
            <7>2. QED
              BY <5>1, <7>1 DEF Recorded, Activity!AnswersAreTheirs
          <6>3. QED
            BY <6>1, <6>2
        <5>3. QED
          BY <2>0, <3>1, <4>2, <5>1, <5>2 DEF Recorded, EndsInOrder
      <4>3. QED
        BY <2>0, <4>1, <4>2
    <3>6. QED
      BY <3>2, <3>4, <3>5
  <2>3. QED
    BY <2>1, <2>2
<1>6. CASE Activity!GiveUp \/ (Activity!Ask /\ command # "up") \/ Activity!ForceFails \/ Activity!LeftBehind
  <2>0. /\ UNCHANGED <<user, asked, knownActivity, samplesActivity, closed, pipe, lines, command, done, report>>
        /\ failed' = TRUE /\ pcActivity' \in {"close", "ended"} /\ pcActivity \notin {"start", "ended"}
    BY <1>6 DEF Activity!GiveUp, Activity!Ask, Activity!ForceFails, Activity!LeftBehind, Activity!Fail,
       Activity!Waiting
  <2>1. ActivityTypes'
    BY <2>0 DEF ActivityTypes
  <2>2. OneQuestion'
    BY <2>0 DEF OneQuestion, Activity!Waiting
  <2>3. Recorded' /\ EndsInOrder'
    BY <2>0 DEF Recorded, EndsInOrder, Activity!AnswersAreTheirs
  <2>4. QED
    BY <2>1, <2>2, <2>3
<1>7. CASE Activity!Ask /\ command = "up"
  <2>0. /\ UNCHANGED <<user, knownActivity, samplesActivity, failed, closed, lines, command, done, report>>
        /\ asked < MaxAsked /\ asked' = asked + 1 /\ pipe' = Append(pipe, asked + 1)
        /\ pcActivity = "idle" /\ pcActivity' = "reading" /\ command = "up"
    BY <1>7 DEF Activity!Ask
  <2>1. ActivityTypes'
    BY <2>0, <1>0 DEF ActivityTypes
  <2>2. OneQuestion'
    BY <2>0 DEF OneQuestion, Activity!Waiting
  <2>3. Recorded' /\ EndsInOrder'
    BY <2>0 DEF Recorded, EndsInOrder, Activity!AnswersAreTheirs
  <2>4. QED
    BY <2>1, <2>2, <2>3
<1>8. CASE Activity!Finish \/ Activity!Close \/ Activity!Force \/ Activity!Ended
  <2>0. /\ UNCHANGED <<user, asked, knownActivity, samplesActivity, failed, closed, lines, command, done, report>>
        /\ pcActivity = "idle" => Activity!Enough
        /\ pcActivity \in {"idle", "close", "quitting", "forced"}
        /\ pcActivity' \in {"close", "quitting", "forced", "joining"}
        /\ pcActivity' = "joining" => command = "down" \/ (pcActivity = "close" /\ command # "up")
        /\ pipe' \in {pipe, Append(pipe, Activity!Quit)}
    BY <1>8 DEF Activity!Finish, Activity!Close, Activity!Force, Activity!Ended
  <2>1. ActivityTypes'
    <3>1. pipe \in Seq(Nat)
      BY DEF ActivityTypes
    <3>2. Append(pipe, Activity!Quit) \in Seq(Nat)
      BY <3>1, <1>0, AppendProperties
    <3>3. QED
      BY <2>0, <3>1, <3>2 DEF ActivityTypes
  <2>2. OneQuestion'
    BY <2>0 DEF OneQuestion, Activity!Waiting
  <2>3. Recorded'
    BY <2>0 DEF Recorded, Activity!AnswersAreTheirs
  <2>4. pcActivity = "idle" => /\ user = "clock" => Len(samplesActivity) = 1
                               /\ user = "host" => Len(samplesActivity) = MaxAsked
    BY <2>0 DEF Activity!Enough
  <2>5. EndsInOrder'
    BY <2>0, <2>4 DEF EndsInOrder, Recorded, OneQuestion, ActivityTypes
  <2>6. QED
    BY <2>1, <2>2, <2>3, <2>5
<1>9. CASE Activity!Join
  <2>0. /\ UNCHANGED <<user, asked, knownActivity, samplesActivity, failed, pipe, lines, command, done, report>>
        /\ pcActivity = "joining" /\ pcActivity' = "ended" /\ closed' = TRUE
    BY <1>9 DEF Activity!Join
  <2>1. ActivityTypes'
    BY <2>0 DEF ActivityTypes
  <2>2. OneQuestion'
    BY <2>0 DEF OneQuestion, Activity!Waiting
  <2>3. Recorded' /\ EndsInOrder'
    BY <2>0 DEF Recorded, EndsInOrder, Activity!AnswersAreTheirs
  <2>4. QED
    BY <2>1, <2>2, <2>3
<1>10. CASE Activity!Stop \/ Activity!Return \/ Activity!JoinTimesOut \/ UNCHANGED Activity!vars
  <2>0. /\ UNCHANGED <<user, pcActivity, asked, knownActivity, samplesActivity, failed, closed, pipe, lines, command>>
        /\ report' \in {report, "clean", "errors"}
        /\ report' = "clean" => report = "clean" \/ (pcActivity = "ended" /\ ~failed)
    BY <1>10 DEF Activity!Stop, Activity!Return, Activity!JoinTimesOut, Activity!Report, Activity!vars,
       Activity!owner
  <2>1. ActivityTypes'
    BY <2>0 DEF ActivityTypes
  <2>2. OneQuestion'
    BY <2>0 DEF OneQuestion, Activity!Waiting
  <2>3. Recorded' /\ EndsInOrder'
    BY <2>0 DEF Recorded, EndsInOrder, Activity!AnswersAreTheirs
  <2>4. QED
    BY <2>1, <2>2, <2>3
<1>11. QED
  BY <1>1, <1>2, <1>3, <1>4, <1>5, <1>6, <1>7, <1>8, <1>9, <1>10 DEF Activity!Next, Activity!Owner

LEMMA ActivitySteps ==
    [ToolsNext]_everything => [Activity!Next]_(Activity!vars)
  BY DEF ToolsNext, everything, Activity!vars, Activity!owner, activityVars,
     OthersOfRun, OthersOfStack, OthersOfSeatMap, OthersOfQualify, OthersOfRelease, OthersOfInputs,
     OthersOfSmoke, OthersOfPools, OthersOfProtocol, OthersOfAccount, OthersOfFixture, OthersOfStartup

\* A sample is the answer to its own question, though an answer may come after its question
\* was given up, and a report without errors leaves nothing behind.
THEOREM SamplesAreAnswersCorrect == ToolsSpec => []SamplesAreAnswers
<1>1. ToolsInit => ActivityInv
  BY ActivityStarts DEF ToolsInit
<1>2. ActivityInv /\ [ToolsNext]_everything => ActivityInv'
  BY ActivityKeeps, ActivitySteps
<1>3. ActivityInv => SamplesAreAnswers
  BY DEF ActivityInv, Recorded, EndsInOrder, SamplesAreAnswers, Activity!CleanMeansClosed
<1>4. QED
  BY <1>1, <1>2, <1>3, PTL DEF ToolsSpec

-----------------------------------------------------------------------------
(* The failure regression.                                                 *)

OutageCalls == <<"stop", "start">>
RestartCalls == <<"kill", "rm", "up", "start">>

\* As long as no test of the module has failed, the calls that are left of a test say what
\* has become of Redis and of the fixture's memory.
Undisturbed ==
    \/ todo \in {<<>>, OutageCalls, RestartCalls} /\ redisFixture = "up" /\ ~stopped
    \/ todo = <<"start">> /\ ~stopped
    \/ todo \in {<<"rm", "up", "start">>, <<"up", "start">>} /\ stopped

\* Only a module that was successful is followed by another.
ModulesInOrder ==
    /\ pcFixture \in {"module", "test"} => module \in 0 .. Len(ToolSuite)
    /\ pcFixture = "module" => /\ good /\ redisFixture = "up" /\ ~stopped
                               /\ modules = [m \in 1 .. module |-> TRUE]
    /\ pcFixture = "test" => /\ module > 0 /\ modules = [m \in 1 .. module - 1 |-> TRUE]
                             /\ good => Undisturbed
    /\ pcFixture = "reset" => modules = <<>>
    /\ pcFixture \in {"reset", "module", "test"} => status = "none" /\ commandFixture # "failure"
    /\ pcFixture \in {"stop", "force", "stop forced", "start"} => commandFixture = "failure"
    /\ good \in BOOLEAN
    /\ Fixture!PassedSuiteIsWhole

LEMMA SuiteIsSequence == Len(ToolSuite) \in Nat
  BY InstancesAreValid DEF Fixture!ConstantsAssumption

LEMMA OneMoreSuccess ==
    ASSUME NEW n \in Nat
    PROVE  /\ Append([m \in 1 .. n |-> TRUE], TRUE) = [m \in 1 .. n + 1 |-> TRUE]
           /\ <<>> = [m \in 1 .. 0 |-> TRUE]
<1> DEFINE few == [m \in 1 .. n |-> TRUE]
           more == [m \in 1 .. n + 1 |-> TRUE]
           none == [m \in 1 .. 0 |-> TRUE]
<1>1. few \in Seq(BOOLEAN) /\ more \in Seq(BOOLEAN) /\ none \in Seq(BOOLEAN)
  BY IsASeq
<1>2. Len(few) = n /\ Len(more) = n + 1 /\ Len(none) = 0
  OBVIOUS
<1>3. /\ Append(few, TRUE) \in Seq(BOOLEAN) /\ Len(Append(few, TRUE)) = n + 1
      /\ \A i \in 1 .. n : Append(few, TRUE)[i] = few[i]
      /\ Append(few, TRUE)[n + 1] = TRUE
  BY <1>1, <1>2, AppendProperties
<1>4. \A i \in 1 .. n + 1 : Append(few, TRUE)[i] = more[i]
  <2> SUFFICES ASSUME NEW i \in 1 .. n + 1 PROVE Append(few, TRUE)[i] = TRUE
    OBVIOUS
  <2>1. i = n + 1 \/ i \in 1 .. n
    OBVIOUS
  <2>2. QED
    BY <1>3, <2>1
<1>5. Append(few, TRUE) = more
  <2> HIDE DEF few, more
  <2>1. QED
    BY <1>1, <1>2, <1>3, <1>4, SeqEqual
<1>6. none = <<>>
  <2> HIDE DEF none
  <2>1. QED
    BY <1>1, <1>2, EmptySeq
<1>7. QED
  BY <1>5, <1>6

LEMMA CallsOfTests ==
    /\ \A kind : Fixture!Calls(kind) \in {<<>>, OutageCalls, RestartCalls}
    /\ Head(OutageCalls) = "stop" /\ Tail(OutageCalls) = <<"start">>
    /\ Head(RestartCalls) = "kill" /\ Tail(RestartCalls) = <<"rm", "up", "start">>
    /\ Head(<<"rm", "up", "start">>) = "rm" /\ Tail(<<"rm", "up", "start">>) = <<"up", "start">>
    /\ Head(<<"up", "start">>) = "up" /\ Tail(<<"up", "start">>) = <<"start">>
    /\ Head(<<"start">>) = "start" /\ Tail(<<"start">>) = <<>>
<1>1. \A kind : Fixture!Calls(kind) \in {<<>>, OutageCalls, RestartCalls}
  BY DEF Fixture!Calls, OutageCalls, RestartCalls
<1>2. /\ Head(OutageCalls) = "stop" /\ Head(RestartCalls) = "kill"
      /\ Head(<<"rm", "up", "start">>) = "rm" /\ Head(<<"up", "start">>) = "up"
      /\ Head(<<"start">>) = "start"
  BY DEF OutageCalls, RestartCalls
<1>3. Tail(OutageCalls) = <<"start">> /\ Tail(<<"up", "start">>) = <<"start">> /\ Tail(<<"start">>) = <<>>
  BY DEF OutageCalls
<1>4. Tail(<<"rm", "up", "start">>) = <<"up", "start">>
  OBVIOUS
<1>5. Tail(RestartCalls) = <<"rm", "up", "start">>
  BY DEF RestartCalls
<1>6. QED
  BY <1>1, <1>2, <1>3, <1>4, <1>5

LEMMA ModulesStayInOrder ==
    ModulesInOrder /\ [Fixture!Next]_(Fixture!vars) => ModulesInOrder'
<1> SUFFICES ASSUME ModulesInOrder, [Fixture!Next]_(Fixture!vars) PROVE ModulesInOrder'
  OBVIOUS
<1> USE SuiteIsSequence DEF ModulesInOrder
<1>1. CASE Fixture!Begin
  <2>1. /\ status' = "none" /\ modules' = <<>> /\ good' = good
        /\ \/ pcFixture' = "stop" /\ commandFixture' = "failure"
           \/ pcFixture' = "reset" /\ commandFixture' # "failure"
    BY <1>1 DEF Fixture!Begin, Fixture!place
  <2>2. QED
    BY <2>1 DEF Fixture!PassedSuiteIsWhole
<1>2. CASE Fixture!Reset
  <2>1. CASE pcFixture' = "module"
    BY <1>2, <2>1, OneMoreSuccess
       DEF Fixture!Reset, Fixture!Goto, Fixture!Raise, Fixture!NoFault, Fixture!PassedSuiteIsWhole
  <2>2. CASE pcFixture' # "module"
    BY <1>2, <2>2
       DEF Fixture!Reset, Fixture!Goto, Fixture!Raise, Fixture!place, Fixture!PassedSuiteIsWhole
  <2>3. QED
    BY <2>1, <2>2
<1>3. CASE Fixture!NextModule
  <2>1. /\ pcFixture = "module" /\ pcFixture' = "test" /\ module' = module + 1
        /\ module < Len(ToolSuite) /\ good'
        /\ UNCHANGED <<commandFixture, status, redisFixture, stopped, modules>>
        /\ todo' \in {<<>>, OutageCalls, RestartCalls}
    BY <1>3, CallsOfTests DEF Fixture!NextModule, Fixture!Goto, Fixture!stack
  <2>2. module' - 1 = module /\ module' > 0 /\ module' \in 0 .. Len(ToolSuite)
    BY <2>1
  <2>3. good' \in BOOLEAN
    BY <1>3 DEF Fixture!NextModule
  <2>4. QED
    BY <2>1, <2>2, <2>3 DEF Undisturbed, Fixture!PassedSuiteIsWhole
<1>4. CASE Fixture!Ask
  <2>1. /\ pcFixture = "test" /\ todo # <<>> /\ todo' = Tail(todo)
        /\ Fixture!Call(Head(todo))
        /\ UNCHANGED <<commandFixture, pcFixture, module, good, status, modules>>
    BY <1>4 DEF Fixture!Ask
  <2>2. ASSUME good PROVE Undisturbed'
    <3>1. Undisturbed
      BY <2>1, <2>2
    <3>2. CASE todo = OutageCalls
      BY <2>1, <3>1, <3>2, CallsOfTests DEF Fixture!Call, Undisturbed
    <3>3. CASE todo = RestartCalls
      BY <2>1, <3>1, <3>3, CallsOfTests DEF Fixture!Call, Undisturbed
    <3>4. CASE todo = <<"start">>
      BY <2>1, <3>1, <3>4, CallsOfTests DEF Fixture!Call, Undisturbed
    <3>5. CASE todo = <<"rm", "up", "start">>
      BY <2>1, <3>1, <3>5, CallsOfTests DEF Fixture!Call, Undisturbed
    <3>6. CASE todo = <<"up", "start">>
      BY <2>1, <3>1, <3>6, CallsOfTests DEF Fixture!Call, Undisturbed
    <3>7. QED
      BY <2>1, <3>1, <3>2, <3>3, <3>4, <3>5, <3>6 DEF Undisturbed
  <2>3. QED
    BY <2>1, <2>2 DEF Fixture!PassedSuiteIsWhole
<1>5. CASE Fixture!AskFails \/ Fixture!TestFails
  BY <1>5 DEF Fixture!AskFails, Fixture!TestFails, Fixture!PassedSuiteIsWhole, Fixture!stack
<1>6. CASE Fixture!NextTest
  <2>1. /\ pcFixture = "test" /\ todo = <<>> /\ todo' \in {<<>>, OutageCalls, RestartCalls}
        /\ UNCHANGED <<commandFixture, pcFixture, module, good, status, redisFixture, stopped, modules>>
    BY <1>6, CallsOfTests DEF Fixture!NextTest, Fixture!stack
  <2>2. <<>> # OutageCalls /\ <<>> # RestartCalls /\ <<>> # <<"start">>
        /\ <<>> # <<"rm", "up", "start">> /\ <<>> # <<"up", "start">>
    BY DEF OutageCalls, RestartCalls
  <2>3. good => Undisturbed'
    BY <2>1, <2>2 DEF Undisturbed
  <2>4. QED
    BY <2>1, <2>3 DEF Fixture!PassedSuiteIsWhole
<1>7. CASE Fixture!ModuleEnds
  <2>1. /\ pcFixture = "test" /\ todo = <<>> /\ modules' = Append(modules, good)
        /\ UNCHANGED <<commandFixture, module, good, redisFixture, stopped>>
        /\ IF good THEN pcFixture' = "module" /\ UNCHANGED status
                   ELSE pcFixture' = "off" /\ status' = "1"
    BY <1>7 DEF Fixture!ModuleEnds, Fixture!Successful, Fixture!Goto, Fixture!Return, Fixture!place,
       Fixture!stack
  <2>2. CASE good
    <3>1. good = TRUE /\ module - 1 \in Nat /\ module - 1 + 1 = module
      BY <2>1, <2>2
    <3>2. modules' = [m \in 1 .. module |-> TRUE]
      BY <2>1, <3>1, OneMoreSuccess
    <3>3. redisFixture = "up" /\ ~stopped
      BY <2>1, <2>2 DEF Undisturbed, OutageCalls, RestartCalls
    <3>4. QED
      BY <2>1, <2>2, <3>2, <3>3 DEF Fixture!PassedSuiteIsWhole
  <2>3. CASE ~good
    BY <2>1, <2>3 DEF Fixture!PassedSuiteIsWhole
  <2>4. QED
    BY <2>2, <2>3
<1>8. CASE Fixture!SuiteEnds
  BY <1>8 DEF Fixture!SuiteEnds, Fixture!Return, Fixture!PassedSuiteIsWhole, Fixture!place, Fixture!stack
<1>9. CASE Fixture!Failure
  BY <1>9 DEF Fixture!Failure, Fixture!StopBackend, Fixture!Force, Fixture!StopForced,
     Fixture!StartBackend, Fixture!Goto, Fixture!Raise, Fixture!Return, Fixture!place,
     Fixture!PassedSuiteIsWhole
<1>k. CASE Fixture!Killed
  BY <1>k DEF Fixture!Killed, Fixture!Raise, Fixture!place, Fixture!stack, Fixture!PassedSuiteIsWhole
<1>10. CASE Fixture!Traffic \/ UNCHANGED Fixture!vars
  <2>1. UNCHANGED <<commandFixture, pcFixture, module, todo, good, status, redisFixture, stopped, modules>>
    BY <1>10 DEF Fixture!Traffic, Fixture!vars, Fixture!place, Fixture!stack
  <2>2. QED
    BY <2>1 DEF Undisturbed, Fixture!PassedSuiteIsWhole
<1>11. QED
  BY <1>1, <1>2, <1>3, <1>4, <1>5, <1>6, <1>7, <1>8, <1>9, <1>k, <1>10 DEF Fixture!Next, Fixture!Main

LEMMA FixtureSteps == [ToolsNext]_everything => [Fixture!Next]_(Fixture!vars)
  BY DEF ToolsNext, everything, Fixture!vars, Fixture!place, Fixture!stack, fixtureVars,
     OthersOfRun, OthersOfStack, OthersOfSeatMap, OthersOfQualify, OthersOfRelease, OthersOfInputs,
     OthersOfSmoke, OthersOfPools, OthersOfActivity, OthersOfProtocol, OthersOfAccount, OthersOfStartup

\* Every module of tests begins with Redis running, and a suite that returns 0 is whole.
LEMMA SuitesAreWhole ==
    ToolsSpec => [](Fixture!ModulesFindRedis /\ Fixture!PassedSuiteIsWhole)
<1>1. ToolsInit => ModulesInOrder
  BY DEF ToolsInit, Fixture!Init, ModulesInOrder, Fixture!PassedSuiteIsWhole
<1>2. ModulesInOrder /\ [ToolsNext]_everything => ModulesInOrder'
  BY ModulesStayInOrder, FixtureSteps
<1>3. ModulesInOrder => Fixture!ModulesFindRedis /\ Fixture!PassedSuiteIsWhole
  <2> SUFFICES ASSUME ModulesInOrder, pcFixture = "test", good, 
                      todo \in {<<>>, OutageCalls, RestartCalls}
               PROVE  redisFixture = "up" /\ ~stopped
    BY CallsOfTests DEF Fixture!ModulesFindRedis, ModulesInOrder
  <2>1. Undisturbed
    BY DEF ModulesInOrder
  <2>2. todo # <<"start">> /\ todo # <<"rm", "up", "start">> /\ todo # <<"up", "start">>
    BY DEF OutageCalls, RestartCalls
  <2>3. QED
    BY <2>1, <2>2 DEF Undisturbed
<1>4. QED
  BY <1>1, <1>2, <1>3, PTL DEF ToolsSpec

-----------------------------------------------------------------------------
(* The warm-up of the background users.                                    *)

K6States == {"none", "running", "exited", "oom"}
Own == k6Startup["own"]

\* What the container and compose say of each other.
StartupIsOne ==
    /\ k6Startup \in [Startup!Generators -> K6States]
    /\ compose \in {"none", "running", "exited"}
    /\ pcStartup = "launch" => compose = "none"
    /\ compose = "none" => Own = "none"
    /\ compose = "exited" => Own # "running"
    /\ goodStartup => compose = "exited" /\ Own = "exited"

\* A sample saw what ran, and nothing that was killed starts again.
SeenHasRun ==
    /\ seen \subseteq ran
    /\ \A g \in Startup!Generators : k6Startup[g] = "running" => g \in ran
    /\ "oom" \in errorsStartup => \E g \in ran : k6Startup[g] = "oom"
    /\ ran \subseteq Startup!Generators

\* After the stop the generator is over, unless it could not be stopped.
StoppedOrAbsent == absent \/ compose = "none" \/ Own \in {"exited", "oom"}
                          \/ (compose = "exited" /\ Own # "running")

\* From the wait on the generator has been stopped, and a startup that passed had looked at how
\* it exited and whom it had warmed.
StopIsDone ==
    /\ pcStartup = "inspect" /\ dual => StoppedOrAbsent
    /\ pcStartup \in {"wait", "judge", "passed", "failed"} => StoppedOrAbsent
    /\ pcStartup \in {"judge", "passed"} => compose = "exited"
    /\ pcStartup = "passed" => goodStartup /\ warmedStartup = Identities /\ ~refused

StartupInv == StartupIsOne /\ SeenHasRun /\ StopIsDone

LEMMA StartupBegins == Startup!Init => StartupInv
  BY DEF Startup!Init, StartupInv, StartupIsOne, SeenHasRun, StopIsDone, K6States, Own,
     Startup!Generators

LEMMA StartupKeeps == StartupInv /\ [Startup!Next]_(Startup!vars) => StartupInv'
<1> SUFFICES ASSUME StartupInv, [Startup!Next]_(Startup!vars) PROVE StartupInv'
  OBVIOUS
<1> USE DEF StartupInv, Startup!Generators
<1>1. CASE Startup!Create
  <2>1. StartupIsOne'
    BY <1>1 DEF Startup!Create, StartupIsOne, K6States, Own
  <2>2. SeenHasRun'
    BY <1>1 DEF Startup!Create, Startup!watching, SeenHasRun, StartupIsOne, K6States, Own
  <2>3. StopIsDone'
    BY <1>1 DEF Startup!Create, Startup!watching, StopIsDone, StoppedOrAbsent, StartupIsOne, Own
  <2>4. QED
    BY <2>1, <2>2, <2>3
<1>2. ASSUME NEW i \in Identities, Startup!Open(i) PROVE StartupInv'
  <2>1. StartupIsOne' /\ SeenHasRun'
    BY <1>2 DEF Startup!Open, Startup!watching, StartupIsOne, SeenHasRun, Own
  <2>2. pcStartup # "passed"
    BY <1>2 DEF Startup!Open, StartupIsOne, StopIsDone, Own
  <2>3. StopIsDone'
    BY <1>2, <2>2 DEF Startup!Open, Startup!watching, StopIsDone, StoppedOrAbsent, Own
  <2>4. QED
    BY <2>1, <2>3
<1>3. ASSUME NEW g \in Startup!Generators, Startup!Exit(g) PROVE StartupInv'
  <2>1. StartupIsOne'
    BY <1>3 DEF Startup!Exit, StartupIsOne, K6States, Own
  <2>2. SeenHasRun'
    BY <1>3 DEF Startup!Exit, Startup!watching, SeenHasRun, StartupIsOne, K6States
  <2>3. StopIsDone'
    BY <1>3 DEF Startup!Exit, Startup!watching, StopIsDone, StoppedOrAbsent, StartupIsOne, Own
  <2>4. QED
    BY <2>1, <2>2, <2>3
<1>4. CASE Startup!ComposeExits
  <2>1. StartupIsOne' /\ SeenHasRun'
    BY <1>4 DEF Startup!ComposeExits, Startup!watching, StartupIsOne, SeenHasRun, Own
  <2>2. StopIsDone'
    BY <1>4 DEF Startup!ComposeExits, Startup!watching, StopIsDone, StoppedOrAbsent, StartupIsOne, Own
  <2>3. QED
    BY <2>1, <2>2
\* The startup itself.
<1>5. CASE Startup!Launch
  <2>1. StartupIsOne' /\ SeenHasRun'
    BY <1>5 DEF Startup!Launch, Startup!watching, StartupIsOne, SeenHasRun, Own
  <2>2. StopIsDone'
    BY <1>5 DEF Startup!Launch, Startup!watching, StopIsDone, StoppedOrAbsent, StartupIsOne, Own
  <2>3. QED
    BY <2>1, <2>2
<1>6. CASE Startup!Sample
  <2>1. StartupIsOne' /\ StopIsDone'
    BY <1>6 DEF Startup!Sample, Startup!generator, StartupIsOne, StopIsDone, Own
  <2>2. Startup!Current \subseteq ran
    BY DEF Startup!Current, SeenHasRun
  <2>3. CASE UNCHANGED <<seen, errorsStartup>>
    <3>1. UNCHANGED <<ran, k6Startup>>
      BY <1>6 DEF Startup!Sample, Startup!generator
    <3>2. SeenHasRun
      OBVIOUS
    <3>3. QED
      BY <2>1, <2>3, <3>1, <3>2 DEF SeenHasRun
  <2>4. ASSUME NEW guard \in {{}, {"guard"}},
               seen' = Startup!Current, errorsStartup' = errorsStartup \union Startup!Noticed(guard)
        PROVE  StartupInv'
    <3>1. "oom" \in Startup!Noticed(guard) => Startup!OutOfMemory
      BY DEF Startup!Noticed
    <3>2. UNCHANGED <<ran, k6Startup>>
      BY <1>6 DEF Startup!Sample, Startup!generator
    <3>3. QED
      BY <2>1, <2>2, <2>4, <3>1, <3>2 DEF SeenHasRun, Startup!OutOfMemory
  <2>5. QED
    BY <1>6, <2>3, <2>4 DEF Startup!Sample
<1>7. ASSUME k6Startup' \in {k6Startup, Startup!Stopped},
             UNCHANGED <<dual, compose, goodStartup, warmedStartup, refused, ran, seen, errorsStartup>>
      PROVE  /\ StartupIsOne' \/ pcStartup' = "launch"
             /\ SeenHasRun'
             /\ k6Startup' = Startup!Stopped => Own' # "running" /\ (Own' = "none" <=> Own = "none")
  <2>1. StartupIsOne' \/ pcStartup' = "launch"
    BY <1>7 DEF Startup!Stopped, StartupIsOne, K6States, Own
  <2>2. SeenHasRun'
    BY <1>7 DEF Startup!Stopped, StartupIsOne, SeenHasRun, K6States
  <2>3. k6Startup' = Startup!Stopped => Own' # "running" /\ (Own' = "none" <=> Own = "none")
    BY DEF Startup!Stopped, StartupIsOne, K6States, Own
  <2>4. QED
    BY <2>1, <2>2, <2>3
<1>8. CASE Startup!StopGenerators
  <2>1. /\ pcStartup' \in {"inspect", "failed"}
        /\ UNCHANGED <<dual, compose, goodStartup, warmedStartup, refused, ran, seen, errorsStartup>>
        /\ \/ /\ pcStartup' = "inspect"
              /\ dual => k6Startup' = Startup!Stopped /\ absent' = (Own = "none" /\ compose = "running")
              /\ ~dual => UNCHANGED k6Startup
           \/ pcStartup' = "failed" /\ absent' /\ UNCHANGED k6Startup
    BY <1>8 DEF Startup!StopGenerators, Startup!Goto, Startup!Raise, Own
  <2>2. StartupIsOne' /\ SeenHasRun'
    BY <1>7, <2>1
  <2>3. StoppedOrAbsent' \/ (pcStartup' = "inspect" /\ ~dual)
    <3>1. CASE dual /\ k6Startup' = Startup!Stopped /\ absent' = (Own = "none" /\ compose = "running")
      <4>1. Own' # "running" /\ (Own' = "none" <=> Own = "none")
        BY <1>7, <2>1, <3>1
      <4>2. Own' \in K6States
        BY <2>2 DEF StartupIsOne, Own
      <4>3. QED
        BY <2>1, <3>1, <4>1, <4>2 DEF StoppedOrAbsent, StartupIsOne, K6States
    <3>2. CASE absent'
      BY <3>2 DEF StoppedOrAbsent
    <3>3. QED
      BY <2>1, <3>1, <3>2
  <2>4. StopIsDone'
    BY <2>1, <2>3 DEF StopIsDone
  <2>5. QED
    BY <2>2, <2>4
<1>9. CASE Startup!Inspect
  <2>1. /\ UNCHANGED <<dual, compose, goodStartup, warmedStartup, refused, ran, seen, errorsStartup>>
        /\ pcStartup = "inspect" /\ pcStartup' \in {"wait", "failed"}
        /\ \/ compose = "exited" /\ UNCHANGED <<k6Startup, absent>>
           \/ compose = "running" /\ Own # "none" /\ k6Startup' = Startup!Stopped /\ UNCHANGED absent
           \/ (dual \/ Own = "none") /\ absent' = (absent \/ Own = "none") /\ UNCHANGED k6Startup
           \/ absent' /\ UNCHANGED k6Startup
    BY <1>9 DEF Startup!Inspect, Startup!Goto, Startup!Raise, Own
  <2>2. StartupIsOne' /\ SeenHasRun'
    BY <1>7, <2>1
  <2>3. StoppedOrAbsent'
    <3>1. CASE compose = "exited" /\ UNCHANGED <<k6Startup, absent>>
      BY <2>1, <3>1 DEF StoppedOrAbsent, StartupIsOne, Own
    <3>2. CASE compose = "running" /\ Own # "none" /\ k6Startup' = Startup!Stopped
      <4>1. Own' # "running" /\ Own' # "none"
        BY <1>7, <2>1, <3>2
      <4>2. Own' \in K6States
        BY <2>2 DEF StartupIsOne, Own
      <4>3. QED
        BY <4>1, <4>2 DEF StoppedOrAbsent, K6States
    <3>3. CASE dual /\ absent' = (absent \/ Own = "none") /\ UNCHANGED k6Startup
      <4>1. StoppedOrAbsent
        BY <2>1, <3>3 DEF StopIsDone
      <4>2. QED
        BY <2>1, <3>3, <4>1 DEF StoppedOrAbsent, Own
    <3>4. CASE absent'
      BY <3>4 DEF StoppedOrAbsent
    <3>5. QED
      BY <2>1, <3>1, <3>2, <3>3, <3>4
  <2>4. StopIsDone'
    BY <2>1, <2>3 DEF StopIsDone
  <2>5. QED
    BY <2>2, <2>4
<1>10. CASE Startup!Ended \/ Startup!Wait \/ Startup!Judge
  <2>1. /\ UNCHANGED <<dual, k6Startup, compose, goodStartup, warmedStartup, refused, ran,
                      seen, errorsStartup, absent>>
        /\ \/ pcStartup = "watch" /\ pcStartup' = "stop"
           \/ pcStartup = "wait" /\ pcStartup' \in {"judge", "failed"}
              /\ (pcStartup' = "judge" => compose = "exited")
           \/ pcStartup = "judge" /\ pcStartup' \in {"passed", "failed"}
              /\ (pcStartup' = "passed" => Startup!Faultless)
    BY <1>10 DEF Startup!Ended, Startup!Wait, Startup!Judge, Startup!Goto, Startup!Raise,
       Startup!watching, Startup!generator
  <2>2. StartupIsOne' /\ SeenHasRun'
    BY <2>1 DEF StartupIsOne, SeenHasRun, Own
  <2>3. StopIsDone'
    BY <2>1 DEF StopIsDone, StoppedOrAbsent, Own, Startup!Faultless, Startup!Delivered
  <2>4. QED
    BY <2>2, <2>3
<1>11. CASE Startup!HourPasses \/ UNCHANGED Startup!vars
  <2>1. UNCHANGED <<dual, pcStartup, k6Startup, compose, goodStartup, warmedStartup, refused, ran,
                    seen, errorsStartup, absent>>
    BY <1>11 DEF Startup!HourPasses, Startup!vars, Startup!watching, Startup!generator
  <2>2. QED
    BY <2>1 DEF StartupIsOne, SeenHasRun, StopIsDone, StoppedOrAbsent, Own
<1>12. QED
  BY <1>1, <1>2, <1>3, <1>4, <1>5, <1>6, <1>8, <1>9, <1>10, <1>11 DEF Startup!Next, Startup!Startup

LEMMA StartupSteps == [ToolsNext]_everything => [Startup!Next]_(Startup!vars)
  BY DEF ToolsNext, everything, Startup!vars, Startup!watching, Startup!generator, startupVars,
     OthersOfRun, OthersOfStack, OthersOfSeatMap, OthersOfQualify, OthersOfRelease, OthersOfInputs,
     OthersOfSmoke, OthersOfPools, OthersOfActivity, OthersOfProtocol, OthersOfAccount, OthersOfFixture

\* The timed load begins with every background user warmed, and the startup answers for its
\* own trouble only.
LEMMA LoadFindsUsersWarmed ==
    ToolsSpec => [](Startup!WarmBeforeLoad /\ Startup!TroubleIsItsOwn)
<1>1. ToolsInit => StartupInv
  BY StartupBegins DEF ToolsInit
<1>2. StartupInv /\ [ToolsNext]_everything => StartupInv'
  BY StartupKeeps, StartupSteps
<1>3. StartupInv => Startup!WarmBeforeLoad /\ Startup!TroubleIsItsOwn
  BY DEF StartupInv, StartupIsOne, SeenHasRun, StopIsDone, StoppedOrAbsent, Own,
     Startup!WarmBeforeLoad, Startup!TroubleIsItsOwn, Startup!Over
<1>4. QED
  BY <1>1, <1>2, <1>3, PTL DEF ToolsSpec

-----------------------------------------------------------------------------
(* The fixed protocol.                                                     *)

BurstSteps == {"burst", "verify", "final"}
LoadFiles == {"k6", "burst", "verifier"}
TrialOf(f) == filesProtocol[f].trial

ProtocolTypes ==
    /\ trial \in Nat
    /\ pcProtocol # "idle" => trial > 0
    /\ filesProtocol \in [Protocol!Evidence -> [trial : Nat, good : BOOLEAN]]
    /\ \A f \in Protocol!Evidence : TrialOf(f) = 0 => ~filesProtocol[f].good

\* Before its container exists nothing was loaded, and nothing was measured.
LoadedOnce ==
    ~k6Protocol => /\ seat = "free" /\ passedProtocol = {} /\ ~compared /\ ~whole
                   /\ \A f \in LoadFiles : TrialOf(f) = 0
                   /\ pcProtocol \notin BurstSteps

\* The load that the files tell of is that of the measurement that created the container.
LoadIsOwn ==
    /\ \A f \in LoadFiles : TrialOf(f) \in {0, TrialOf("k6")}
    /\ pcProtocol \in BurstSteps => /\ TrialOf("k6") = trial /\ ~whole
                                    /\ passedProtocol = {} /\ ~compared
    /\ pcProtocol = "burst" => seat = "free"
    /\ pcProtocol \in {"verify", "final"} => TrialOf("burst") = trial
    /\ pcProtocol \in {"reads", "browser", "k6", "hung"} => ~whole
    /\ whole => TrialOf("k6") = trial /\ TrialOf("burst") = trial
    /\ compared => \A f \in LoadFiles : /\ TrialOf(f) = TrialOf("k6")
                                        /\ manifest.files[f].trial = TrialOf("k6")
    /\ Protocol!PassedOnce

ProtocolInv == ProtocolTypes /\ LoadedOnce /\ LoadIsOwn

LEMMA ProtocolBegins == Protocol!Init => ProtocolInv
  BY DEF Protocol!Init, Protocol!Nothing, Protocol!Evidence, ProtocolInv, ProtocolTypes, LoadedOnce,
     LoadIsOwn, TrialOf, BurstSteps, LoadFiles, Protocol!PassedOnce

\* What the files are after one of them was written, or none.
LEMMA FileIsWritten ==
    ASSUME ProtocolTypes, NEW f \in Protocol!Evidence, NEW how \in BOOLEAN, trial > 0,
           UNCHANGED trial, Protocol!WrittenOrNot(f, how)
    PROVE  /\ ProtocolTypes'
           /\ \A h \in Protocol!Evidence : h # f => filesProtocol'[h] = filesProtocol[h]
           /\ Protocol!Written(f, how) => filesProtocol'[f].trial = trial
           /\ filesProtocol'[f].trial \in {TrialOf(f), trial}
<1>1. CASE UNCHANGED filesProtocol
  BY <1>1 DEF ProtocolTypes, Protocol!Written, TrialOf
<1>2. CASE Protocol!Written(f, how)
  <2>1. filesProtocol' = [filesProtocol EXCEPT ![f] = [trial |-> trial, good |-> how]]
    BY <1>2 DEF Protocol!Written
  <2>2. /\ filesProtocol' \in [Protocol!Evidence -> [trial : Nat, good : BOOLEAN]]
        /\ filesProtocol'[f] = [trial |-> trial, good |-> how]
        /\ \A h \in Protocol!Evidence : h # f => filesProtocol'[h] = filesProtocol[h]
    BY <2>1 DEF ProtocolTypes
  <2>3. QED
    BY <2>2 DEF ProtocolTypes, TrialOf
<1>3. QED
  BY <1>1, <1>2 DEF Protocol!WrittenOrNot

LEMMA ProtocolKeeps == ProtocolInv /\ [Protocol!Next]_(Protocol!vars) => ProtocolInv'
<1> SUFFICES ASSUME ProtocolInv, [Protocol!Next]_(Protocol!vars) PROVE ProtocolInv'
  OBVIOUS
<1> USE DEF ProtocolInv
<1>0. /\ LoadFiles \subseteq Protocol!Evidence /\ "k6" \in LoadFiles /\ "burst" \in LoadFiles
      /\ {"reads", "browser", "samples"} \subseteq Protocol!Evidence \ LoadFiles
      /\ "verifier" \in LoadFiles
  BY DEF LoadFiles, Protocol!Evidence
<1>2. CASE Protocol!Edit
  <2>1. /\ UNCHANGED <<pcProtocol, trial, whole, samplerProtocol, passedProtocol, k6Protocol, seat,
                      compared, manifest>>
        /\ \/ UNCHANGED filesProtocol
           \/ \E f \in Protocol!Evidence : filesProtocol' = [filesProtocol EXCEPT ![f].good = FALSE]
    BY <1>2 DEF Protocol!Edit, Protocol!measuring
  <2>2. ProtocolTypes' /\ \A f \in Protocol!Evidence : TrialOf(f)' = TrialOf(f)
    <3>1. CASE UNCHANGED filesProtocol
      BY <2>1, <3>1 DEF ProtocolTypes, TrialOf
    <3>2. ASSUME NEW f \in Protocol!Evidence, filesProtocol' = [filesProtocol EXCEPT ![f].good = FALSE]
          PROVE  ProtocolTypes' /\ \A h \in Protocol!Evidence : TrialOf(h)' = TrialOf(h)
      <4> DEFINE edited == [filesProtocol[f] EXCEPT !.good = FALSE]
      <4>1. /\ filesProtocol[f] \in [trial : Nat, good : BOOLEAN]
            /\ filesProtocol' = [filesProtocol EXCEPT ![f] = edited]
        BY <3>2 DEF ProtocolTypes
      <4>2. edited \in [trial : Nat, good : BOOLEAN] /\ edited.trial = TrialOf(f) /\ ~edited.good
        BY <4>1 DEF TrialOf
      <4>3. /\ filesProtocol' \in [Protocol!Evidence -> [trial : Nat, good : BOOLEAN]]
            /\ filesProtocol'[f] = edited
            /\ \A h \in Protocol!Evidence : h # f => filesProtocol'[h] = filesProtocol[h]
        <5> HIDE DEF edited
        <5>1. QED
          BY <4>1, <4>2 DEF ProtocolTypes
      <4>4. QED
        BY <2>1, <4>2, <4>3 DEF ProtocolTypes, TrialOf
    <3>3. QED
      BY <2>1, <3>1, <3>2
  <2>3. LoadedOnce' /\ LoadIsOwn'
    BY <1>0, <2>1, <2>2 DEF LoadedOnce, LoadIsOwn, TrialOf, Protocol!PassedOnce
  <2>4. QED
    BY <2>2, <2>3
<1>3. CASE Protocol!Setup \/ Protocol!Start \/ Protocol!Stop
  <2>1. UNCHANGED <<pcProtocol, trial, whole, samplerProtocol, passedProtocol, k6Protocol, seat,
                    compared, manifest, filesProtocol>>
    BY <1>3 DEF Protocol!Setup, Protocol!Start, Protocol!Stop, Protocol!measuring
  <2>2. QED
    BY <2>1 DEF ProtocolTypes, LoadedOnce, LoadIsOwn, TrialOf, Protocol!PassedOnce
<1>4. CASE Protocol!Begin
  <2>1. /\ pcProtocol = "idle" /\ pcProtocol' \in {"reads", "hung"} /\ trial' = trial + 1
        /\ ~whole' /\ samplerProtocol'
        /\ UNCHANGED <<passedProtocol, k6Protocol, seat, compared, manifest, filesProtocol>>
    BY <1>4 DEF Protocol!Begin
  <2>2. QED
    BY <2>1 DEF ProtocolTypes, LoadedOnce, LoadIsOwn, TrialOf, Protocol!PassedOnce, BurstSteps
<1>5. CASE Protocol!SamplingFails \/ UNCHANGED Protocol!vars
  <2>1. UNCHANGED <<pcProtocol, trial, whole, samplerProtocol, passedProtocol, k6Protocol, seat,
                    compared, manifest, filesProtocol>>
    BY <1>5 DEF Protocol!SamplingFails, Protocol!vars, Protocol!measuring
  <2>2. QED
    BY <2>1 DEF ProtocolTypes, LoadedOnce, LoadIsOwn, TrialOf, Protocol!PassedOnce
\* The steps of a measurement.
<1>6. CASE Protocol!Reads \/ Protocol!Browser
  <2>1. PICK f \in {"reads", "browser"}, how \in BOOLEAN : Protocol!WrittenOrNot(f, how)
    BY <1>6 DEF Protocol!Reads, Protocol!Browser, Protocol!WrittenOrNot
  <2>2. /\ pcProtocol \in {"reads", "browser"} /\ pcProtocol' \in {"browser", "k6", "join"}
        /\ UNCHANGED <<trial, whole, samplerProtocol, passedProtocol, k6Protocol, seat, compared, manifest>>
    BY <1>6 DEF Protocol!Reads, Protocol!Browser, Protocol!Goto, Protocol!Raise, Protocol!Rest
  <2>3. trial > 0
    BY <2>2 DEF ProtocolTypes
  <2>4. ProtocolTypes' /\ \A h \in LoadFiles : TrialOf(h)' = TrialOf(h)
    <3>1. ProtocolTypes' /\ \A h \in Protocol!Evidence : h # f => filesProtocol'[h] = filesProtocol[h]
      BY <1>0, <2>1, <2>2, <2>3, FileIsWritten
    <3>2. QED
      BY <1>0, <3>1 DEF TrialOf
  <2>5. LoadedOnce' /\ LoadIsOwn'
    BY <1>0, <2>2, <2>4 DEF LoadedOnce, LoadIsOwn, TrialOf, Protocol!PassedOnce, BurstSteps
  <2>6. QED
    BY <2>4, <2>5
<1>7. CASE Protocol!K6
  <2>1. /\ pcProtocol = "k6" /\ pcProtocol' \in {"burst", "join"}
        /\ UNCHANGED <<trial, whole, samplerProtocol, passedProtocol, seat, compared, manifest>>
    BY <1>7 DEF Protocol!K6, Protocol!Goto, Protocol!Raise, Protocol!Rest
  <2>2. trial > 0
    BY <2>1 DEF ProtocolTypes
  <2>3. CASE k6Protocol
    <3>1. UNCHANGED <<k6Protocol, filesProtocol>> /\ pcProtocol' = "join"
      BY <1>7, <2>3 DEF Protocol!K6, Protocol!Refused, Protocol!Raise, Protocol!Goto
    <3>2. QED
      BY <2>1, <3>1 DEF ProtocolTypes, LoadedOnce, LoadIsOwn, TrialOf, Protocol!PassedOnce, BurstSteps
  <2>4. CASE ~k6Protocol
    <3>1. PICK how \in BOOLEAN : /\ Protocol!WrittenOrNot("k6", how) /\ k6Protocol'
                                 /\ pcProtocol' = "burst" => Protocol!Written("k6", how)
      BY <1>7, <2>4 DEF Protocol!K6, Protocol!Refused, Protocol!Raise, Protocol!Goto, Protocol!WrittenOrNot
    <3>2. /\ ProtocolTypes'
          /\ \A h \in Protocol!Evidence : h # "k6" => filesProtocol'[h] = filesProtocol[h]
          /\ pcProtocol' = "burst" => filesProtocol'["k6"].trial = trial
      BY <1>0, <2>1, <2>2, <3>1, FileIsWritten
    <3>3. LoadedOnce
      OBVIOUS
    <3>4. LoadIsOwn'
      BY <1>0, <2>1, <2>4, <3>2, <3>3 DEF LoadedOnce, LoadIsOwn, TrialOf, Protocol!PassedOnce, BurstSteps
    <3>5. QED
      BY <3>1, <3>2, <3>4 DEF LoadedOnce
  <2>5. QED
    BY <2>3, <2>4
<1>8. CASE Protocol!Burst
  <2>1. /\ pcProtocol = "burst" /\ pcProtocol' \in {"verify", "join"}
        /\ UNCHANGED <<trial, whole, samplerProtocol, passedProtocol, k6Protocol, compared, manifest>>
    BY <1>8 DEF Protocol!Burst, Protocol!Goto, Protocol!Raise, Protocol!Rest
  <2>2. trial > 0 /\ k6Protocol
    BY <2>1 DEF ProtocolTypes, LoadedOnce, BurstSteps
  <2>3. PICK how \in BOOLEAN : /\ Protocol!WrittenOrNot("burst", how)
                               /\ pcProtocol' = "verify" => Protocol!Written("burst", how)
    BY <1>8 DEF Protocol!Burst, Protocol!Raise, Protocol!Goto, Protocol!WrittenOrNot
  <2>4. /\ ProtocolTypes'
        /\ \A h \in Protocol!Evidence : h # "burst" => filesProtocol'[h] = filesProtocol[h]
        /\ pcProtocol' = "verify" => filesProtocol'["burst"].trial = trial
        /\ filesProtocol'["burst"].trial \in {TrialOf("burst"), trial}
    BY <1>0, <2>1, <2>2, <2>3, FileIsWritten
  <2>5. LoadIsOwn'
    BY <1>0, <2>1, <2>4 DEF LoadIsOwn, TrialOf, Protocol!PassedOnce, BurstSteps
  <2>6. QED
    BY <2>1, <2>2, <2>4, <2>5 DEF LoadedOnce
<1>9. CASE Protocol!Verify
  <2>1. /\ pcProtocol = "verify" /\ pcProtocol' \in {"final", "join"}
        /\ UNCHANGED <<trial, whole, samplerProtocol, passedProtocol, k6Protocol, seat, compared, manifest>>
    BY <1>9 DEF Protocol!Verify, Protocol!Goto, Protocol!Raise, Protocol!Rest
  <2>2. trial > 0 /\ k6Protocol
    BY <2>1 DEF ProtocolTypes, LoadedOnce, BurstSteps
  <2>3. PICK how \in BOOLEAN : Protocol!WrittenOrNot("verifier", how)
    BY <1>9 DEF Protocol!Verify, Protocol!WrittenOrNot
  <2>4. /\ ProtocolTypes'
        /\ \A h \in Protocol!Evidence : h # "verifier" => filesProtocol'[h] = filesProtocol[h]
        /\ filesProtocol'["verifier"].trial \in {TrialOf("verifier"), trial}
    BY <1>0, <2>1, <2>2, <2>3, FileIsWritten
  <2>5. LoadIsOwn'
    BY <1>0, <2>1, <2>4 DEF LoadIsOwn, TrialOf, Protocol!PassedOnce, BurstSteps
  <2>6. QED
    BY <2>1, <2>2, <2>4, <2>5 DEF LoadedOnce
<1>10. CASE Protocol!Final
  <2>1. /\ pcProtocol = "final" /\ pcProtocol' = "join"
        /\ UNCHANGED <<trial, samplerProtocol, passedProtocol, k6Protocol, seat, compared, manifest,
                      filesProtocol>>
    BY <1>10 DEF Protocol!Final, Protocol!Goto, Protocol!Raise, Protocol!Rest
  <2>2. trial > 0 /\ k6Protocol
    BY <2>1 DEF ProtocolTypes, LoadedOnce, BurstSteps
  <2>3. QED
    BY <2>1, <2>2 DEF ProtocolTypes, LoadedOnce, LoadIsOwn, TrialOf, Protocol!PassedOnce, BurstSteps
<1>11. CASE Protocol!Join
  <2>1. /\ pcProtocol = "join" /\ pcProtocol' = "idle" /\ ~samplerProtocol'
        /\ UNCHANGED <<trial, whole, k6Protocol, seat, compared, manifest>>
        /\ passedProtocol' \in {passedProtocol, passedProtocol \union {trial}}
        /\ ~whole => passedProtocol' = passedProtocol
    BY <1>11 DEF Protocol!Join, Protocol!Rest
  <2>2. PICK how \in BOOLEAN : Protocol!WrittenOrNot("samples", how)
    BY <1>11 DEF Protocol!Join, Protocol!WrittenOrNot, Protocol!Written
  <2>3. trial > 0
    BY <2>1 DEF ProtocolTypes
  <2>4. ProtocolTypes' /\ \A h \in LoadFiles : TrialOf(h)' = TrialOf(h)
    <3>1. ProtocolTypes' /\ \A h \in Protocol!Evidence : h # "samples" => filesProtocol'[h] = filesProtocol[h]
      BY <1>0, <2>1, <2>2, <2>3, FileIsWritten
    <3>2. QED
      BY <1>0, <3>1 DEF TrialOf
  <2>5. LoadedOnce' /\ LoadIsOwn'
    BY <1>0, <2>1, <2>4 DEF LoadedOnce, LoadIsOwn, TrialOf, Protocol!PassedOnce, BurstSteps
  <2>6. QED
    BY <2>4, <2>5
\* What is read of the files.
<1>12. CASE Protocol!Manifest
  <2>1. /\ manifest'.files = filesProtocol
        /\ UNCHANGED <<pcProtocol, trial, whole, samplerProtocol, passedProtocol, k6Protocol, seat,
                      compared, filesProtocol>>
    BY <1>12 DEF Protocol!Manifest, Protocol!measuring
  <2>2. QED
    BY <1>0, <2>1 DEF ProtocolTypes, LoadedOnce, LoadIsOwn, TrialOf, Protocol!PassedOnce
<1>13. CASE Protocol!Compare
  <2>1. /\ pcProtocol = "idle" /\ manifest.files = filesProtocol
        /\ \A f \in Protocol!Evidence : filesProtocol[f].good
        /\ UNCHANGED <<pcProtocol, trial, whole, samplerProtocol, passedProtocol, k6Protocol, seat,
                      manifest, filesProtocol>>
    BY <1>13 DEF Protocol!Compare, Protocol!GateOpens, Protocol!measuring
  <2>2. \A f \in LoadFiles : TrialOf(f) # 0 /\ TrialOf(f) = TrialOf("k6")
    BY <1>0, <2>1 DEF ProtocolTypes, LoadIsOwn
  <2>3. k6Protocol
    BY <1>0, <2>2 DEF LoadedOnce
  <2>4. QED
    BY <1>0, <2>1, <2>2, <2>3 DEF ProtocolTypes, LoadedOnce, LoadIsOwn, TrialOf, Protocol!PassedOnce, BurstSteps
<1>14. QED
  BY <1>2, <1>3, <1>4, <1>5, <1>6, <1>7, <1>8, <1>9, <1>10, <1>11, <1>12, <1>13
     DEF Protocol!Next, Protocol!Measure

LEMMA ProtocolSteps == [ToolsNext]_everything => [Protocol!Next]_(Protocol!vars)
  BY DEF ToolsNext, everything, Protocol!vars, Protocol!measuring, Protocol!world, protocolVars,
     OthersOfRun, OthersOfStack, OthersOfSeatMap, OthersOfQualify, OthersOfRelease, OthersOfInputs,
     OthersOfSmoke, OthersOfPools, OthersOfActivity, OthersOfStartup, OthersOfAccount, OthersOfFixture

\* The burst finds its seat free, a measurement that passed is the only one whose load reached
\* the stack, and what the gate accepts of a load is of one measurement.
LEMMA LoadReachesTheStackOnce ==
    ToolsSpec => [](Protocol!BurstFindsItsSeat /\ Protocol!PassedOnce /\ Protocol!LoadIsOfOneTrial)
<1>1. ToolsInit => ProtocolInv
  BY ProtocolBegins DEF ToolsInit
<1>2. ProtocolInv /\ [ToolsNext]_everything => ProtocolInv'
  BY ProtocolKeeps, ProtocolSteps
<1>3. ProtocolInv => Protocol!BurstFindsItsSeat /\ Protocol!PassedOnce /\ Protocol!LoadIsOfOneTrial
  BY DEF ProtocolInv, LoadIsOwn, LoadFiles, Protocol!BurstFindsItsSeat, Protocol!LoadIsOfOneTrial
<1>4. QED
  BY <1>1, <1>2, <1>3, PTL DEF ToolsSpec

-----------------------------------------------------------------------------
(* The smoke campaign.                                                     *)

Serving == {"invariants", "dump", "ready"}
Restored == {"flush", "up"} \cup Serving
CaseRuns == {"watch", "judge", "record"}
DumpIsHashed == dump.number # 0 /\ hash = dump.number

\* What is hashed was dumped from a database that was whole, and the backend is started on no
\* other.
NeverServesAPart ==
    /\ dump.number \in Nat /\ hash \in Nat /\ hash <= dump.number
    /\ DumpIsHashed \/ pcSmoke = "hash" => dump.holds # "partial"
    /\ pcSmoke \in {"stop", "restore"} /\ doing = "campaign" => DumpIsHashed
    /\ pcSmoke \in {"export", "exporting", "invariants", "dump", "hash"} => doing # "campaign"
    /\ pcSmoke = "restore" => backendSmoke # "up"
    /\ pcSmoke \in Restored => dbSmoke # "partial"
    /\ pcSmoke \in Serving => backendSmoke = "up"
    /\ backendSmoke = "up" => dbSmoke # "partial"

\* Beside a campaign that was not begun beside one, no generator runs but its own.
OwnGenerator ==
    ~tainted =>
        /\ pcSmoke \notin CaseRuns \cup {"off"} => generatorSmoke # "running"
        /\ pcSmoke = "watch" /\ Smoke!Job # "load" => generatorSmoke # "running"
        /\ pcSmoke \in {"judge", "record"} /\ passed => generatorSmoke # "running"

\* What is dumped and what a case begins on is the prepared data.
OnPreparedData ==
    ~tainted =>
        /\ pcSmoke \in Restored => dbSmoke = "base"
        /\ pcSmoke \in {"up"} \cup Serving => redisSmoke = "clean"
        /\ DumpIsHashed \/ pcSmoke = "hash" => dump.holds = "base"

SmokeInv == NeverServesAPart /\ OwnGenerator /\ OnPreparedData

LEMMA SmokeBegins == Smoke!Init => SmokeInv
  BY DEF Smoke!Init, SmokeInv, NeverServesAPart, OwnGenerator, OnPreparedData, Serving, Restored,
     CaseRuns, DumpIsHashed

LEMMA SmokeKeeps == SmokeInv /\ [Smoke!Next]_(Smoke!vars) => SmokeInv'
<1> SUFFICES ASSUME SmokeInv, [Smoke!Next]_(Smoke!vars) PROVE SmokeInv'
  OBVIOUS
<1> USE DEF SmokeInv, Serving, Restored, CaseRuns, DumpIsHashed
<1>0. dump.number \in Nat /\ hash \in Nat /\ hash <= dump.number
  BY DEF NeverServesAPart
\* Outside of the runner.
<1>1. CASE Smoke!Request
  <2>1. /\ generatorSmoke = "running" /\ dbSmoke = "base" /\ dbSmoke' = "dirty" /\ redisSmoke' = "dirty"
        /\ backendSmoke = "up"
        /\ UNCHANGED <<pcSmoke, doing, passed, records, backendSmoke, dump, hash, generatorSmoke, tainted>>
    BY <1>1 DEF Smoke!Request, Smoke!process, Smoke!files, Smoke!Others
  <2>2. NeverServesAPart'
    BY <2>1 DEF NeverServesAPart
  <2>3. OwnGenerator' /\ OnPreparedData'
    BY <2>1 DEF OwnGenerator, OnPreparedData, Smoke!Job
  <2>4. QED
    BY <2>2, <2>3
<1>2. CASE Smoke!GeneratorEnds
  <2>1. /\ generatorSmoke' = "gone"
        /\ UNCHANGED <<pcSmoke, doing, passed, records, dbSmoke, redisSmoke, backendSmoke, dump, hash, tainted>>
    BY <1>2 DEF Smoke!GeneratorEnds, Smoke!process, Smoke!files, Smoke!system, Smoke!Others
  <2>2. QED
    BY <2>1 DEF NeverServesAPart, OwnGenerator, OnPreparedData, Smoke!Job
\* The process ends, or goes on and touches nothing.
<1>3. ASSUME UNCHANGED <<dbSmoke, redisSmoke, backendSmoke, dump, hash, generatorSmoke, tainted>>,
             pcSmoke' = "off"
      PROVE  SmokeInv'
  BY <1>3 DEF NeverServesAPart, OwnGenerator, OnPreparedData
<1>4. CASE Smoke!Crash
  BY <1>3, <1>4 DEF Smoke!Crash, Smoke!files, Smoke!system, Smoke!Others
<1>5. ASSUME NEW step \in Smoke!Fallible, Smoke!Fails(step) PROVE SmokeInv'
  BY <1>3, <1>5 DEF Smoke!Fails, Smoke!Raise, Smoke!files, Smoke!system, Smoke!Others
<1>6. ASSUME UNCHANGED <<pcSmoke, doing, passed, records, dbSmoke, redisSmoke, backendSmoke, dump, hash,
                         generatorSmoke, tainted>>
      PROVE  SmokeInv'
  BY <1>6 DEF NeverServesAPart, OwnGenerator, OnPreparedData, Smoke!Job
<1>7. CASE Smoke!EditTargets \/ Smoke!LoseEvidence \/ Smoke!Deadline \/ UNCHANGED Smoke!vars
  BY <1>6, <1>7 DEF Smoke!EditTargets, Smoke!LoseEvidence, Smoke!Deadline, Smoke!vars, Smoke!process,
     Smoke!files, Smoke!system, Smoke!Others
<1>8. CASE Smoke!Prepare \/ Smoke!Campaign \/ Smoke!Resume
  <2>1. /\ \/ pcSmoke' = "export" /\ doing' = "prepare"
           \/ pcSmoke' = "next" /\ doing' = "campaign"
        /\ tainted' = (tainted \/ generatorSmoke = "running")
        /\ UNCHANGED <<dbSmoke, redisSmoke, backendSmoke, dump, hash, generatorSmoke>>
    BY <1>8 DEF Smoke!Prepare, Smoke!Campaign, Smoke!Resume, Smoke!Begin, Smoke!files, Smoke!system
  <2>2. ~tainted' => ~tainted /\ generatorSmoke # "running"
    BY <2>1
  <2>3. NeverServesAPart'
    BY <2>1 DEF NeverServesAPart
  <2>4. OwnGenerator' /\ OnPreparedData'
    BY <2>1, <2>2 DEF OwnGenerator, OnPreparedData
  <2>5. QED
    BY <2>3, <2>4
\* The reset.
<1>9. CASE Smoke!Check
  <2>1. /\ UNCHANGED <<dbSmoke, redisSmoke, backendSmoke, dump, hash, generatorSmoke, tainted, doing>>
        /\ pcSmoke = "check"
        /\ pcSmoke' = "off" \/ (pcSmoke' = "stop" /\ (doing = "campaign" => DumpIsHashed))
    BY <1>0, <1>9 DEF Smoke!Check, Smoke!Raise, Smoke!Goto, Smoke!Snapshot, Smoke!files, Smoke!system,
       Smoke!Others
  <2>2. QED
    BY <1>3, <2>1 DEF NeverServesAPart, OwnGenerator, OnPreparedData
<1>10. CASE Smoke!StopClients
  <2>1. /\ UNCHANGED <<dbSmoke, redisSmoke, dump, hash, generatorSmoke, tainted, doing>>
        /\ pcSmoke = "stop" /\ pcSmoke' = "restore" /\ backendSmoke' = "stopped"
    BY <1>10 DEF Smoke!StopClients, Smoke!Goto, Smoke!files, Smoke!Others
  <2>2. QED
    BY <2>1 DEF NeverServesAPart, OwnGenerator, OnPreparedData
<1>11. CASE Smoke!Restore
  <2>1. /\ UNCHANGED <<redisSmoke, backendSmoke, dump, hash, generatorSmoke, tainted, doing>>
        /\ pcSmoke = "restore"
        /\ \/ pcSmoke' = "flush" /\ doing = "campaign" /\ dbSmoke' = dump.holds
           \/ pcSmoke' = "flush" /\ dbSmoke' = "base"
           \/ pcSmoke' \in {"off", "restore"}
    BY <1>11 DEF Smoke!Restore, Smoke!Goto, Smoke!Raise, Smoke!Snapshot, Smoke!process, Smoke!files,
       Smoke!Others
  <2>2. NeverServesAPart'
    BY <2>1 DEF NeverServesAPart
  <2>3. OwnGenerator' /\ OnPreparedData'
    BY <2>1 DEF NeverServesAPart, OwnGenerator, OnPreparedData
  <2>4. QED
    BY <2>2, <2>3
<1>12. CASE Smoke!Flush
  <2>1. /\ UNCHANGED <<dbSmoke, backendSmoke, dump, hash, generatorSmoke, tainted, doing>>
        /\ pcSmoke = "flush" /\ pcSmoke' = "up" /\ redisSmoke' = "clean"
    BY <1>12 DEF Smoke!Flush, Smoke!Goto, Smoke!files, Smoke!Others
  <2>2. QED
    BY <2>1 DEF NeverServesAPart, OwnGenerator, OnPreparedData
<1>13. CASE Smoke!StartClients
  <2>1. /\ UNCHANGED <<dbSmoke, redisSmoke, dump, hash, generatorSmoke, tainted, doing>>
        /\ pcSmoke = "up" /\ backendSmoke' = "up"
        /\ pcSmoke' = IF doing = "prepare" THEN "invariants" ELSE "ready"
    BY <1>13 DEF Smoke!StartClients, Smoke!Goto, Smoke!files, Smoke!Others
  <2>2. QED
    BY <2>1 DEF NeverServesAPart, OwnGenerator, OnPreparedData
\* The preparation.
<1>14. CASE Smoke!Export \/ Smoke!Exported \/ Smoke!Invariants
  <2>1. /\ UNCHANGED <<dbSmoke, redisSmoke, backendSmoke, dump, hash, generatorSmoke, tainted, doing>>
        /\ \/ pcSmoke \in {"export", "exporting"} /\ pcSmoke' \in {"check", "exporting", "off"}
           \/ pcSmoke = "invariants" /\ pcSmoke' = "dump"
    BY <1>14 DEF Smoke!Export, Smoke!Exported, Smoke!Invariants, Smoke!Goto, Smoke!Raise, Smoke!files,
       Smoke!system, Smoke!Others
  <2>2. QED
    BY <2>1 DEF NeverServesAPart, OwnGenerator, OnPreparedData
<1>15. CASE Smoke!Dump
  <2>1. /\ UNCHANGED <<dbSmoke, redisSmoke, backendSmoke, hash, generatorSmoke, tainted, doing>>
        /\ pcSmoke = "dump" /\ dump'.number = dump.number + 1
        /\ \/ pcSmoke' = "hash" /\ dump'.holds = dbSmoke
           \/ pcSmoke' = "off"
    BY <1>15 DEF Smoke!Dump, Smoke!Goto, Smoke!Raise, Smoke!system, Smoke!Others
  <2>2. dump'.number # hash' /\ hash' <= dump'.number /\ dump'.number \in Nat
    BY <1>0, <2>1
  <2>3. NeverServesAPart'
    BY <1>0, <2>1, <2>2 DEF NeverServesAPart
  <2>4. OwnGenerator' /\ OnPreparedData'
    BY <2>1, <2>2 DEF OwnGenerator, OnPreparedData
  <2>5. QED
    BY <2>3, <2>4
<1>16. CASE Smoke!Hash
  <2>1. /\ UNCHANGED <<dbSmoke, redisSmoke, backendSmoke, dump, generatorSmoke, tainted, doing>>
        /\ pcSmoke = "hash" /\ pcSmoke' = "off" /\ hash' = dump.number
    BY <1>16 DEF Smoke!Hash, Smoke!Raise, Smoke!system, Smoke!Others
  <2>2. NeverServesAPart'
    BY <1>0, <2>1 DEF NeverServesAPart
  <2>3. OwnGenerator' /\ OnPreparedData'
    BY <2>1 DEF OwnGenerator, OnPreparedData
  <2>4. QED
    BY <2>2, <2>3
\* The campaign.
<1>17. CASE Smoke!NextJob
  <2>1. /\ UNCHANGED <<dbSmoke, redisSmoke, backendSmoke, dump, hash, generatorSmoke, tainted, doing>>
        /\ pcSmoke = "next" /\ pcSmoke' \in {"off", "check"}
    BY <1>17 DEF Smoke!NextJob, Smoke!files, Smoke!system
  <2>2. QED
    BY <2>1 DEF NeverServesAPart, OwnGenerator, OnPreparedData
<1>18. CASE Smoke!BeginCase
  <2>1. /\ UNCHANGED <<backendSmoke, dump, hash, tainted, doing, records>>
        /\ pcSmoke = "ready" /\ pcSmoke' = "watch"
        /\ \/ Smoke!Job = "load" /\ generatorSmoke' = "running" /\ UNCHANGED dbSmoke
           \/ dbSmoke' = "dirty" /\ UNCHANGED generatorSmoke
    BY <1>18 DEF Smoke!BeginCase, Smoke!Goto, Smoke!Others
  <2>2. Smoke!Job' = Smoke!Job
    BY <2>1 DEF Smoke!Job
  <2>3. NeverServesAPart'
    BY <2>1 DEF NeverServesAPart
  <2>4. OwnGenerator' /\ OnPreparedData'
    BY <2>1, <2>2 DEF OwnGenerator, OnPreparedData
  <2>5. QED
    BY <2>3, <2>4
<1>19. CASE Smoke!CaseEnds
  <2>1. /\ UNCHANGED <<dbSmoke, redisSmoke, backendSmoke, dump, hash, tainted, doing>>
        /\ pcSmoke = "watch" /\ pcSmoke' = "judge"
        /\ passed' => UNCHANGED generatorSmoke /\ (Smoke!Job = "load" => generatorSmoke = "gone")
    BY <1>19 DEF Smoke!CaseEnds, Smoke!files, Smoke!system, Smoke!Others
  <2>2. NeverServesAPart'
    BY <2>1 DEF NeverServesAPart
  <2>3. OwnGenerator' /\ OnPreparedData'
    BY <2>1 DEF OwnGenerator, OnPreparedData
  <2>4. QED
    BY <2>2, <2>3
<1>20. CASE Smoke!Judge
  <2>1. /\ UNCHANGED <<dbSmoke, redisSmoke, backendSmoke, dump, hash, tainted, doing, generatorSmoke>>
        /\ pcSmoke = "judge" /\ pcSmoke' = "record" /\ (passed' => passed)
    BY <1>20 DEF Smoke!Judge, Smoke!system, Smoke!Others
  <2>2. NeverServesAPart'
    BY <2>1 DEF NeverServesAPart
  <2>3. OwnGenerator' /\ OnPreparedData'
    BY <2>1 DEF OwnGenerator, OnPreparedData
  <2>4. QED
    BY <2>2, <2>3
<1>21. CASE Smoke!Record
  <2>1. /\ UNCHANGED <<dbSmoke, redisSmoke, backendSmoke, dump, hash, tainted, doing, generatorSmoke>>
        /\ pcSmoke = "record" /\ pcSmoke' = IF passed THEN "next" ELSE "off"
    BY <1>21 DEF Smoke!Record, Smoke!system, Smoke!Others
  <2>2. NeverServesAPart'
    BY <2>1 DEF NeverServesAPart
  <2>3. OwnGenerator' /\ OnPreparedData'
    BY <2>1 DEF OwnGenerator, OnPreparedData
  <2>4. QED
    BY <2>2, <2>3
<1>22. QED
  BY <1>1, <1>2, <1>4, <1>5, <1>7, <1>8, <1>9, <1>10, <1>11, <1>12, <1>13, <1>14, <1>15, <1>16, <1>17,
     <1>18, <1>19, <1>20, <1>21 DEF Smoke!Next, Smoke!Step

LEMMA SmokeSteps == [ToolsNext]_everything => [Smoke!Next]_(Smoke!vars)
  BY DEF ToolsNext, everything, Smoke!vars, Smoke!process, Smoke!files, Smoke!system, Smoke!bounds, smokeVars,
     OthersOfRun, OthersOfStack, OthersOfSeatMap, OthersOfQualify, OthersOfRelease, OthersOfInputs,
     OthersOfProtocol, OthersOfPools, OthersOfActivity, OthersOfStartup, OthersOfAccount, OthersOfFixture

\* Every case of a smoke campaign begins on the prepared data.
LEMMA SmokeCasesStartClean == ToolsSpec => []Smoke!CaseStartsClean
<1>1. ToolsInit => SmokeInv
  BY SmokeBegins DEF ToolsInit
<1>2. SmokeInv /\ [ToolsNext]_everything => SmokeInv'
  BY SmokeKeeps, SmokeSteps
<1>3. SmokeInv => Smoke!CaseStartsClean
  BY DEF SmokeInv, NeverServesAPart, OnPreparedData, Serving, Restored, Smoke!CaseStartsClean
<1>4. QED
  BY <1>1, <1>2, <1>3, PTL DEF ToolsSpec

-----------------------------------------------------------------------------
(* The release of host resources.                                          *)

Observing == {"settle", "windows"}

ReleaseTypes ==
    /\ others \in Nat /\ swaps \in Nat /\ samples \in Seq(Nat)
    /\ saved \in [others : Nat, known : BOOLEAN]

\* The script compares with the inventory that was saved, and watches a host that was audited.
InventoryIsSaved ==
    /\ pcRelease \in {"stop", "audit"} \cup Observing => known = saved /\ saved.known
    /\ pcRelease \in Observing => auditedAt = saved.others
    /\ pcRelease = "select" => gate = "none"

\* A page that was swapped since the first sample tells the counter from it.
SwapsAreSeen ==
    samples # <<>> => /\ samples[1] <= swaps
                      /\ between => samples[1] < swaps

ReleaseInv == ReleaseTypes /\ InventoryIsSaved /\ SwapsAreSeen /\ Release!GateIsEarned

LEMMA ReleaseBegins == Release!Init => ReleaseInv
<1> SUFFICES ASSUME Release!Init PROVE ReleaseInv
  OBVIOUS
<1>1. ReleaseTypes
  <2>1. <<>> \in Seq(Nat) /\ Release!None \in [others : Nat, known : BOOLEAN]
    BY DEF Release!None
  <2>2. QED
    BY <2>1 DEF Release!Init, ReleaseTypes
<1>2. InventoryIsSaved /\ SwapsAreSeen /\ Release!GateIsEarned
  BY DEF Release!Init, InventoryIsSaved, SwapsAreSeen, Observing, Release!GateIsEarned
<1>3. QED
  BY <1>1, <1>2 DEF ReleaseInv

LEMMA ReleaseKeeps == ReleaseInv /\ [Release!Next]_(Release!vars) => ReleaseInv'
<1> SUFFICES ASSUME ReleaseInv, [Release!Next]_(Release!vars) PROVE ReleaseInv'
  OBVIOUS
<1> USE DEF ReleaseInv
<1>0. WindowSamples \in Nat /\ WindowSamples > 0
  BY InstancesAreValid DEF Release!ConstantsAssumption
\* Nothing that the gate stands for is touched.
<1>1. ASSUME UNCHANGED <<saved, gate, between, earned, swaps>>, others' \in Nat,
             samples' = samples,
             pcRelease' \in {"stop", "audit"} \cup Observing => known' = saved /\ saved.known,
             pcRelease' \in Observing => auditedAt' = saved.others,
             pcRelease' # "select"  \/ gate = "none"
      PROVE  ReleaseInv'
  <2>1. ReleaseTypes' /\ InventoryIsSaved'
    BY <1>1 DEF ReleaseTypes, InventoryIsSaved
  <2>2. SwapsAreSeen' /\ Release!GateIsEarned'
    BY <1>1 DEF SwapsAreSeen, Release!GateIsEarned
  <2>3. QED
    BY <2>1, <2>2
<1>2. CASE Release!OthersChange \/ Release!SelectedIsStarted \/ Release!VolumeIsRemoved
           \/ UNCHANGED Release!vars
  <2>1. /\ UNCHANGED <<pcRelease, known, samples, saved, gate, between, earned, swaps, auditedAt>>
        /\ others' \in {others, others + 1}
    BY <1>2 DEF Release!OthersChange, Release!SelectedIsStarted, Release!VolumeIsRemoved, Release!vars,
       Release!script, Release!host, Release!history
  <2>2. QED
    BY <1>1, <2>1 DEF ReleaseTypes, InventoryIsSaved
<1>3. CASE Release!Swap
  <2>1. /\ UNCHANGED <<pcRelease, known, samples, saved, gate, earned, auditedAt, others>>
        /\ swaps' = swaps + 1
    BY <1>3 DEF Release!Swap, Release!script
  <2>2. ReleaseTypes' /\ InventoryIsSaved' /\ Release!GateIsEarned'
    BY <2>1 DEF ReleaseTypes, InventoryIsSaved, Release!GateIsEarned
  <2>3. SwapsAreSeen'
    <3>1. samples # <<>> => samples[1] \in Nat
      BY DEF ReleaseTypes
    <3>2. QED
      BY <2>1, <3>1 DEF ReleaseTypes, SwapsAreSeen
  <2>4. QED
    BY <2>2, <2>3
<1>4. CASE Release!Run
  <2>1. /\ pcRelease' = "select" /\ samples' = <<>> /\ saved' = Release!None /\ gate' = "none"
        /\ UNCHANGED <<others, swaps>>
    BY <1>4 DEF Release!Run, Release!Begin, Release!host
  <2>2. ReleaseTypes'
    <3>1. <<>> \in Seq(Nat) /\ Release!None \in [others : Nat, known : BOOLEAN]
      BY DEF Release!None
    <3>2. QED
      BY <2>1, <3>1 DEF ReleaseTypes
  <2>3. InventoryIsSaved' /\ SwapsAreSeen' /\ Release!GateIsEarned'
    BY <2>1 DEF InventoryIsSaved, SwapsAreSeen, Observing, Release!GateIsEarned
  <2>4. QED
    BY <2>2, <2>3
<1>5. CASE Release!Resume
  <2>1. /\ pcRelease' = "audit" /\ samples' = <<>> /\ known' = saved /\ saved.known
        /\ UNCHANGED <<others, swaps, saved, gate, auditedAt, between, earned>>
    BY <1>5 DEF Release!Resume, Release!Begin, Release!host, Release!history
  <2>2. ReleaseTypes'
    <3>1. <<>> \in Seq(Nat)
      OBVIOUS
    <3>2. QED
      BY <2>1, <3>1 DEF ReleaseTypes
  <2>3. InventoryIsSaved' /\ SwapsAreSeen' /\ Release!GateIsEarned'
    BY <2>1 DEF InventoryIsSaved, SwapsAreSeen, Observing, Release!GateIsEarned
  <2>4. QED
    BY <2>2, <2>3
<1>6. CASE Release!Select
  <2>1. /\ pcRelease = "select" /\ pcRelease' = "stop"
        /\ known' = [others |-> others, known |-> TRUE] /\ saved' = [others |-> others, known |-> TRUE]
        /\ UNCHANGED <<others, swaps, samples, gate, auditedAt, between, earned>>
    BY <1>6 DEF Release!Select, Release!Stay, Release!host, Release!history
  <2>2. ReleaseTypes'
    BY <2>1 DEF ReleaseTypes
  <2>3. InventoryIsSaved' /\ SwapsAreSeen' /\ Release!GateIsEarned'
    BY <2>1 DEF InventoryIsSaved, SwapsAreSeen, Observing, Release!GateIsEarned
  <2>4. QED
    BY <2>2, <2>3
<1>7. CASE Release!Die \/ Release!Stop \/ Release!Audit
  BY <1>1, <1>7 DEF Release!Die, Release!Stop, Release!Audit, Release!AsBefore, Release!Stay, Release!host,
     Release!history, ReleaseTypes, InventoryIsSaved, Observing
<1>8. CASE Release!Settle \/ Release!NotIdle
  BY <1>1, <1>8 DEF Release!Settle, Release!NotIdle, Release!Stay, Release!host,
     Release!history, ReleaseTypes, InventoryIsSaved, Observing
\* A sample of the windows is the counter of that moment.
<1>9. ASSUME pcRelease = "windows", samples' = Append(samples, swaps),
             UNCHANGED <<known, saved, others, swaps, auditedAt>>,
             pcRelease' \in {"windows", "off"},
             between' => between /\ samples # <<>>
      PROVE  ReleaseTypes' /\ InventoryIsSaved' /\ SwapsAreSeen'
  <2>1. samples \in Seq(Nat) /\ swaps \in Nat
    BY DEF ReleaseTypes
  <2>2. /\ samples' \in Seq(Nat) /\ Len(samples') = Len(samples) + 1
        /\ samples'[1] = IF samples = <<>> THEN swaps ELSE samples[1]
    <3>1. CASE samples = <<>>
      BY <1>9, <2>1, <3>1
    <3>2. CASE samples # <<>>
      BY <1>9, <2>1, <3>2
    <3>3. QED
      BY <3>1, <3>2
  <2>3. ReleaseTypes'
    BY <1>9, <2>2 DEF ReleaseTypes
  <2>4. InventoryIsSaved'
    BY <1>9 DEF InventoryIsSaved, Observing
  <2>5. SwapsAreSeen'
    BY <1>9, <2>1, <2>2 DEF SwapsAreSeen
  <2>6. QED
    BY <2>3, <2>4, <2>5
<1>10. CASE Release!Sample
  <2>1. /\ UNCHANGED <<pcRelease, known, saved, others, swaps, auditedAt, gate, earned>>
        /\ pcRelease = "windows" /\ samples' = Append(samples, swaps)
        /\ between' => between /\ samples # <<>>
    BY <1>10 DEF Release!Sample, Release!Stay, Release!host
  <2>2. Release!GateIsEarned'
    BY <2>1 DEF Release!GateIsEarned
  <2>3. QED
    BY <1>9, <2>1, <2>2
<1>11. CASE Release!Decide
  <2>1. /\ UNCHANGED <<known, saved, others, swaps, auditedAt, between>>
        /\ pcRelease = "windows" /\ pcRelease' = "off" /\ samples' = Append(samples, swaps)
        /\ Len(samples) + 1 = 2 * WindowSamples
        /\ earned' = [others |-> auditedAt, swapped |-> between]
        /\ gate' = IF Release!AllStable(samples') THEN "passed" ELSE "failed"
    BY <1>11 DEF Release!Decide, Release!Stay, Release!host
  <2>2. samples \in Seq(Nat) /\ swaps \in Nat /\ samples # <<>>
    <3>1. samples \in Seq(Nat) /\ swaps \in Nat
      BY DEF ReleaseTypes
    <3>2. samples # <<>>
      BY <1>0, <2>1, <3>1
    <3>3. QED
      BY <3>1, <3>2
  <2>3. ReleaseTypes' /\ InventoryIsSaved' /\ SwapsAreSeen'
    BY <1>9, <2>1, <2>2
  \* The first and the last sample are the same only when no page was swapped between them.
  <2>4. Release!AllStable(samples') => ~between
    <3>1. /\ samples'[1] = samples[1] /\ samples'[2 * WindowSamples] = swaps /\ samples[1] \in Nat
      BY <2>1, <2>2
    <3>2. Release!AllStable(samples') => samples'[2 * WindowSamples] = samples'[1]
      BY <1>0 DEF Release!AllStable, Release!Stable
    <3>3. QED
      BY <2>2, <3>1, <3>2 DEF SwapsAreSeen
  <2>5. Release!GateIsEarned'
    BY <2>1, <2>4 DEF InventoryIsSaved, Observing, Release!GateIsEarned
  <2>6. QED
    BY <2>3, <2>5
<1>12. QED
  BY <1>2, <1>3, <1>4, <1>5, <1>6, <1>7, <1>8, <1>10, <1>11 DEF Release!Next, Release!Main

LEMMA ReleaseSteps == [ToolsNext]_everything => [Release!Next]_(Release!vars)
  BY DEF ToolsNext, everything, Release!vars, Release!script, Release!host, Release!history, releaseVars,
     OthersOfRun, OthersOfStack, OthersOfSeatMap, OthersOfQualify, OthersOfInputs, OthersOfSmoke,
     OthersOfPools, OthersOfActivity, OthersOfProtocol, OthersOfAccount, OthersOfFixture, OthersOfStartup

\* The swap gate opens only on a host that earned it.
LEMMA GatesAreEarned == ToolsSpec => []Release!GateIsEarned
<1>1. ToolsInit => ReleaseInv
  BY ReleaseBegins DEF ToolsInit
<1>2. ReleaseInv /\ [ToolsNext]_everything => ReleaseInv'
  BY ReleaseKeeps, ReleaseSteps
<1>3. ReleaseInv => Release!GateIsEarned
  BY DEF ReleaseInv
<1>4. QED
  BY <1>1, <1>2, <1>3, PTL DEF ToolsSpec

-----------------------------------------------------------------------------
(* The seat-map runs.                                                      *)

Probing == {"prepare", "probe", "quiet", "baseline", "before", "launch"}
Reading == {"drained", "after", "judge"}
Snapshots == [total : Nat, inFlight : {0, 1}, age : {"live", "old", "expired"}]

SeatMapTypes ==
    /\ tool \in {"none", "calibrate", "capacity", "diagnose"}
    /\ pcSeatMap \in {"idle", "loop"} \cup Probing \cup Reading
    /\ runSeatMap \in 0 .. MaxRuns
    /\ generator \in [SeatMap!Runs -> {"none", "starting", "running", "gone"}]
    /\ sent \in [SeatMap!Runs -> Nat] /\ finished \in [SeatMap!Runs -> Nat]
    /\ open \in [SeatMap!Runs -> Nat] /\ trouble \in [SeatMap!Runs -> BOOLEAN]
    /\ up \in BOOLEAN /\ startedSeatMap \in Nat /\ startedAt \in Nat
    /\ total \in Nat /\ before \in Nat
    /\ snapshot \in Snapshots /\ after \in Snapshots

RunIsKnown ==
    /\ startedAt <= startedSeatMap
    /\ pcSeatMap # "idle" => runSeatMap > 0 /\ identity = startedAt
    /\ resultSeatMap = "passed" => pcSeatMap = "idle" /\ runSeatMap > 0

\* A request without trouble is answered or still in the backend, and only the generator of the
\* run sends any, unless the run began beside another.
RequestsAreKnown ==
    /\ \A r \in SeatMap!Runs : ~trouble[r] => sent[r] = finished[r] + open[r]
    /\ \A r \in SeatMap!Runs : r > runSeatMap \/ (r = runSeatMap /\ pcSeatMap \in Probing) =>
          generator[r] = "none" /\ sent[r] = 0 /\ finished[r] = 0 /\ open[r] = 0
    /\ ~crowded => \A r \in SeatMap!Runs : r # runSeatMap => ~SeatMap!Alive(r) /\ open[r] = 0
    /\ pcSeatMap \in Reading => ~SeatMap!Alive(runSeatMap)

\* A run without another beside it, on a backend that has not restarted since it began.
Alone == ~crowded /\ tool # "diagnose" /\ up /\ startedSeatMap = startedAt

\* When nothing was in flight, what was read is all there is.
Complete(read) == read.inFlight = 0 => read.total = total /\ open[runSeatMap] = 0

\* While a run is alone, what it reads is of the moment it takes it for: the reading before the
\* load is the total then, and the one after it counts all that has finished.
CountersAreKnown ==
    Alone =>
        /\ pcSeatMap = "quiet" /\ snapshot.age = "live" => snapshot.total = total
        /\ pcSeatMap \in {"baseline", "before"} /\ snapshot.age # "expired" => snapshot.total = total
        /\ pcSeatMap = "launch" => before = total
        /\ pcSeatMap \in {"loop"} \cup Reading => total = before + finished[runSeatMap]
        /\ pcSeatMap = "drained" /\ snapshot.age = "live" => Complete(snapshot)
        /\ pcSeatMap = "after" /\ snapshot.age # "expired" => Complete(snapshot)
        /\ pcSeatMap = "judge" => Complete(after)

\* A run that passed has nothing left that could change its numbers.
PassedIsOver ==
    /\ resultSeatMap = "passed" /\ tool # "diagnose" /\ ~crowded
    /\ tool = "capacity" \/ (up /\ startedSeatMap = startedAt)
    => /\ open[runSeatMap] = 0 /\ ~SeatMap!Alive(runSeatMap)
       /\ finished[runSeatMap] = sent[runSeatMap]
       /\ after.total - before = finished[runSeatMap]

SeatMapInv == SeatMapTypes /\ RunIsKnown /\ RequestsAreKnown /\ CountersAreKnown /\ PassedIsOver

LEMMA SeatMapBegins == SeatMap!Init => SeatMapInv
<1> SUFFICES ASSUME SeatMap!Init PROVE SeatMapInv
  OBVIOUS
<1>0. MaxRuns \in Nat
  BY InstancesAreValid DEF SeatMap!ConstantsAssumption
<1>1. SeatMapTypes
  BY <1>0 DEF SeatMap!Init, SeatMap!NoSnapshot, SeatMapTypes, Snapshots
<1>2. RunIsKnown /\ RequestsAreKnown /\ CountersAreKnown /\ PassedIsOver
  BY <1>0 DEF SeatMap!Init, RunIsKnown, RequestsAreKnown, CountersAreKnown, PassedIsOver, Probing, Reading,
     SeatMap!Alive, SeatMap!Runs
<1>3. QED
  BY <1>1, <1>2 DEF SeatMapInv

\* A reading is of the counter, and of the requests in the backend.
LEMMA ReadingIsRight ==
    ASSUME SeatMapTypes
    PROVE  /\ SeatMap!Reading \in Snapshots /\ SeatMap!Reading.age # "expired"
           /\ snapshot.age # "expired" => SeatMap!Reading = snapshot
           /\ snapshot.age = "expired" => /\ SeatMap!Reading.total = total
                                          /\ SeatMap!Reading.age = "live"
                                          /\ SeatMap!Reading.inFlight = 0 =>
                                                \A r \in SeatMap!Runs : open[r] = 0
<1>1. SeatMap!InFlight \in {0, 1}
  BY DEF SeatMap!InFlight
<1>2. SeatMap!InFlight = 0 => \A r \in SeatMap!Runs : open[r] = 0
  BY DEF SeatMap!InFlight, SeatMapTypes
<1>3. QED
  BY <1>1, <1>2 DEF SeatMap!Reading, SeatMapTypes, Snapshots

LEMMA SeatMapKeeps == SeatMapInv /\ [SeatMap!Next]_(SeatMap!vars) => SeatMapInv'
<1> SUFFICES ASSUME SeatMapInv, [SeatMap!Next]_(SeatMap!vars) PROVE SeatMapInv'
  OBVIOUS
<1> USE DEF SeatMapInv
<1>0. MaxRuns \in Nat
  BY InstancesAreValid DEF SeatMap!ConstantsAssumption
<1>r. pcSeatMap # "idle" \/ resultSeatMap = "passed" => runSeatMap \in SeatMap!Runs
  BY <1>0 DEF SeatMapTypes, RunIsKnown, SeatMap!Runs
<1> USE <1>r DEF SeatMap!process, SeatMap!load, SeatMap!backend
\* The backend.
<1>1. CASE SeatMap!Expire \/ SeatMap!Scrape \/ UNCHANGED SeatMap!vars
  <2>1. /\ UNCHANGED <<SeatMap!process, SeatMap!load, up, startedSeatMap, total>>
        /\ snapshot' \in {snapshot, SeatMap!NoSnapshot, SeatMap!Reading}
        /\ snapshot' = SeatMap!Reading => snapshot.age = "expired" \/ snapshot' = snapshot
    BY <1>1, ReadingIsRight DEF SeatMap!Expire, SeatMap!Scrape, SeatMap!vars, SeatMap!NoSnapshot
  <2>2. SeatMapTypes'
    BY <2>1, ReadingIsRight DEF SeatMapTypes, SeatMap!NoSnapshot, Snapshots
  <2>3. RunIsKnown' /\ RequestsAreKnown' /\ PassedIsOver'
    BY <2>1 DEF RunIsKnown, RequestsAreKnown, PassedIsOver, SeatMap!Alive
  <2>4. CountersAreKnown'
    <3>1. CASE snapshot' = snapshot
      BY <2>1, <3>1 DEF CountersAreKnown, Alone, Complete
    <3>2. CASE snapshot' = SeatMap!NoSnapshot
      BY <2>1, <3>2 DEF CountersAreKnown, Alone, Complete, SeatMap!NoSnapshot
    <3>3. CASE snapshot' = SeatMap!Reading /\ snapshot.age = "expired"
      BY <2>1, <3>3, ReadingIsRight DEF CountersAreKnown, Alone, Complete
    <3>4. QED
      BY <2>1, <3>1, <3>2, <3>3
  <2>5. QED
    BY <2>2, <2>3, <2>4
<1>2. CASE SeatMap!Crash \/ SeatMap!Restart
  <2>1. /\ UNCHANGED <<SeatMap!process, generator, sent, finished>>
        /\ ~up' \/ startedSeatMap' = startedSeatMap + 1
        /\ startedSeatMap' \in {startedSeatMap, startedSeatMap + 1}
        /\ total' \in {total, 0} /\ snapshot' \in {snapshot, SeatMap!NoSnapshot} /\ up' \in BOOLEAN
        /\ open' \in {open, [r \in SeatMap!Runs |-> 0]}
        /\ trouble' \in {trouble, [r \in SeatMap!Runs |-> trouble[r] \/ open[r] > 0]}
        /\ trouble' = trouble => open' = open \/ \A r \in SeatMap!Runs : ~(open[r] > 0) \/ trouble[r]
    BY <1>2 DEF SeatMap!Crash, SeatMap!Restart
  <2>2. SeatMapTypes'
    <3>1. open' \in [SeatMap!Runs -> Nat] /\ trouble' \in [SeatMap!Runs -> BOOLEAN]
      <4>1. open' \in [SeatMap!Runs -> Nat]
        BY <2>1 DEF SeatMapTypes
      <4>2. [r \in SeatMap!Runs |-> trouble[r] \/ open[r] > 0] \in [SeatMap!Runs -> BOOLEAN]
        BY Zenon
      <4>3. trouble' \in [SeatMap!Runs -> BOOLEAN]
        BY <2>1, <4>2 DEF SeatMapTypes
      <4>4. QED
        BY <4>1, <4>3
    <3>2. snapshot' \in Snapshots
      BY <2>1 DEF SeatMapTypes, SeatMap!NoSnapshot, Snapshots
    <3>3. QED
      BY <2>1, <3>1, <3>2 DEF SeatMapTypes
  <2>3. ~up' \/ startedSeatMap' # startedAt'
    BY <2>1 DEF RunIsKnown, SeatMapTypes
  <2>4. RunIsKnown' /\ CountersAreKnown'
    BY <2>1, <2>3 DEF RunIsKnown, SeatMapTypes, CountersAreKnown, Alone
  <2>5. RequestsAreKnown'
    BY <1>2 DEF SeatMap!Crash, SeatMap!Restart, RequestsAreKnown, SeatMapTypes, SeatMap!Alive
  <2>6. PassedIsOver'
    BY <2>1, <2>3 DEF PassedIsOver, SeatMap!Alive
  <2>7. QED
    BY <2>2, <2>4, <2>5, <2>6
\* The generators.
<1>3. ASSUME NEW r \in SeatMap!Runs, SeatMap!Create(r) \/ SeatMap!Exit(r) PROVE SeatMapInv'
  <2>1. /\ UNCHANGED <<SeatMap!process, sent, finished, open, up, startedSeatMap, total, snapshot>>
        /\ SeatMap!Alive(r)
        /\ \E new \in {"running", "gone"} : generator' = [generator EXCEPT ![r] = new]
        /\ trouble' \in {trouble, [trouble EXCEPT ![r] = @ \/ open[r] > 0]}
    BY <1>3 DEF SeatMap!Create, SeatMap!Exit, SeatMap!Alive
  <2>2. SeatMapTypes'
    BY <2>1 DEF SeatMapTypes
  <2>3. RunIsKnown' /\ CountersAreKnown'
    BY <2>1 DEF RunIsKnown, CountersAreKnown, Alone, Complete
  <2>4. RequestsAreKnown'
    BY <2>1 DEF RequestsAreKnown, SeatMapTypes, SeatMap!Alive
  <2>5. PassedIsOver'
    BY <2>1 DEF PassedIsOver, SeatMapTypes, SeatMap!Alive
  <2>6. QED
    BY <2>2, <2>3, <2>4, <2>5
<1>4. ASSUME NEW r \in SeatMap!Runs, SeatMap!Send(r) PROVE SeatMapInv'
  <2>1. /\ UNCHANGED <<SeatMap!process, generator, finished, up, startedSeatMap, total, snapshot>>
        /\ SeatMap!Alive(r) /\ sent' = [sent EXCEPT ![r] = @ + 1]
        /\ \/ open' = [open EXCEPT ![r] = @ + 1] /\ UNCHANGED trouble
           \/ trouble' = [trouble EXCEPT ![r] = TRUE] /\ UNCHANGED open
    BY <1>4 DEF SeatMap!Send, SeatMap!Alive
  <2>2. SeatMapTypes'
    <3>1. trouble' \in [SeatMap!Runs -> BOOLEAN]
      BY <2>1, Zenon DEF SeatMapTypes
    <3>2. open' \in [SeatMap!Runs -> Nat] /\ sent' \in [SeatMap!Runs -> Nat]
      BY <2>1 DEF SeatMapTypes
    <3>3. QED
      BY <2>1, <3>1, <3>2 DEF SeatMapTypes
  <2>3. RequestsAreKnown'
    BY <2>1 DEF RequestsAreKnown, SeatMapTypes, SeatMap!Alive
  <2>4. RunIsKnown' /\ PassedIsOver'
    BY <2>1 DEF RunIsKnown, PassedIsOver, RequestsAreKnown, SeatMapTypes
  \* A generator that sends is not of a run that reads its counters.
  <2>5. CountersAreKnown'
    <3>1. Alone /\ pcSeatMap \in Reading => open'[runSeatMap] = open[runSeatMap]
      BY <2>1 DEF RequestsAreKnown, SeatMapTypes, Reading
    <3>2. QED
      BY <2>1, <3>1 DEF CountersAreKnown, Alone, Complete, Reading
  <2>6. QED
    BY <2>2, <2>3, <2>4, <2>5
<1>5. ASSUME NEW r \in SeatMap!Runs, SeatMap!Answer(r) PROVE SeatMapInv'
  <2>1. /\ UNCHANGED <<SeatMap!process, generator, sent, up, startedSeatMap, snapshot>>
        /\ open[r] > 0 /\ total' = total + 1
        /\ open' = [open EXCEPT ![r] = @ - 1] /\ finished' = [finished EXCEPT ![r] = @ + 1]
        /\ trouble' \in {trouble, [trouble EXCEPT ![r] = TRUE]}
    BY <1>5 DEF SeatMap!Answer
  <2>2. SeatMapTypes'
    <3>1. trouble' \in [SeatMap!Runs -> BOOLEAN]
      BY <2>1, Zenon DEF SeatMapTypes
    <3>2. open' \in [SeatMap!Runs -> Nat] /\ finished' \in [SeatMap!Runs -> Nat] /\ total' \in Nat
      BY <2>1 DEF SeatMapTypes
    <3>3. QED
      BY <2>1, <3>1, <3>2 DEF SeatMapTypes
  <2>3. RequestsAreKnown'
    BY <2>1 DEF RequestsAreKnown, SeatMapTypes, SeatMap!Alive
  <2>4. RunIsKnown' /\ PassedIsOver'
    BY <2>1 DEF RunIsKnown, PassedIsOver, RequestsAreKnown, SeatMapTypes
  \* Without another generator it is a request of this run.
  <2>5. CountersAreKnown'
    <3>1. Alone /\ pcSeatMap # "idle" => r = runSeatMap /\ pcSeatMap \notin Probing
      BY <2>1 DEF Alone, RequestsAreKnown, SeatMapTypes
    <3>2. Alone' <=> Alone
      BY <2>1 DEF Alone
    <3>3. QED
      BY <2>1, <3>1, <3>2 DEF CountersAreKnown, Complete, SeatMapTypes, Probing, Reading
  <2>6. QED
    BY <2>2, <2>3, <2>4, <2>5
\* A tool begins, and a tool ends by an error.
<1>6. ASSUME NEW name \in {"calibrate", "capacity", "diagnose"}, SeatMap!Begin(name) PROVE SeatMapInv'
  <2>1. /\ UNCHANGED <<SeatMap!load, SeatMap!backend>>
        /\ pcSeatMap = "idle" /\ runSeatMap < MaxRuns /\ runSeatMap' = runSeatMap + 1 /\ tool' = name
        /\ pcSeatMap' \in {"probe", "prepare"} /\ identity' = startedSeatMap /\ startedAt' = startedSeatMap
        /\ crowded' = \E r \in SeatMap!Runs : SeatMap!Alive(r) \/ open[r] > 0
        /\ resultSeatMap' = "none" /\ before' = 0 /\ after' = SeatMap!NoSnapshot
    BY <1>6 DEF SeatMap!Begin
  <2>2. SeatMapTypes'
    BY <1>0, <2>1 DEF SeatMapTypes, Probing, SeatMap!NoSnapshot, Snapshots
  <2>3. RunIsKnown' /\ CountersAreKnown' /\ PassedIsOver'
    BY <2>1 DEF RunIsKnown, CountersAreKnown, PassedIsOver, SeatMapTypes, Reading
  <2>4. RequestsAreKnown'
    BY <1>0, <2>1 DEF RequestsAreKnown, SeatMapTypes, SeatMap!Alive, SeatMap!Runs, Reading
  <2>5. QED
    BY <2>2, <2>3, <2>4
<1>7. ASSUME SeatMap!Raise, pcSeatMap # "idle", total' \in Nat, snapshot' \in Snapshots,
             UNCHANGED <<up, startedSeatMap>>
      PROVE  SeatMapInv'
  <2>1. /\ UNCHANGED <<tool, runSeatMap, startedAt, crowded, identity, before, after, sent, finished, open>>
        /\ pcSeatMap' = "idle" /\ resultSeatMap' = "error"
        /\ \/ UNCHANGED <<generator, trouble>>
           \/ /\ generator' = [generator EXCEPT ![runSeatMap] = "gone"]
              /\ trouble' = [trouble EXCEPT ![runSeatMap] = TRUE]
              /\ generator[runSeatMap] = "running"
    BY <1>7 DEF SeatMap!Raise, SeatMap!StopGenerator, SeatMap!Stopped, SeatMap!NotStopped
  <2>2. SeatMapTypes'
    BY <1>7, <2>1 DEF SeatMapTypes
  <2>3. RunIsKnown' /\ CountersAreKnown' /\ PassedIsOver'
    BY <1>7, <2>1 DEF RunIsKnown, CountersAreKnown, PassedIsOver, Probing, Reading
  <2>4. RequestsAreKnown'
    BY <1>7, <2>1 DEF RequestsAreKnown, SeatMapTypes, SeatMap!Alive, Probing, Reading
  <2>5. QED
    BY <2>2, <2>3, <2>4
\* The tool goes on.
<1>8. ASSUME UNCHANGED <<tool, runSeatMap, resultSeatMap, startedAt, crowded, identity, after,
                         SeatMap!load, up, startedSeatMap>>,
             total' \in Nat, before' \in Nat, snapshot' \in Snapshots,
             resultSeatMap # "passed",
             pcSeatMap' \in {"loop"} \cup Probing \cup {"drained", "after"}, pcSeatMap # "idle",
             pcSeatMap' \in Probing => pcSeatMap \in Probing,
             pcSeatMap' \in Reading => ~SeatMap!Alive(runSeatMap),
             CountersAreKnown'
      PROVE  SeatMapInv'
  <2>1. SeatMapTypes'
    BY <1>8 DEF SeatMapTypes, Reading
  <2>2. RunIsKnown' /\ PassedIsOver'
    BY <1>8 DEF RunIsKnown, PassedIsOver
  <2>3. RequestsAreKnown'
    BY <1>8 DEF RequestsAreKnown, SeatMap!Alive
  <2>4. QED
    BY <1>8, <2>1, <2>2, <2>3
<1>9. pcSeatMap # "idle" => resultSeatMap # "passed"
  BY DEF RunIsKnown
<1> USE DEF SeatMap!Goto
<1>10. CASE SeatMap!Prepare
  <2>1. CASE SeatMap!Raise
    BY <1>7, <1>10, <2>1 DEF SeatMap!Prepare, SeatMapTypes
  <2>2. CASE ~SeatMap!Raise
    <3>1. CountersAreKnown'
      BY <1>10, <2>2 DEF SeatMap!Prepare, CountersAreKnown, Reading
    <3>2. QED
      BY <1>8, <1>9, <1>10, <2>2, <3>1 DEF SeatMap!Prepare, SeatMapTypes, Probing, Reading
  <2>3. QED
    BY <2>1, <2>2
<1>11. CASE SeatMap!Probe
  <2>0. snapshot' \in Snapshots /\ total' \in Nat
    BY <1>11 DEF SeatMap!Probe, SeatMap!Quieten, SeatMapTypes, Snapshots
  <2>1. CASE SeatMap!Raise
    BY <1>7, <1>11, <2>0, <2>1 DEF SeatMap!Probe
  <2>2. CASE ~SeatMap!Raise
    <3>1. CountersAreKnown'
      BY <1>11, <2>2 DEF SeatMap!Probe, SeatMap!Quieten, CountersAreKnown, Alone, Reading, SeatMapTypes, Snapshots
    <3>2. QED
      BY <1>8, <1>9, <1>11, <2>0, <2>2, <3>1 DEF SeatMap!Probe, SeatMapTypes, Probing, Reading
  <2>3. QED
    BY <2>1, <2>2
<1>12. CASE SeatMap!QuietPeriod
  <2>0. snapshot' \in Snapshots
    BY <1>12 DEF SeatMap!QuietPeriod, SeatMap!NoSnapshot, SeatMapTypes, Snapshots
  <2>1. CountersAreKnown'
    BY <1>12 DEF SeatMap!QuietPeriod, SeatMap!NoSnapshot, CountersAreKnown, Alone, Complete, Reading,
       SeatMapTypes, Snapshots
  <2>2. QED
    BY <1>8, <1>9, <1>12, <2>0, <2>1
       DEF SeatMap!QuietPeriod, SeatMapTypes, Probing, Reading, RequestsAreKnown
<1>13. CASE SeatMap!Baseline
  <2>0. snapshot' \in Snapshots
    BY <1>13, ReadingIsRight DEF SeatMap!Baseline, SeatMapTypes
  <2>1. CASE SeatMap!Raise
    BY <1>7, <1>13, <2>0, <2>1 DEF SeatMap!Baseline, SeatMapTypes
  <2>2. CASE ~SeatMap!Raise
    <3>1. CountersAreKnown'
      BY <1>13, <2>2, ReadingIsRight DEF SeatMap!Baseline, CountersAreKnown, Alone, Reading
    <3>2. QED
      BY <1>8, <1>9, <1>13, <2>0, <2>2, <3>1 DEF SeatMap!Baseline, SeatMapTypes, Probing, Reading
  <2>3. QED
    BY <2>1, <2>2
<1>14. CASE SeatMap!Before
  <2>0. snapshot' \in Snapshots /\ before' \in Nat
    BY <1>14, ReadingIsRight DEF SeatMap!Before, SeatMapTypes, Snapshots
  <2>1. CASE SeatMap!Raise
    BY <1>7, <1>14, <2>0, <2>1 DEF SeatMap!Before, SeatMapTypes
  <2>2. CASE ~SeatMap!Raise
    <3>1. CountersAreKnown'
      BY <1>14, <2>2, ReadingIsRight DEF SeatMap!Before, CountersAreKnown, Alone, Reading
    <3>2. QED
      BY <1>8, <1>9, <1>14, <2>0, <2>2, <3>1 DEF SeatMap!Before, SeatMapTypes, Probing, Reading
  <2>3. QED
    BY <2>1, <2>2
<1>15. CASE SeatMap!Launch
  <2>1. /\ UNCHANGED <<tool, runSeatMap, resultSeatMap, startedAt, crowded, identity, after, before,
                       sent, finished, open, trouble, SeatMap!backend>>
        /\ pcSeatMap = "launch" /\ pcSeatMap' = "loop"
        /\ generator' = [generator EXCEPT ![runSeatMap] = "starting"]
    BY <1>15 DEF SeatMap!Launch
  <2>2. SeatMapTypes'
    BY <2>1 DEF SeatMapTypes
  <2>3. RunIsKnown' /\ PassedIsOver'
    BY <1>9, <2>1 DEF RunIsKnown, PassedIsOver
  <2>4. RequestsAreKnown'
    BY <2>1 DEF RequestsAreKnown, SeatMapTypes, SeatMap!Alive, Probing, Reading, SeatMap!Runs
  <2>5. CountersAreKnown'
    BY <2>1 DEF CountersAreKnown, Alone, RequestsAreKnown, SeatMapTypes, Probing, Reading
  <2>6. QED
    BY <2>2, <2>3, <2>4, <2>5
<1>16. CASE SeatMap!Deadline
  <2>1. UNCHANGED <<pcSeatMap, tool, runSeatMap, resultSeatMap, startedAt, crowded, identity, after, before,
                    SeatMap!load, SeatMap!backend>>
    BY <1>16 DEF SeatMap!Deadline
  <2>2. QED
    BY <2>1 DEF SeatMapTypes, RunIsKnown, RequestsAreKnown, CountersAreKnown, PassedIsOver, Alone, Complete,
       SeatMap!Alive
<1>17. CASE SeatMap!Sample
  <2>0. snapshot' \in Snapshots
    BY <1>17, ReadingIsRight DEF SeatMap!Sample, SeatMapTypes
  <2>1. QED
    BY <1>7, <1>17, <2>0 DEF SeatMap!Sample, SeatMapTypes
<1>18. CASE SeatMap!EarlyStop
  <2>0. snapshot' \in Snapshots
    BY <1>18, ReadingIsRight DEF SeatMap!EarlyStop, SeatMapTypes
  <2>1. CASE SeatMap!Raise
    BY <1>7, <1>18, <2>0, <2>1 DEF SeatMap!EarlyStop, SeatMapTypes
  <2>2. CASE ~SeatMap!Raise
    <3>1. /\ UNCHANGED <<SeatMap!process, sent, finished, open, up, startedSeatMap, total>>
          /\ pcSeatMap = "loop" /\ generator[runSeatMap] = "running"
          /\ generator' = [generator EXCEPT ![runSeatMap] = "gone"]
          /\ trouble' = [trouble EXCEPT ![runSeatMap] = TRUE]
      BY <1>18, <2>2 DEF SeatMap!EarlyStop, SeatMap!Stopped
    <3>2. SeatMapTypes'
      BY <2>0, <3>1 DEF SeatMapTypes
    <3>3. RunIsKnown' /\ PassedIsOver' /\ CountersAreKnown'
      BY <1>9, <3>1 DEF RunIsKnown, PassedIsOver, CountersAreKnown, Alone, Reading
    <3>4. RequestsAreKnown'
      BY <3>1 DEF RequestsAreKnown, SeatMapTypes, SeatMap!Alive, Probing, Reading
    <3>5. QED
      BY <3>2, <3>3, <3>4
  <2>3. QED
    BY <2>1, <2>2
<1>19. CASE SeatMap!LoadEnded
  <2>1. /\ UNCHANGED <<tool, runSeatMap, resultSeatMap, startedAt, crowded, identity, after, before,
                       SeatMap!load, up, startedSeatMap, total>>
        /\ pcSeatMap = "loop" /\ ~SeatMap!Alive(runSeatMap)
        /\ pcSeatMap' = IF tool = "diagnose" THEN "after" ELSE "drained"
        /\ \E read \in {SeatMap!Reading, snapshot} :
              snapshot' = IF tool = "diagnose" THEN read ELSE [read EXCEPT !.age = "old"]
    BY <1>19 DEF SeatMap!LoadEnded
  <2>2. snapshot' \in Snapshots /\ (tool # "diagnose" => snapshot'.age = "old")
    <3>1. PICK read \in Snapshots : snapshot' = IF tool = "diagnose" THEN read ELSE [read EXCEPT !.age = "old"]
      BY <2>1, ReadingIsRight DEF SeatMapTypes
    <3>2. QED
      BY <3>1 DEF Snapshots
  <2>3. CountersAreKnown'
    BY <2>1, <2>2 DEF CountersAreKnown, Alone, Reading
  <2>4. QED
    BY <1>8, <1>9, <2>1, <2>2, <2>3 DEF SeatMapTypes, Probing, Reading
<1>20. CASE SeatMap!After
  <2>0. snapshot' \in Snapshots
    BY <1>20, ReadingIsRight DEF SeatMap!After, SeatMapTypes
  <2>1. CASE SeatMap!Raise
    BY <1>7, <1>20, <2>0, <2>1 DEF SeatMap!After, SeatMapTypes
  <2>2. CASE ~SeatMap!Raise
    <3>1. /\ UNCHANGED <<tool, runSeatMap, resultSeatMap, startedAt, crowded, identity, before,
                         SeatMap!load, up, startedSeatMap, total>>
          /\ pcSeatMap = "after" /\ pcSeatMap' = "judge" /\ after' = SeatMap!Reading
      BY <1>20, <2>2 DEF SeatMap!After
    <3>2. SeatMapTypes'
      BY <2>0, <3>1, ReadingIsRight DEF SeatMapTypes, Reading
    <3>3. RunIsKnown' /\ PassedIsOver' /\ RequestsAreKnown'
      BY <1>9, <3>1 DEF RunIsKnown, PassedIsOver, RequestsAreKnown, SeatMap!Alive, Probing, Reading
    <3>4. CountersAreKnown'
      BY <3>1, ReadingIsRight DEF CountersAreKnown, Alone, Complete, Reading
    <3>5. QED
      BY <3>2, <3>3, <3>4
  <2>3. QED
    BY <2>1, <2>2
<1>21. CASE SeatMap!Judge
  <2>1. /\ UNCHANGED <<tool, runSeatMap, identity, before, after, startedAt, crowded, SeatMap!load,
                       SeatMap!backend>>
        /\ pcSeatMap = "judge" /\ pcSeatMap' = "idle"
        /\ resultSeatMap' = "passed" => SeatMap!SameBackend /\ SeatMap!Drained /\ ~trouble[runSeatMap]
    BY <1>21 DEF SeatMap!Judge
  <2>2. SeatMapTypes' /\ RunIsKnown' /\ CountersAreKnown'
    BY <2>1 DEF SeatMapTypes, RunIsKnown, CountersAreKnown, Reading
  <2>3. RequestsAreKnown'
    BY <2>1 DEF RequestsAreKnown, SeatMap!Alive, Probing, Reading
  \* What was in flight when the counter was read is zero, so that it was the last word.
  <2>4. PassedIsOver'
    <3>1. SUFFICES ASSUME resultSeatMap' = "passed", tool # "diagnose", ~crowded,
                          tool = "capacity" \/ (up /\ startedSeatMap = startedAt)
                   PROVE  /\ open[runSeatMap] = 0 /\ ~SeatMap!Alive(runSeatMap)
                          /\ finished[runSeatMap] = sent[runSeatMap]
                          /\ after.total - before = finished[runSeatMap]
      BY <2>1 DEF PassedIsOver, SeatMap!Alive
    <3>2. Alone /\ after.inFlight = 0
      BY <2>1, <3>1 DEF SeatMap!SameBackend, SeatMap!Drained, Alone, RunIsKnown
    <3>3. after.total = total /\ open[runSeatMap] = 0 /\ total = before + finished[runSeatMap]
      BY <2>1, <3>2 DEF CountersAreKnown, Complete, Reading
    <3>4. sent[runSeatMap] = finished[runSeatMap] + open[runSeatMap] /\ ~SeatMap!Alive(runSeatMap)
      BY <2>1, <3>1 DEF RequestsAreKnown, Reading
    <3>5. finished[runSeatMap] \in Nat /\ before \in Nat
      BY <2>1 DEF SeatMapTypes
    <3>6. QED
      BY <3>3, <3>4, <3>5
  <2>5. QED
    BY <2>2, <2>3, <2>4
<1>i. CASE SeatMap!Interrupt
  <2>1. /\ UNCHANGED <<tool, runSeatMap, identity, startedAt, crowded, SeatMap!load, SeatMap!backend>>
        /\ pcSeatMap # "idle" /\ pcSeatMap' = "idle" /\ resultSeatMap' = "none"
        /\ before' = 0 /\ after' = SeatMap!NoSnapshot
    BY <1>i DEF SeatMap!Interrupt
  <2>2. SeatMapTypes'
    BY <2>1 DEF SeatMapTypes, SeatMap!NoSnapshot, Snapshots
  <2>3. RunIsKnown' /\ CountersAreKnown' /\ PassedIsOver'
    BY <2>1 DEF RunIsKnown, CountersAreKnown, PassedIsOver, Probing, Reading
  <2>4. RequestsAreKnown'
    BY <2>1 DEF RequestsAreKnown, SeatMapTypes, SeatMap!Alive, Probing, Reading
  <2>5. QED
    BY <2>2, <2>3, <2>4
<1>22. QED
  BY <1>1, <1>2, <1>3, <1>4, <1>5, <1>6, <1>10, <1>11, <1>12, <1>13, <1>14, <1>15, <1>16, <1>17, <1>18,
     <1>19, <1>20, <1>21, <1>i DEF SeatMap!Next, SeatMap!Main

LEMMA SeatMapSteps == [ToolsNext]_everything => [SeatMap!Next]_(SeatMap!vars)
  BY DEF ToolsNext, everything, SeatMap!vars, SeatMap!process, SeatMap!load, SeatMap!backend, seatMapVars,
     OthersOfRun, OthersOfStack, OthersOfQualify, OthersOfRelease, OthersOfInputs, OthersOfSmoke,
     OthersOfPools, OthersOfActivity, OthersOfProtocol, OthersOfAccount, OthersOfFixture, OthersOfStartup

\* The difference of the counters that a passed seat-map run reports is its load.
LEMMA WindowsAreOfTheirLoads == ToolsSpec => []SeatMap!WindowIsTheLoads
<1>1. ToolsInit => SeatMapInv
  BY SeatMapBegins DEF ToolsInit
<1>2. SeatMapInv /\ [ToolsNext]_everything => SeatMapInv'
  BY SeatMapKeeps, SeatMapSteps
<1>3. SeatMapInv => SeatMap!WindowIsTheLoads
  BY DEF SeatMapInv, PassedIsOver, SeatMap!WindowIsTheLoads
<1>4. QED
  BY <1>1, <1>2, <1>3, PTL DEF ToolsSpec

-----------------------------------------------------------------------------
(* The reconciliation of the journeys.                                     *)

Changes == {"reservation", "login", "hold", "confirm", "pay"}
Requests == Changes \cup {"recover", "order", "poll", "identity"}
Results == {"business_success", "business_conflict", "capacity_rejection", "system_error",
            "unexpected_contract"}

AccountTypes ==
    /\ kindAccount \in {"formal", "temporary", "order", "payment", "login"}
    /\ at \in [Users -> Requests \cup {"done"}] /\ sentAccount \subseteq Users
    /\ \A u \in sentAccount : at[u] # "done"
    /\ pcAccount # "load" => \A u \in Users : at[u] = "done"
    /\ handling \in [Users -> Changes \cup {"none"}]
    /\ told \subseteq [user : Users, step : Requests \cup {"payment_terminal"}, result : Results]
    /\ checkout \in [Users -> {"none", "selecting", "submitting", "reserved"}]
    /\ order \in [Users -> {"none", "pending", "processing", "paid", "overdue"}]
    /\ session \subseteq Users /\ ownerAccount \in Users \cup {"none"}
    /\ captured \in Users \cup {"none"}

Told(u, step) == [user |-> u, step |-> step, result |-> "business_success"] \in told

\* What is said of a user who was told of no error: where the journey is, what the database has
\* of it and what was counted.
Journey(u) ==
    /\ handling[u] # "none" => u \in sentAccount /\ at[u] = handling[u]
    /\ kindAccount = "formal" =>
          /\ at[u] \in {"reservation", "done"}
          /\ order[u] # "none" <=> Told(u, "reservation")
          /\ ~Told(u, "order")
    /\ kindAccount = "temporary" => at[u] \in {"hold", "done"}
    /\ kindAccount = "order" =>
          /\ at[u] \in {"hold", "confirm", "order", "done"}
          /\ at[u] \in {"order", "done"} => order[u] # "none"
          /\ at[u] = "done" => Told(u, "order")
    /\ kindAccount = "payment" =>
          /\ at[u] \in {"hold", "confirm", "order", "pay", "poll", "done"}
          /\ at[u] \notin {"hold", "confirm"} => checkout[u] = "reserved"
          /\ at[u] = "done" => order[u] = "paid" /\ Told(u, "payment_terminal")
    /\ kindAccount = "login" =>
          /\ at[u] \in {"login", "identity", "done"}
          /\ Told(u, "identity") => u \in session
          /\ u \in session => at[u] \in {"identity", "done"}
          /\ at[u] = "identity" => u \in session
          /\ at[u] = "done" /\ u \in session => Told(u, "identity")

\* Who had the hot seat was told so; and what was compared does not change any more.
HotSeat ==
    kindAccount = "temporary" =>
        /\ ownerAccount # "none" => Told(ownerAccount, "hold")
        /\ captured # "none" => Told(captured, "hold")
        /\ pcAccount \in {"probes", "over"} /\ correct =>
              Account!Successes(Account!HotSteps) = 1 /\ captured # "none"

\* As long as nobody was told of an error, the database agrees with what was told; a
\* reconciliation with an error counts nothing.
AccountInv ==
    /\ AccountTypes
    /\ Account!NoErrors => HotSeat /\ \A u \in Users : Journey(u)

LEMMA WithMeans ==
    ASSUME AccountTypes, NEW steps
    PROVE  /\ Account!With(steps, "business_success") \subseteq Users
           /\ \A u \in Users : u \in Account!With(steps, "business_success")
                                  <=> \E step \in steps : Told(u, step)
<1>1. Account!With(steps, "business_success") \subseteq Users
  BY DEF Account!With, AccountTypes
<1>2. ASSUME NEW u \in Users, u \in Account!With(steps, "business_success")
      PROVE  \E step \in steps : Told(u, step)
  <2>1. PICK r \in told : r.user = u /\ r.step \in steps /\ r.result = "business_success"
    BY <1>2 DEF Account!With
  <2>2. r = [user |-> u, step |-> r.step, result |-> "business_success"]
    BY <2>1 DEF AccountTypes
  <2>3. QED
    BY <2>1, <2>2 DEF Told
<1>3. ASSUME NEW u \in Users, NEW step \in steps, Told(u, step)
      PROVE  u \in Account!With(steps, "business_success")
  BY <1>3 DEF Account!With, Told
<1>4. QED
  BY <1>1, <1>2, <1>3

LEMMA AccountBegins == Account!Init => AccountInv
<1> SUFFICES ASSUME Account!Init PROVE AccountInv
  OBVIOUS
<1>1. AccountTypes
  BY DEF Account!Init, Account!First, AccountTypes, Requests, Changes
<1>2. HotSeat /\ \A u \in Users : Journey(u)
  BY DEF Account!Init, Account!First, HotSeat, Journey, Told
<1>3. QED
  BY <1>1, <1>2 DEF AccountInv

\* A count adds one entry, which is of this user.
LEMMA CountShape ==
    ASSUME AccountTypes, NEW u \in Users, NEW step \in Requests \cup {"payment_terminal"},
           NEW outcome \in Results, Account!Count(u, step, outcome)
    PROVE  /\ told' \subseteq [user : Users, step : Requests \cup {"payment_terminal"}, result : Results]
           /\ told \subseteq told'
           /\ outcome \in {"system_error", "unexpected_contract"} => ~Account!NoErrors'
           /\ \A v \in Users, s \in Requests \cup {"payment_terminal"} :
                 Told(v, s)' <=> Told(v, s) \/ (v = u /\ s = step /\ outcome = "business_success")
<1> DEFINE new == [user |-> u, step |-> step, result |-> outcome]
<1>1. told' = told \cup {new}
  BY DEF Account!Count
<1>2. new \in [user : Users, step : Requests \cup {"payment_terminal"}, result : Results]
  OBVIOUS
<1>3. outcome \in {"system_error", "unexpected_contract"} => ~Account!NoErrors'
  <2>1. new \in told' /\ new.result = outcome
    BY <1>1
  <2>2. QED
    BY <2>1 DEF Account!NoErrors
<1>4. ASSUME NEW v \in Users, NEW s \in Requests \cup {"payment_terminal"}
      PROVE  Told(v, s)' <=> Told(v, s) \/ (v = u /\ s = step /\ outcome = "business_success")
  BY <1>1 DEF Told
<1>5. QED
  BY <1>1, <1>2, <1>3, <1>4 DEF AccountTypes

\* What a step of one user is to the invariant.
LEMMA OneUserMoves ==
    ASSUME AccountInv, AccountTypes', NEW u \in Users, pcAccount' = pcAccount,
           UNCHANGED <<kindAccount, captured, correct>>,
           told' = told \/ \E step \in Requests, outcome \in Results : Account!Count(u, step, outcome)
                        \/ Account!Count(u, "payment_terminal", outcome),
           \A v \in Users : v # u =>
              /\ at'[v] = at[v] /\ handling'[v] = handling[v]
              /\ v \in sentAccount' <=> v \in sentAccount
              /\ checkout'[v] = checkout[v] /\ order'[v] = order[v]
              /\ v \in session' <=> v \in session,
           told' # told => at[u] # "done",
           ownerAccount' = ownerAccount \/ (ownerAccount' = u /\ Told(u, "hold")'),
           Account!NoErrors' => Journey(u)'
    PROVE  AccountInv'
<1>1. /\ told \subseteq told'
      /\ \A v \in Users, s \in Requests \cup {"payment_terminal"} : v # u => (Told(v, s)' <=> Told(v, s))
      /\ \A v \in Users, s \in Requests \cup {"payment_terminal"} : Told(v, s) => Told(v, s)'
  <2>1. CASE told' = told
    BY <2>1 DEF Told
  <2>2. ASSUME NEW step \in Requests \cup {"payment_terminal"}, NEW outcome \in Results,
               Account!Count(u, step, outcome)
        PROVE  <1>1
    BY <2>2, CountShape DEF AccountInv
  <2>3. QED
    BY <2>1, <2>2
<1> SUFFICES ASSUME Account!NoErrors' PROVE HotSeat' /\ \A v \in Users : Journey(v)'
  BY DEF AccountInv
<1>2. Account!NoErrors
  BY <1>1 DEF Account!NoErrors
<1>3. ASSUME NEW v \in Users, v # u PROVE Journey(v)'
  <2>1. Journey(v)
    BY <1>2 DEF AccountInv
  <2>2. \A s \in {"reservation", "order", "payment_terminal", "identity"} : Told(v, s)' <=> Told(v, s)
    BY <1>1, <1>3 DEF Requests, Changes
  <2>3. QED
    BY <1>3, <2>1, <2>2 DEF Journey
<1>4. HotSeat'
  <2>1. SUFFICES ASSUME kindAccount = "temporary"
                 PROVE  /\ ownerAccount' # "none" => Told(ownerAccount, "hold")'
                        /\ captured # "none" => Told(captured, "hold")'
                        /\ pcAccount \in {"probes", "over"} /\ correct =>
                              Account!Successes(Account!HotSteps)' = 1 /\ captured # "none"
    BY DEF HotSeat
  <2>2. \A v \in Users : Told(v, "hold") => Told(v, "hold")'
    BY <1>1 DEF Requests, Changes
  <2>3. HotSeat /\ Journey(u)
    BY <1>2 DEF AccountInv
  <2>4. ownerAccount' # "none" => Told(ownerAccount, "hold")'
    <3>1. CASE ownerAccount' = ownerAccount
      <4>1. ownerAccount # "none" => ownerAccount \in Users /\ Told(ownerAccount, "hold")
        BY <2>1, <2>3 DEF HotSeat, AccountInv, AccountTypes
      <4>2. QED
        BY <2>2, <3>1, <4>1 DEF Told
    <3>2. CASE ownerAccount' = u /\ Told(u, "hold")'
      BY <3>2 DEF Told
    <3>3. QED
      BY <3>1, <3>2
  <2>5. captured # "none" => Told(captured, "hold")'
    BY <2>1, <2>2, <2>3 DEF HotSeat, AccountInv, AccountTypes, Told
  <2>6. pcAccount \in {"probes", "over"} => told' = told
    BY DEF AccountInv, AccountTypes
  <2>7. told' = told => Account!Successes(Account!HotSteps)' = Account!Successes(Account!HotSteps)
    BY DEF Account!Successes, Account!With
  <2>8. QED
    BY <2>1, <2>3, <2>4, <2>5, <2>6, <2>7 DEF HotSeat
<1>5. QED
  BY <1>3, <1>4

\* The answer reaches a user without errors.
LEMMA AnswerShape ==
    ASSUME AccountTypes, NEW u \in Users, NEW outcome \in Results, NEW next \in Requests \cup {"done"},
           handling[u] # "none", Account!Answer(u, outcome, next)
    PROVE  /\ at' \in [Users -> Requests \cup {"done"}] /\ sentAccount' \subseteq Users
           /\ \A v \in sentAccount' : at'[v] # "done"
           /\ at' = at \/ pcAccount = "load"
           /\ told' \subseteq [user : Users, step : Requests \cup {"payment_terminal"}, result : Results]
           /\ told' = told \/ (at[u] # "done" /\ Account!Count(u, at[u], outcome))
           /\ \A v \in Users : v # u => at'[v] = at[v] /\ (v \in sentAccount' <=> v \in sentAccount)
           /\ told \subseteq told'
           /\ Journey(u) => /\ at[u] = handling[u] /\ at'[u] = next /\ u \notin sentAccount'
                            /\ pcAccount = "load"
                            /\ \A s \in Requests \cup {"payment_terminal"} :
                                  Told(u, s)' <=> Told(u, s) \/ (s = at[u] /\ outcome = "business_success")
<1>1. CASE u \in sentAccount /\ at[u] = handling[u]
  <2>1. /\ at' = [at EXCEPT ![u] = next] /\ sentAccount' = sentAccount \ {u}
        /\ Account!Count(u, at[u], outcome) /\ at[u] \in Requests
    BY <1>1 DEF Account!Answer, Account!Goes, AccountTypes
  <2>2. at[u] # "done"
    BY <2>1 DEF Requests, Changes
  <2>3. /\ told' \subseteq [user : Users, step : Requests \cup {"payment_terminal"}, result : Results]
        /\ told \subseteq told'
        /\ \A s \in Requests \cup {"payment_terminal"} :
              Told(u, s)' <=> Told(u, s) \/ (s = at[u] /\ outcome = "business_success")
    BY <2>1, CountShape
  <2>4. pcAccount = "load"
    BY <2>2 DEF AccountTypes
  <2>5. QED
    BY <1>1, <2>1, <2>2, <2>3, <2>4 DEF AccountTypes
<1>2. CASE ~(u \in sentAccount /\ at[u] = handling[u])
  BY <1>2 DEF Account!Answer, Account!client, AccountTypes, Journey
<1>3. QED
  BY <1>1, <1>2

LEMMA AccountKeeps == AccountInv /\ [Account!Next]_(Account!vars) => AccountInv'
<1> SUFFICES ASSUME AccountInv, [Account!Next]_(Account!vars) PROVE AccountInv'
  OBVIOUS
<1>t. AccountTypes
  BY DEF AccountInv
<1>j. ASSUME Account!NoErrors', told \subseteq told', NEW u \in Users PROVE Journey(u)
  BY <1>j DEF AccountInv, Account!NoErrors
\* The client.
<1>1. ASSUME NEW u \in Users, Account!Send(u) PROVE AccountInv'
  <2>1. /\ UNCHANGED <<kindAccount, at, told, checkout, order, session, ownerAccount, pcAccount, captured, correct>>
        /\ sentAccount' = sentAccount \union {u} /\ handling' = [handling EXCEPT ![u] = at[u]]
        /\ at[u] \in Changes /\ at[u] # "done" /\ pcAccount = "load"
    BY <1>1, <1>t DEF Account!Send, Account!verifier, AccountTypes, Requests
  <2>2. AccountTypes'
    BY <1>t, <2>1 DEF AccountTypes
  <2>3. Account!NoErrors' => Journey(u)'
    BY <1>j, <1>t, <2>1 DEF Journey, Told, AccountTypes
  <2>4. QED
    BY <1>t, <2>1, <2>2, <2>3, OneUserMoves DEF AccountTypes
<1>2. ASSUME NEW u \in Users, Account!GiveUp(u) PROVE AccountInv'
  <2>1. /\ UNCHANGED <<kindAccount, handling, checkout, order, session, ownerAccount, pcAccount, captured>>
        /\ Account!Count(u, at[u], "system_error") /\ sentAccount' = sentAccount \ {u}
        /\ at' \in {[at EXCEPT ![u] = "recover"], [at EXCEPT ![u] = "done"]}
    BY <1>2 DEF Account!GiveUp, Account!Goes, Account!After, Account!backend, Account!verifier
  <2>2. ~Account!NoErrors'
    <3>1. u \in sentAccount /\ at[u] \in Requests
      BY <1>2, <1>t DEF Account!GiveUp, AccountTypes
    <3>2. QED
      BY <1>t, <2>1, <3>1, CountShape DEF Results
  <2>3. told' \subseteq [user : Users, step : Requests \cup {"payment_terminal"}, result : Results]
    <3>1. u \in sentAccount /\ at[u] \in Requests
      BY <1>2, <1>t DEF Account!GiveUp, AccountTypes
    <3>2. QED
      BY <1>t, <2>1, <3>1, CountShape DEF Results
  <2>4. u \in sentAccount /\ at[u] # "done" /\ pcAccount = "load"
    BY <1>2, <1>t DEF Account!GiveUp, AccountTypes
  <2>5. AccountTypes'
    BY <1>t, <2>1, <2>3, <2>4 DEF AccountTypes, Requests, Changes
  <2>6. QED
    BY <2>2, <2>5 DEF AccountInv
<1>3. ASSUME NEW u \in Users, Account!Read(u) PROVE AccountInv'
  <2>1. /\ UNCHANGED <<kindAccount, handling, checkout, order, session, ownerAccount, pcAccount, captured, correct>>
        /\ pcAccount = "load" /\ at[u] \in {"recover", "order", "identity"}
        /\ sentAccount' = sentAccount \ {u}
        /\ \/ /\ Account!Found(u) /\ Account!Count(u, at[u], "business_success")
              /\ at' = [at EXCEPT ![u] = Account!Then(u)]
           \/ /\ at[u] = "recover" /\ Account!Count(u, "recover", "business_success")
              /\ at' = [at EXCEPT ![u] = "done"]
           \/ /\ Account!Count(u, at[u], "system_error")
              /\ at' = [at EXCEPT ![u] = "done"]
    BY <1>3 DEF Account!Read, Account!Goes, Account!Ends, Account!backend, Account!verifier
  <2>2. Account!Then(u) \in Requests \cup {"done"}
    BY DEF Account!Then, Requests, Changes
  <2>3. \E outcome \in {"business_success", "system_error"} : Account!Count(u, at[u], outcome)
    BY <2>1
  <2>4. /\ told' \subseteq [user : Users, step : Requests \cup {"payment_terminal"}, result : Results]
        /\ told \subseteq told' /\ at[u] \in Requests
    BY <1>t, <2>1, <2>3, CountShape DEF Requests, Changes, Results
  <2>5. AccountTypes'
    BY <1>t, <2>1, <2>2, <2>4 DEF AccountTypes
  <2>6. ASSUME Account!NoErrors' PROVE Journey(u)'
    <3>1. Journey(u)
      BY <1>j, <2>4, <2>6
    <3>2. ~Account!Count(u, at[u], "system_error")
      BY <1>t, <2>4, <2>6, CountShape DEF Results
    <3>3. at[u] # "recover"
      BY <1>t, <3>1 DEF Journey, AccountTypes
    <3>4. Account!Found(u) /\ Account!Count(u, at[u], "business_success") /\ at' = [at EXCEPT ![u] = Account!Then(u)]
      BY <2>1, <3>2, <3>3
    <3>5. \A s \in Requests \cup {"payment_terminal"} : Told(u, s)' <=> Told(u, s) \/ s = at[u]
      BY <1>t, <2>4, <3>4, CountShape DEF Results
    <3>6. /\ at'[u] = Account!Then(u) /\ u \notin sentAccount' /\ handling[u] = "none"
      BY <1>t, <2>1, <2>4, <3>1, <3>4 DEF AccountTypes, Journey, Changes
    <3>7. QED
      BY <2>1, <3>1, <3>4, <3>5, <3>6 DEF Journey, Account!Found, Account!Then, Requests, Changes
  <2>7. QED
    BY <1>t, <2>1, <2>3, <2>4, <2>5, <2>6, OneUserMoves DEF AccountTypes, Results
<1>4. ASSUME NEW u \in Users, Account!Poll(u) PROVE AccountInv'
  <2>1. /\ UNCHANGED <<kindAccount, handling, checkout, order, session, ownerAccount, pcAccount, captured, correct>>
        /\ pcAccount = "load" /\ at[u] = "poll" /\ at' = [at EXCEPT ![u] = "done"]
        /\ sentAccount' = sentAccount \ {u}
        /\ \/ order[u] = "paid" /\ Account!Count(u, "payment_terminal", "business_success")
           \/ Account!Count(u, "payment_terminal", "unexpected_contract")
    BY <1>4 DEF Account!Poll, Account!Ends, Account!backend, Account!verifier
  <2>2. \E outcome \in Results : Account!Count(u, "payment_terminal", outcome)
    BY <2>1 DEF Results
  <2>3. /\ told' \subseteq [user : Users, step : Requests \cup {"payment_terminal"}, result : Results]
        /\ told \subseteq told'
    BY <1>t, <2>2, CountShape
  <2>4. AccountTypes'
    BY <1>t, <2>1, <2>3 DEF AccountTypes
  <2>5. ASSUME Account!NoErrors' PROVE Journey(u)'
    <3>1. Journey(u)
      BY <1>j, <2>3, <2>5
    <3>2. order[u] = "paid" /\ Account!Count(u, "payment_terminal", "business_success")
      BY <1>t, <2>1, <2>5, CountShape DEF Results
    <3>3. \A s \in Requests \cup {"payment_terminal"} : Told(u, s)' <=> Told(u, s) \/ s = "payment_terminal"
      BY <1>t, <3>2, CountShape DEF Results
    <3>4. at'[u] = "done" /\ handling[u] = "none"
      BY <1>t, <2>1, <3>1 DEF AccountTypes, Journey, Changes
    <3>5. QED
      BY <2>1, <3>1, <3>2, <3>3, <3>4 DEF Journey, Requests, Changes
  <2>6. QED
    BY <1>t, <2>1, <2>2, <2>4, <2>5, OneUserMoves DEF AccountTypes
\* The backend: a handler that ends answers, if the user still waits.
<1>5. ASSUME NEW u \in Users, handling[u] # "none", handling' = [handling EXCEPT ![u] = "none"],
             NEW outcome \in Results, NEW next \in Requests \cup {"done"}, Account!Answer(u, outcome, next),
             UNCHANGED <<kindAccount, Account!verifier>>,
             NEW state \in {"none", "selecting", "submitting", "reserved"},
             checkout' = [checkout EXCEPT ![u] = state],
             NEW now \in {"none", "pending", "processing", "paid", "overdue"},
             order' = [order EXCEPT ![u] = now],
             session' \in {session, session \cup {u}},
             ownerAccount' = ownerAccount \/ (ownerAccount' = u /\ handling[u] = "hold" /\ outcome = "business_success"),
             Account!NoErrors' /\ Journey(u) /\ at[u] = handling[u] /\ at'[u] = next /\ pcAccount = "load"
                /\ (\A s \in Requests \cup {"payment_terminal"} :
                       Told(u, s)' <=> Told(u, s) \/ (s = at[u] /\ outcome = "business_success"))
             => Journey(u)'
      PROVE  AccountInv'
  <2>1. /\ at' \in [Users -> Requests \cup {"done"}] /\ sentAccount' \subseteq Users
        /\ \A v \in sentAccount' : at'[v] # "done"
        /\ at' = at \/ pcAccount = "load"
        /\ told' \subseteq [user : Users, step : Requests \cup {"payment_terminal"}, result : Results]
        /\ told' = told \/ (at[u] # "done" /\ Account!Count(u, at[u], outcome))
        /\ \A v \in Users : v # u => at'[v] = at[v] /\ (v \in sentAccount' <=> v \in sentAccount)
        /\ told \subseteq told'
    BY <1>t, <1>5, AnswerShape
  <2>2. AccountTypes'
    BY <1>t, <1>5, <2>1 DEF AccountTypes, Account!verifier
  <2>3. told' = told \/ \E step \in Requests : Account!Count(u, step, outcome)
    BY <1>t, <2>1 DEF AccountTypes
  <2>4. ASSUME Account!NoErrors'
        PROVE  Journey(u)' /\ (ownerAccount' = ownerAccount \/ (ownerAccount' = u /\ Told(u, "hold")'))
    <3>1. Journey(u)
      BY <1>j, <2>1, <2>4
    <3>2. /\ at[u] = handling[u] /\ at'[u] = next /\ u \notin sentAccount' /\ pcAccount = "load"
          /\ \A s \in Requests \cup {"payment_terminal"} :
                Told(u, s)' <=> Told(u, s) \/ (s = at[u] /\ outcome = "business_success")
      BY <1>t, <1>5, <3>1, AnswerShape
    <3>3. Journey(u)'
      BY <1>5, <2>4, <3>1, <3>2
    <3>4. QED
      BY <1>5, <3>2, <3>3 DEF Requests, Changes
  <2>5. CASE Account!NoErrors'
    BY <1>t, <1>5, <2>1, <2>2, <2>3, <2>4, <2>5, OneUserMoves DEF AccountTypes, Account!verifier
  <2>6. CASE ~Account!NoErrors'
    BY <2>2, <2>6 DEF AccountInv
  <2>7. QED
    BY <2>5, <2>6
<1> USE DEF Account!Handled
<1>6. ASSUME NEW u \in Users, Account!Hold(u) PROVE AccountInv'
  <2>0. /\ handling[u] = "hold" /\ handling' = [handling EXCEPT ![u] = "none"] /\ handling'[u] = "none"
        /\ UNCHANGED <<kindAccount, order, session, Account!verifier>>
    BY <1>6, <1>t DEF Account!Hold, AccountTypes
  <2>t. order' = [order EXCEPT ![u] = order[u]] /\ checkout = [checkout EXCEPT ![u] = checkout[u]]
        /\ order[u] \in {"none", "pending", "processing", "paid", "overdue"}
        /\ checkout[u] \in {"none", "selecting", "submitting", "reserved"}
    BY <1>t, <2>0 DEF AccountTypes
  <2>1. CASE kindAccount = "temporary" /\ ownerAccount # "none" /\ ~lapsed
    <3>1. Account!Answer(u, "business_conflict", "done") /\ UNCHANGED <<checkout, ownerAccount>>
      BY <1>6, <2>1 DEF Account!Hold
    <3>2. Journey(u) /\ at'[u] = "done" /\ pcAccount = "load" => Journey(u)'
      BY <2>0, <2>1 DEF Journey, Account!verifier
    <3>3. QED
      BY <1>5, <2>0, <2>t, <3>1, <3>2 DEF Results
  <2>2. CASE ~(kindAccount = "temporary" /\ ownerAccount # "none" /\ ~lapsed)
    <3>1. /\ checkout' = [checkout EXCEPT ![u] = "selecting"]
          /\ IF kindAccount = "temporary"
             THEN ownerAccount' = u /\ Account!Answer(u, "business_success", "done")
             ELSE UNCHANGED ownerAccount /\ Account!Answer(u, "business_success", "confirm")
      BY <1>6, <2>2 DEF Account!Hold
    <3>2. ASSUME Journey(u), at[u] = handling[u], pcAccount = "load",
                 at'[u] = IF kindAccount = "temporary" THEN "done" ELSE "confirm",
                 \A s \in Requests \cup {"payment_terminal"} : Told(u, s)' <=> Told(u, s) \/ s = at[u]
          PROVE  Journey(u)'
      BY <2>0, <3>2 DEF Journey, Account!verifier, Requests, Changes
    <3>3. CASE kindAccount = "temporary"
      BY <1>5, <2>0, <2>t, <3>1, <3>2, <3>3 DEF Results
    <3>4. CASE kindAccount # "temporary"
      BY <1>5, <2>0, <2>t, <3>1, <3>2, <3>4 DEF Results, Requests, Changes
    <3>5. QED
      BY <3>3, <3>4
  <2>3. QED
    BY <2>1, <2>2
<1>7. ASSUME NEW u \in Users, Account!Claim(u) PROVE AccountInv'
  <2>1. /\ UNCHANGED <<kindAccount, at, sentAccount, told, handling, order, session, ownerAccount,
                       pcAccount, captured, correct>>
        /\ handling[u] = "confirm" /\ checkout' = [checkout EXCEPT ![u] = "submitting"]
    BY <1>7 DEF Account!Claim, Account!client, Account!verifier
  <2>2. AccountTypes'
    BY <1>t, <2>1 DEF AccountTypes
  <2>3. Account!NoErrors' => Journey(u)'
    BY <1>j, <1>t, <2>1 DEF Journey, Told, AccountTypes
  <2>4. QED
    BY <1>t, <2>1, <2>2, <2>3, OneUserMoves DEF AccountTypes
<1>8. ASSUME NEW u \in Users, Account!Confirm(u) PROVE AccountInv'
  <2>0. /\ handling[u] = "confirm" /\ handling' = [handling EXCEPT ![u] = "none"] /\ handling'[u] = "none"
        /\ checkout' = [checkout EXCEPT ![u] = "reserved"] /\ checkout'[u] = "reserved"
        /\ order' = [order EXCEPT ![u] = "pending"] /\ order'[u] = "pending"
        /\ Account!Answer(u, "business_success", "order")
        /\ UNCHANGED <<kindAccount, session, ownerAccount, Account!verifier>>
    BY <1>8, <1>t DEF Account!Confirm, AccountTypes
  <2>1. ASSUME Journey(u), at[u] = handling[u], pcAccount = "load", at'[u] = "order",
               \A s \in Requests \cup {"payment_terminal"} : Told(u, s)' <=> Told(u, s) \/ s = at[u]
        PROVE  Journey(u)'
    BY <2>0, <2>1 DEF Journey, Account!verifier, Requests, Changes
  <2>2. QED
    BY <1>5, <2>0, <2>1 DEF Results, Requests, Changes
<1>9. ASSUME NEW u \in Users, Account!Reserve(u) PROVE AccountInv'
  <2>0. /\ handling[u] = "reservation" /\ handling' = [handling EXCEPT ![u] = "none"] /\ handling'[u] = "none"
        /\ UNCHANGED <<kindAccount, checkout, session, ownerAccount, Account!verifier>>
    BY <1>9, <1>t DEF Account!Reserve, AccountTypes
  <2>t. /\ order = [order EXCEPT ![u] = order[u]] /\ checkout' = [checkout EXCEPT ![u] = checkout[u]]
        /\ order[u] \in {"none", "pending", "processing", "paid", "overdue"}
        /\ checkout[u] \in {"none", "selecting", "submitting", "reserved"}
    BY <1>t, <2>0 DEF AccountTypes
  <2>1. CASE Account!Ordered = {}
    <3>1. order' = [order EXCEPT ![u] = "pending"] /\ order'[u] = "pending"
          /\ Account!Answer(u, "business_success", "done")
      BY <1>9, <1>t, <2>1 DEF Account!Reserve, AccountTypes
    <3>2. ASSUME Journey(u), at[u] = handling[u], pcAccount = "load", at'[u] = "done",
                 \A s \in Requests \cup {"payment_terminal"} : Told(u, s)' <=> Told(u, s) \/ s = at[u]
          PROVE  Journey(u)'
      BY <2>0, <3>1, <3>2 DEF Journey, Account!verifier, Requests, Changes
    <3>3. QED
      BY <1>5, <2>0, <2>t, <3>1, <3>2 DEF Results
  <2>2. CASE Account!Ordered # {}
    <3>1. UNCHANGED order /\ Account!Answer(u, "business_conflict", "done")
      BY <1>9, <2>2 DEF Account!Reserve
    <3>2. ASSUME Journey(u), at[u] = handling[u], pcAccount = "load", at'[u] = "done",
                 \A s \in Requests \cup {"payment_terminal"} : Told(u, s)' <=> Told(u, s)
          PROVE  Journey(u)'
      BY <2>0, <3>1, <3>2 DEF Journey, Account!verifier, Requests, Changes
    <3>3. QED
      BY <1>5, <2>0, <2>t, <3>1, <3>2 DEF Results
  <2>3. QED
    BY <2>1, <2>2
<1>10. ASSUME NEW u \in Users, Account!Login(u) PROVE AccountInv'
  <2>0. /\ handling[u] = "login" /\ handling' = [handling EXCEPT ![u] = "none"] /\ handling'[u] = "none"
        /\ UNCHANGED <<kindAccount, checkout, order, ownerAccount, Account!verifier>>
    BY <1>10, <1>t DEF Account!Login, AccountTypes
  <2>t. /\ order' = [order EXCEPT ![u] = order[u]] /\ checkout' = [checkout EXCEPT ![u] = checkout[u]]
        /\ order[u] \in {"none", "pending", "processing", "paid", "overdue"}
        /\ checkout[u] \in {"none", "selecting", "submitting", "reserved"}
    BY <1>t, <2>0 DEF AccountTypes
  <2>1. CASE session' = session \union {u} /\ Account!Answer(u, "business_success", "identity")
    <3>1. ASSUME Journey(u), at[u] = handling[u], pcAccount = "load", at'[u] = "identity",
                 \A s \in Requests \cup {"payment_terminal"} : Told(u, s)' <=> Told(u, s) \/ s = at[u]
          PROVE  Journey(u)'
      BY <2>0, <2>1, <3>1 DEF Journey, Account!verifier, Requests, Changes
    <3>2. "business_success" \in Results /\ "identity" \in Requests \cup {"done"}
      BY DEF Results, Requests, Changes
    <3>3. /\ Account!NoErrors' /\ Journey(u) /\ at[u] = handling[u] /\ at'[u] = "identity" /\ pcAccount = "load"
          /\ (\A s \in Requests \cup {"payment_terminal"} :
                 Told(u, s)' <=> Told(u, s) \/ (s = at[u] /\ "business_success" = "business_success"))
          => Journey(u)'
      BY <3>1
    <3>4. session' \in {session, session \cup {u}}
      BY <2>1
    <3> HIDE DEF Results, Requests, Changes, Journey, Told, AccountInv
    <3>5. QED
      BY <1>5, <2>0, <2>t, <2>1, <3>2, <3>3, <3>4
  <2>2. CASE UNCHANGED session /\ Account!Answer(u, "capacity_rejection", "done")
    <3>1. ASSUME Journey(u), at[u] = handling[u], pcAccount = "load", at'[u] = "done",
                 \A s \in Requests \cup {"payment_terminal"} : Told(u, s)' <=> Told(u, s)
          PROVE  Journey(u)'
      BY <2>0, <2>2, <3>1 DEF Journey, Account!verifier, Requests, Changes
    <3>2. QED
      BY <1>5, <2>0, <2>t, <2>2, <3>1 DEF Results
  <2>3. QED
    BY <1>10, <2>1, <2>2 DEF Account!Login
<1>11. ASSUME NEW u \in Users, Account!Pay(u) PROVE AccountInv'
  <2>0. /\ handling[u] = "pay" /\ handling' = [handling EXCEPT ![u] = "none"] /\ handling'[u] = "none"
        /\ order' = [order EXCEPT ![u] = "processing"] /\ order'[u] = "processing"
        /\ checkout' = [checkout EXCEPT ![u] = checkout[u]]
        /\ checkout[u] \in {"none", "selecting", "submitting", "reserved"}
        /\ Account!Answer(u, "business_success", "poll")
        /\ UNCHANGED <<kindAccount, checkout, session, ownerAccount, Account!verifier>>
    BY <1>11, <1>t DEF Account!Pay, AccountTypes
  <2>1. ASSUME Journey(u), at[u] = handling[u], pcAccount = "load", at'[u] = "poll",
               \A s \in Requests \cup {"payment_terminal"} : Told(u, s)' <=> Told(u, s) \/ s = at[u]
        PROVE  Journey(u)'
    BY <2>0, <2>1 DEF Journey, Account!verifier, Requests, Changes
  <2>2. QED
    BY <1>5, <2>0, <2>1 DEF Results, Requests
<1>12. ASSUME NEW u \in Users, Account!Settle(u) \/ Account!Dies(u) PROVE AccountInv'
  <2>1. /\ UNCHANGED <<kindAccount, at, sentAccount, told, checkout, session, ownerAccount,
                       pcAccount, captured, correct>>
        /\ handling' \in {handling, [handling EXCEPT ![u] = "none"]}
        /\ \/ UNCHANGED order
           \/ /\ order[u] = "processing"
              /\ \E end \in {"paid", "overdue"} : order' = [order EXCEPT ![u] = end]
    BY <1>12 DEF Account!Settle, Account!Dies, Account!client, Account!verifier
  <2>2. AccountTypes'
    BY <1>t, <2>1 DEF AccountTypes
  <2>3. Account!NoErrors' => Journey(u)'
    BY <1>j, <1>t, <2>1 DEF Journey, Told, AccountTypes
  <2>4. QED
    BY <1>t, <2>1, <2>2, <2>3, OneUserMoves DEF AccountTypes
\* The verification, and what changes nothing of a user.
<1>13. ASSUME UNCHANGED <<kindAccount, at, sentAccount, told, handling, checkout, order, session, ownerAccount>>,
              captured' \in Users \cup {"none"},
              pcAccount' # "load" => \A u \in Users : at[u] = "done",
              Account!NoErrors => HotSeat'
       PROVE  AccountInv'
  <2>1. AccountTypes'
    BY <1>t, <1>13 DEF AccountTypes
  <2>2. ASSUME Account!NoErrors', NEW u \in Users PROVE Journey(u)'
    BY <1>j, <1>13, <2>2 DEF Journey, Told
  <2>3. Account!NoErrors' => Account!NoErrors
    BY <1>13 DEF Account!NoErrors
  <2>4. QED
    BY <1>13, <2>1, <2>2, <2>3 DEF AccountInv
<1>k. Account!NoErrors => HotSeat
  BY DEF AccountInv
<1>14. CASE Account!Capture
  <2>1. /\ UNCHANGED <<kindAccount, at, sentAccount, told, handling, checkout, order, session, ownerAccount>>
        /\ \A u \in Users : at[u] = "done"
        /\ pcAccount' = "orders" /\ captured' \in {ownerAccount, "none"}
    BY <1>14 DEF Account!Capture, Account!Step, Account!client, Account!backend
  <2>2. Account!NoErrors => HotSeat'
    BY <1>k, <2>1 DEF HotSeat, Told
  <2>3. QED
    BY <1>t, <1>13, <2>1, <2>2 DEF AccountTypes
<1>15. CASE Account!Orders \/ Account!Checkouts \/ Account!Probes
  <2>1. /\ UNCHANGED <<kindAccount, at, sentAccount, told, handling, checkout, order, session, ownerAccount,
                       captured>>
        /\ pcAccount # "load"
        /\ pcAccount' = "checkouts" \/ (correct' => Account!HotspotAgrees \/ (pcAccount = "probes" /\ correct))
    BY <1>15 DEF Account!Orders, Account!Checkouts, Account!Probes, Account!Step, Account!client, Account!backend
  <2>2. Account!Successes(Account!HotSteps)' = Account!Successes(Account!HotSteps)
    BY <2>1 DEF Account!Successes, Account!With
  <2>3. Account!NoErrors => HotSeat'
    BY <1>k, <2>1, <2>2 DEF HotSeat, Told, Account!HotspotAgrees
  <2>4. QED
    BY <1>t, <1>13, <2>1, <2>3 DEF AccountTypes
<1>16. CASE Account!Lapse \/ UNCHANGED Account!vars
  <2>1. UNCHANGED <<kindAccount, at, sentAccount, told, handling, checkout, order, session, ownerAccount,
                    pcAccount, captured, correct>>
    BY <1>16 DEF Account!Lapse, Account!vars, Account!client, Account!backend, Account!verifier
  <2>2. QED
    BY <2>1 DEF AccountInv, AccountTypes, Journey, HotSeat, Told, Account!NoErrors, Account!Successes,
       Account!With
<1>17. QED
  BY <1>1, <1>2, <1>3, <1>4, <1>6, <1>7, <1>8, <1>9, <1>10, <1>11, <1>12, <1>14, <1>15, <1>16
     DEF Account!Next

LEMMA AccountSteps == [ToolsNext]_everything => [Account!Next]_(Account!vars)
  BY DEF ToolsNext, everything, Account!vars, Account!client, Account!backend, Account!verifier, accountVars,
     OthersOfRun, OthersOfStack, OthersOfSeatMap, OthersOfQualify, OthersOfRelease, OthersOfInputs,
     OthersOfSmoke, OthersOfPools, OthersOfActivity, OthersOfProtocol, OthersOfFixture, OthersOfStartup

LEMMA CountsAreExact == AccountInv => Account!CountedIsStored
<1> SUFFICES ASSUME AccountInv, Account!Functional
             PROVE  /\ \A u \in Users : handling[u] = "none"
                    /\ kindAccount \in {"formal", "order"} =>
                          Account!Ordered = Account!With({"order", "reservation"}, "business_success")
                    /\ kindAccount = "temporary" => Account!With({"hold"}, "business_success") = {captured}
                    /\ kindAccount = "payment" =>
                          /\ Account!Paid = Account!With({"payment_terminal"}, "business_success")
                          /\ \A u \in Users : checkout[u] # "submitting"
                    /\ kindAccount = "login" => session = Account!With({"identity"}, "business_success")
  BY DEF Account!CountedIsStored
<1>1. /\ AccountTypes /\ HotSeat /\ pcAccount = "over" /\ correct
      /\ \A u \in Users : Journey(u) /\ at[u] = "done"
  BY DEF AccountInv, AccountTypes, Account!Functional
<1>2. \A u \in Users : handling[u] = "none"
  BY <1>1 DEF Journey, AccountTypes, Changes
<1> DEFINE W(steps) == Account!With(steps, "business_success")
<1>3. CASE kindAccount \in {"formal", "order"}
  <2>1. \A u \in Users : order[u] # "none" <=> Told(u, "order") \/ Told(u, "reservation")
    BY <1>1, <1>3 DEF Journey
  <2>2. W({"order", "reservation"}) \subseteq Users
        /\ \A u \in Users : u \in W({"order", "reservation"}) <=> Told(u, "order") \/ Told(u, "reservation")
    BY <1>1, WithMeans
  <2>3. QED
    BY <1>2, <1>3, <2>1, <2>2 DEF Account!Ordered
<1>4. CASE kindAccount = "temporary"
  <2>1. IsFiniteSet(Users)
    BY InstancesAreValid DEF Account!ConstantsAssumption, Account!IsFiniteSet, IsFiniteSet
  <2>2. /\ Account!Successes(Account!HotSteps) = 1 /\ captured \in Users /\ Told(captured, "hold")
    BY <1>1, <1>4 DEF HotSeat, AccountTypes
  <2>3. W({"hold"}) \subseteq W(Account!HotSteps) /\ W(Account!HotSteps) \subseteq Users
        /\ captured \in W({"hold"})
    <3>1. W({"hold"}) \subseteq Users /\ \A u \in Users : u \in W({"hold"}) <=> Told(u, "hold")
      BY <1>1, WithMeans
    <3>2. /\ W(Account!HotSteps) \subseteq Users
          /\ \A u \in Users : u \in W(Account!HotSteps) <=> Told(u, "hold") \/ Told(u, "reservation")
      BY <1>1, WithMeans DEF Account!HotSteps
    <3>3. QED
      BY <2>2, <3>1, <3>2
  <2>4. \E u : W(Account!HotSteps) = {u}
    <3>1. IsFiniteSet(W(Account!HotSteps))
      BY <2>1, <2>3, FS_Subset
    <3>2. QED
      BY <2>2, <3>1, FS_Singleton DEF Account!Successes, Account!Cardinality, Cardinality
  <2>5. QED
    BY <1>2, <1>4, <2>3, <2>4
<1>5. CASE kindAccount = "payment"
  <2>1. \A u \in Users : order[u] = "paid" /\ Told(u, "payment_terminal") /\ checkout[u] = "reserved"
    BY <1>1, <1>5 DEF Journey
  <2>2. W({"payment_terminal"}) \subseteq Users
        /\ \A u \in Users : u \in W({"payment_terminal"}) <=> Told(u, "payment_terminal")
    BY <1>1, WithMeans
  <2>3. QED
    BY <1>2, <1>5, <2>1, <2>2 DEF Account!Paid
<1>6. CASE kindAccount = "login"
  <2>1. session \subseteq Users /\ \A u \in Users : u \in session <=> Told(u, "identity")
    BY <1>1, <1>6 DEF Journey, AccountTypes
  <2>2. W({"identity"}) \subseteq Users /\ \A u \in Users : u \in W({"identity"}) <=> Told(u, "identity")
    BY <1>1, WithMeans
  <2>3. QED
    BY <1>2, <1>6, <2>1, <2>2
<1>7. QED
  BY <1>1, <1>3, <1>4, <1>5, <1>6 DEF AccountTypes

\* Each user of a case that was reconciled was told what the database says of that user.
LEMMA ReconciledIsCounted == ToolsSpec => []Account!CountedIsStored
<1>1. ToolsInit => AccountInv
  BY AccountBegins DEF ToolsInit
<1>2. AccountInv /\ [ToolsNext]_everything => AccountInv'
  BY AccountKeeps, AccountSteps
<1>3. QED
  BY <1>1, <1>2, CountsAreExact, PTL DEF ToolsSpec

-----------------------------------------------------------------------------
(* The runs on the stack.                                                  *)

RunStep == {"read", "health", "auth", "stopRedis", "fixture", "clearHolds", "force", "orders", "load", "remote",
            "coldCheck", "settle", "verify", "threshold"}

\* The steps of a workload are those of its preparation and of its checks, around the load.
LEMMA StepsAround ==
    ASSUME NEW prepare \in Seq(RunStep), NEW check \in Seq(RunStep), NEW steps,
           steps = <<"read", "health">> \o prepare \o <<"load", "remote">> \o check \o <<"threshold">>
    PROVE  LET m == Len(prepare)
               n == Len(check)
           IN /\ Len(steps) = m + n + 5
              /\ steps[1] = "read" /\ steps[2] = "health"
              /\ \A i \in 1 .. m : steps[i + 2] = prepare[i]
              /\ steps[m + 3] = "load" /\ steps[m + 4] = "remote"
              /\ \A i \in 1 .. n : steps[m + i + 4] = check[i]
              /\ steps[m + n + 5] = "threshold"
<1> DEFINE first == <<"read", "health">>
           load == <<"load", "remote">>
           last == <<"threshold">>
           a == first \o prepare
           b == a \o load
           c == b \o check
<1>0. /\ first \in Seq(RunStep) /\ Len(first) = 2 /\ first[1] = "read" /\ first[2] = "health"
      /\ load \in Seq(RunStep) /\ Len(load) = 2 /\ load[1] = "load" /\ load[2] = "remote"
      /\ last \in Seq(RunStep) /\ Len(last) = 1 /\ last[1] = "threshold"
  <2>1. /\ first \in Seq(RunStep) /\ load \in Seq(RunStep) /\ last \in Seq(RunStep)
    BY DEF RunStep
  <2>2. /\ Len(first) = 2 /\ first[1] = "read" /\ first[2] = "health"
        /\ Len(load) = 2 /\ load[1] = "load" /\ load[2] = "remote"
        /\ Len(last) = 1 /\ last[1] = "threshold"
    OBVIOUS
  <2>3. QED
    BY <2>1, <2>2
<1>m. Len(prepare) \in Nat /\ Len(check) \in Nat
  OBVIOUS
<1>e. steps = c \o last
  OBVIOUS
<1> HIDE DEF first, load, last
<1>1. /\ a \in Seq(RunStep) /\ Len(a) = 2 + Len(prepare)
      /\ \A i \in 1 .. 2 + Len(prepare) : a[i] = IF i <= 2 THEN first[i] ELSE prepare[i - 2]
  <2>1. /\ a \in Seq(RunStep) /\ Len(a) = Len(first) + Len(prepare)
        /\ \A i \in 1 .. Len(first) + Len(prepare) : a[i] = IF i <= Len(first) THEN first[i] ELSE prepare[i - Len(first)]
    BY <1>0, ConcatProperties, Zenon
  <2>2. QED
    BY <1>0, <2>1
<1> HIDE DEF a
<1>2. /\ b \in Seq(RunStep) /\ Len(b) = Len(prepare) + 4
      /\ \A i \in 1 .. Len(a) + 2 : b[i] = IF i <= Len(a) THEN a[i] ELSE load[i - Len(a)]
  <2>1. /\ b \in Seq(RunStep) /\ Len(b) = Len(a) + Len(load)
        /\ \A i \in 1 .. Len(a) + Len(load) : b[i] = IF i <= Len(a) THEN a[i] ELSE load[i - Len(a)]
    BY <1>0, <1>1, ConcatProperties, Zenon
  <2>2. QED
    BY <1>0, <1>1, <1>m, <2>1
<1> HIDE DEF b
<1>3. /\ c \in Seq(RunStep) /\ Len(c) = Len(prepare) + Len(check) + 4
      /\ \A i \in 1 .. Len(b) + Len(check) : c[i] = IF i <= Len(b) THEN b[i] ELSE check[i - Len(b)]
  <2>1. /\ c \in Seq(RunStep) /\ Len(c) = Len(b) + Len(check)
        /\ \A i \in 1 .. Len(b) + Len(check) : c[i] = IF i <= Len(b) THEN b[i] ELSE check[i - Len(b)]
    <3>1. b \in Seq(RunStep) /\ check \in Seq(RunStep)
      BY <1>2
    <3>2. QED
      BY <3>1, ConcatProperties, Zenon
  <2>2. QED
    BY <1>2, <1>m, <2>1
<1> HIDE DEF c
<1>4. /\ Len(steps) = Len(prepare) + Len(check) + 5
      /\ \A i \in 1 .. Len(c) + 1 : steps[i] = IF i <= Len(c) THEN c[i] ELSE last[i - Len(c)]
  <2>1. /\ Len(steps) = Len(c) + Len(last)
        /\ \A i \in 1 .. Len(c) + Len(last) : steps[i] = IF i <= Len(c) THEN c[i] ELSE last[i - Len(c)]
    <3>1. c \in Seq(RunStep) /\ last \in Seq(RunStep)
      BY <1>0, <1>3
    <3> DEFINE d == c \o last
    <3>2. /\ Len(d) = Len(c) + Len(last)
          /\ \A i \in 1 .. Len(c) + Len(last) : d[i] = IF i <= Len(c) THEN c[i] ELSE last[i - Len(c)]
      BY <3>1, ConcatProperties, Zenon
    <3>3. steps = d
      BY <1>e
    <3> HIDE DEF d
    <3>4. QED
      BY <3>2, <3>3
  <2>2. QED
    BY <1>0, <1>3, <1>m, <2>1
<1>5. \A i \in 1 .. Len(prepare) + 4 : steps[i] = b[i]
  BY <1>m, <1>2, <1>3, <1>4
<1>6. \A i \in 1 .. Len(prepare) + 2 : steps[i] = a[i]
  <2> SUFFICES ASSUME NEW i \in 1 .. Len(prepare) + 2 PROVE steps[i] = a[i]
    OBVIOUS
  <2>1. i \in 1 .. Len(prepare) + 4 /\ i \in 1 .. Len(a) + 2 /\ i <= Len(a)
    BY <1>m, <1>1
  <2>2. QED
    BY <1>2, <1>5, <2>1
<1>7. /\ steps[1] = "read" /\ steps[2] = "health"
      /\ \A i \in 1 .. Len(prepare) : steps[i + 2] = prepare[i]
  <2>1. steps[1] = "read" /\ steps[2] = "health"
    BY <1>0, <1>m, <1>1, <1>6
  <2>2. ASSUME NEW i \in 1 .. Len(prepare) PROVE steps[i + 2] = prepare[i]
    <3>1. i + 2 \in 1 .. Len(prepare) + 2 /\ ~(i + 2 <= 2) /\ (i + 2) - 2 = i
      BY <1>m
    <3>2. QED
      BY <1>1, <1>m, <1>6, <3>1
  <2>3. QED
    BY <2>1, <2>2
<1>8. steps[Len(prepare) + 3] = "load" /\ steps[Len(prepare) + 4] = "remote"
  BY <1>0, <1>m, <1>1, <1>2, <1>5
<1>9. ASSUME NEW i \in 1 .. Len(check) PROVE steps[Len(prepare) + i + 4] = check[i]
  <2> DEFINE k == Len(prepare) + i + 4
  <2>1. k \in 1 .. Len(c) /\ k \in 1 .. Len(b) + Len(check) /\ ~(k <= Len(b)) /\ k - Len(b) = i
    BY <1>m, <1>2, <1>3
  <2>t. k \in 1 .. Len(c) + 1 /\ k <= Len(c)
    BY <2>1, <1>m, <1>3
  <2>2. steps[k] = c[k] /\ c[k] = check[k - Len(b)]
    <3> HIDE DEF k
    <3>1. QED
      BY <1>3, <1>4, <2>1, <2>t
  <2>3. QED
    BY <2>1, <2>2
<1>10. steps[Len(prepare) + Len(check) + 5] = "threshold"
  BY <1>0, <1>m, <1>3, <1>4
<1>11. QED
  BY <1>4, <1>7, <1>8, <1>9, <1>10

\* What a run does before its load, and after it.
Prepares(kind) ==
    CASE kind = "cold" -> <<"auth">>
      [] kind = "down" -> <<"auth", "stopRedis">>
      [] kind = "map" -> <<"fixture">>
      [] kind = "checkout" -> <<"clearHolds">>
      [] kind = "payment" -> <<"clearHolds", "force", "orders">>
      [] OTHER -> <<>>

Checks(kind) ==
    CASE kind = "cold" -> <<"coldCheck">>
      [] kind = "checkout" -> <<"verify">>
      [] kind = "payment" -> <<"settle", "verify">>
      [] OTHER -> <<>>

LEMMA StepsOfKinds ==
    ASSUME NEW kind
    PROVE  /\ Prepares(kind) \in Seq(RunStep) /\ Checks(kind) \in Seq(RunStep)
           /\ Stack!Steps(kind) = <<"read", "health">> \o Prepares(kind) \o <<"load", "remote">>
                                     \o Checks(kind) \o <<"threshold">>
<1>1. Prepares(kind) \in Seq(RunStep)
  <2>1. /\ <<"auth">> \in Seq(RunStep) /\ <<"auth", "stopRedis">> \in Seq(RunStep)
        /\ <<"fixture">> \in Seq(RunStep) /\ <<"clearHolds">> \in Seq(RunStep)
        /\ <<"clearHolds", "force", "orders">> \in Seq(RunStep) /\ <<>> \in Seq(RunStep)
    BY DEF RunStep
  <2>2. QED
    BY <2>1 DEF Prepares
<1>2. Checks(kind) \in Seq(RunStep)
  <2>1. /\ <<"coldCheck">> \in Seq(RunStep) /\ <<"verify">> \in Seq(RunStep)
        /\ <<"settle", "verify">> \in Seq(RunStep) /\ <<>> \in Seq(RunStep)
    BY DEF RunStep
  <2>2. QED
    BY <2>1 DEF Checks
<1>3. QED
  BY <1>1, <1>2 DEF Stack!Steps, Prepares, Checks

\* The place of a step, and what follows it.
LEMMA FollowingStep ==
    ASSUME NEW i \in 1 .. Len(Stack!Steps(run.kind)), pcStack = Stack!Steps(run.kind)[i],
           \A j \in 1 .. Len(Stack!Steps(run.kind)) : Stack!Steps(run.kind)[j] = pcStack => j = i
    PROVE  Stack!Following = IF i < Len(Stack!Steps(run.kind)) THEN Stack!Steps(run.kind)[i + 1]
                                                               ELSE "restoreBackend"
BY DEF Stack!Following

\* The steps of a kind of run by name, so that no proof counts places in Stack!Steps.
After(kind, step) ==
    CASE step = "read" -> "health"
      [] step = "health" -> CASE kind \in {"cold", "down"} -> "auth"
                              [] kind = "map" -> "fixture"
                              [] kind \in {"checkout", "payment"} -> "clearHolds"
                              [] OTHER -> "load"
      [] step = "auth" /\ kind = "down" -> "stopRedis"
      [] step = "clearHolds" /\ kind = "payment" -> "force"
      [] step = "force" -> "orders"
      [] step = "load" -> "remote"
      [] step = "remote" -> CASE kind = "cold" -> "coldCheck"
                              [] kind = "checkout" -> "verify"
                              [] kind = "payment" -> "settle"
                              [] OTHER -> "threshold"
      [] step = "settle" -> "verify"
      [] step \in {"coldCheck", "verify"} -> "threshold"
      [] step = "threshold" -> "restoreBackend"
      [] OTHER -> "load"

Path(kind) ==
    {"read", "health", "load", "remote", "threshold"} \cup
    CASE kind = "cold" -> {"auth", "coldCheck"}
      [] kind = "down" -> {"auth", "stopRedis"}
      [] kind = "map" -> {"fixture"}
      [] kind = "checkout" -> {"clearHolds", "verify"}
      [] kind = "payment" -> {"clearHolds", "force", "orders", "settle", "verify"}
      [] OTHER -> {}

LEMMA RunsFollowTheirPath ==
    ASSUME run.kind \in Stack!Kinds, pcStack \in Path(run.kind)
    PROVE  Stack!Following = After(run.kind, pcStack)
<1> DEFINE steps == Stack!Steps(run.kind)
           prepare == Prepares(run.kind)
           check == Checks(run.kind)
<1>1. /\ Len(steps) = Len(prepare) + Len(check) + 5
      /\ steps[1] = "read" /\ steps[2] = "health"
      /\ \A i \in 1 .. Len(prepare) : steps[i + 2] = prepare[i]
      /\ steps[Len(prepare) + 3] = "load" /\ steps[Len(prepare) + 4] = "remote"
      /\ \A i \in 1 .. Len(check) : steps[Len(prepare) + i + 4] = check[i]
      /\ steps[Len(prepare) + Len(check) + 5] = "threshold"
  <2>1. /\ prepare \in Seq(RunStep) /\ check \in Seq(RunStep)
        /\ steps = <<"read", "health">> \o prepare \o <<"load", "remote">> \o check \o <<"threshold">>
    BY StepsOfKinds
  <2> HIDE DEF prepare, check, steps
  <2>2. QED
    BY <2>1, StepsAround, SMTT(30)
<1>2. ASSUME NEW n \in Nat, Len(steps) = n, NEW i \in 1 .. n, pcStack = steps[i],
             \A j \in 1 .. n : steps[j] = pcStack => j = i
      PROVE  Stack!Following = IF i < n THEN steps[i + 1] ELSE "restoreBackend"
  BY <1>2, FollowingStep
<1> HIDE DEF steps
<1>3. CASE run.kind = "cold"
  <2>1. prepare = <<"auth">> /\ check = <<"coldCheck">>
    BY <1>3 DEF Prepares, Checks
  <2>2. Len(prepare) = 1 /\ Len(check) = 1 /\ prepare[1] = "auth" /\ check[1] = "coldCheck"
    BY <2>1
  <2> HIDE DEF prepare, check
  <2>3. /\ Len(steps) = 7 /\ steps[1] = "read" /\ steps[2] = "health" /\ steps[3] = "auth"
        /\ steps[4] = "load" /\ steps[5] = "remote" /\ steps[6] = "coldCheck"
        /\ steps[7] = "threshold"
    BY <1>1, <2>2
  <2>4. PICK i \in 1 .. 7 : pcStack = steps[i]
    BY <1>3, <2>3 DEF Path
  <2>5. \A j \in 1 .. 7 : steps[j] = pcStack => j = i
    BY <2>3, <2>4
  <2>6. Stack!Following = IF i < 7 THEN steps[i + 1] ELSE "restoreBackend"
    BY <1>2, <2>3, <2>4, <2>5
  <2>7. QED
    BY <1>3, <2>3, <2>4, <2>6 DEF After
<1>4. CASE run.kind = "down"
  <2>1. prepare = <<"auth", "stopRedis">> /\ check = <<>>
    BY <1>4 DEF Prepares, Checks
  <2>2. Len(prepare) = 2 /\ Len(check) = 0 /\ prepare[1] = "auth" /\ prepare[2] = "stopRedis"
    BY <2>1
  <2> HIDE DEF prepare, check
  <2>3. /\ Len(steps) = 7 /\ steps[1] = "read" /\ steps[2] = "health" /\ steps[3] = "auth"
        /\ steps[4] = "stopRedis" /\ steps[5] = "load" /\ steps[6] = "remote"
        /\ steps[7] = "threshold"
    BY <1>1, <2>2
  <2>4. PICK i \in 1 .. 7 : pcStack = steps[i]
    BY <1>4, <2>3 DEF Path
  <2>5. \A j \in 1 .. 7 : steps[j] = pcStack => j = i
    BY <2>3, <2>4
  <2>6. Stack!Following = IF i < 7 THEN steps[i + 1] ELSE "restoreBackend"
    BY <1>2, <2>3, <2>4, <2>5
  <2>7. QED
    BY <1>4, <2>3, <2>4, <2>6 DEF After
<1>5. CASE run.kind = "map"
  <2>1. prepare = <<"fixture">> /\ check = <<>>
    BY <1>5 DEF Prepares, Checks
  <2>2. Len(prepare) = 1 /\ Len(check) = 0 /\ prepare[1] = "fixture"
    BY <2>1
  <2> HIDE DEF prepare, check
  <2>3. /\ Len(steps) = 6 /\ steps[1] = "read" /\ steps[2] = "health" /\ steps[3] = "fixture"
        /\ steps[4] = "load" /\ steps[5] = "remote" /\ steps[6] = "threshold"
    BY <1>1, <2>2
  <2>4. PICK i \in 1 .. 6 : pcStack = steps[i]
    BY <1>5, <2>3 DEF Path
  <2>5. \A j \in 1 .. 6 : steps[j] = pcStack => j = i
    BY <2>3, <2>4
  <2>6. Stack!Following = IF i < 6 THEN steps[i + 1] ELSE "restoreBackend"
    BY <1>2, <2>3, <2>4, <2>5
  <2>7. QED
    BY <1>5, <2>3, <2>4, <2>6 DEF After
<1>6. CASE run.kind = "checkout"
  <2>1. prepare = <<"clearHolds">> /\ check = <<"verify">>
    BY <1>6 DEF Prepares, Checks
  <2>2. Len(prepare) = 1 /\ Len(check) = 1 /\ prepare[1] = "clearHolds" /\ check[1] = "verify"
    BY <2>1
  <2> HIDE DEF prepare, check
  <2>3. /\ Len(steps) = 7 /\ steps[1] = "read" /\ steps[2] = "health"
        /\ steps[3] = "clearHolds" /\ steps[4] = "load" /\ steps[5] = "remote"
        /\ steps[6] = "verify" /\ steps[7] = "threshold"
    BY <1>1, <2>2
  <2>4. PICK i \in 1 .. 7 : pcStack = steps[i]
    BY <1>6, <2>3 DEF Path
  <2>5. \A j \in 1 .. 7 : steps[j] = pcStack => j = i
    BY <2>3, <2>4
  <2>6. Stack!Following = IF i < 7 THEN steps[i + 1] ELSE "restoreBackend"
    BY <1>2, <2>3, <2>4, <2>5
  <2>7. QED
    BY <1>6, <2>3, <2>4, <2>6 DEF After
<1>7. CASE run.kind = "payment"
  <2>1. prepare = <<"clearHolds", "force", "orders">> /\ check = <<"settle", "verify">>
    BY <1>7 DEF Prepares, Checks
  <2>2. Len(prepare) = 3 /\ Len(check) = 2 /\ prepare[1] = "clearHolds" /\ prepare[2] = "force" /\ prepare[3] = "orders" /\ check[1] = "settle" /\ check[2] = "verify"
    BY <2>1
  <2> HIDE DEF prepare, check
  <2>3. /\ Len(steps) = 10 /\ steps[1] = "read" /\ steps[2] = "health"
        /\ steps[3] = "clearHolds" /\ steps[4] = "force" /\ steps[5] = "orders"
        /\ steps[6] = "load" /\ steps[7] = "remote" /\ steps[8] = "settle"
        /\ steps[9] = "verify" /\ steps[10] = "threshold"
    BY <1>1, <2>2
  <2>4. PICK i \in 1 .. 10 : pcStack = steps[i]
    BY <1>7, <2>3 DEF Path
  <2>5. \A j \in 1 .. 10 : steps[j] = pcStack => j = i
    BY <2>3, <2>4
  <2>6. Stack!Following = IF i < 10 THEN steps[i + 1] ELSE "restoreBackend"
    BY <1>2, <2>3, <2>4, <2>5
  <2>7. QED
    BY <1>7, <2>3, <2>4, <2>6 DEF After
<1>8. CASE run.kind \in {"read", "login"}
  <2>1. prepare = <<>> /\ check = <<>>
    BY <1>8 DEF Prepares, Checks
  <2>2. Len(prepare) = 0 /\ Len(check) = 0
    BY <2>1
  <2> HIDE DEF prepare, check
  <2>3. /\ Len(steps) = 5 /\ steps[1] = "read" /\ steps[2] = "health" /\ steps[3] = "load"
        /\ steps[4] = "remote" /\ steps[5] = "threshold"
    BY <1>1, <2>2
  <2>4. PICK i \in 1 .. 5 : pcStack = steps[i]
    BY <1>8, <2>3 DEF Path
  <2>5. \A j \in 1 .. 5 : steps[j] = pcStack => j = i
    BY <2>3, <2>4
  <2>6. Stack!Following = IF i < 5 THEN steps[i + 1] ELSE "restoreBackend"
    BY <1>2, <2>3, <2>4, <2>5
  <2>7. QED
    BY <1>8, <2>3, <2>4, <2>6 DEF After
<1>9. QED
  BY <1>3, <1>4, <1>5, <1>6, <1>7, <1>8 DEF Stack!Kinds, Stack!UsesSessions, Stack!Transactional

LEMMA RunStepsAreSteps == Stack!RunSteps \subseteq RunStep
<1> SUFFICES ASSUME NEW k \in Stack!Kinds, NEW i \in 1 .. Len(Stack!Steps(k))
             PROVE  Stack!Steps(k)[i] \in RunStep
  BY DEF Stack!RunSteps
<1>1. /\ Prepares(k) \in Seq(RunStep) /\ Checks(k) \in Seq(RunStep)
      /\ Stack!Steps(k) = <<"read", "health">> \o Prepares(k) \o <<"load", "remote">> \o Checks(k) \o <<"threshold">>
  BY StepsOfKinds
<1>2. <<"read", "health">> \in Seq(RunStep) /\ <<"load", "remote">> \in Seq(RunStep)
      /\ <<"threshold">> \in Seq(RunStep)
  BY DEF RunStep
<1> DEFINE a == <<"read", "health">> \o Prepares(k)
           b == a \o <<"load", "remote">>
           c == b \o Checks(k)
<1>3. a \in Seq(RunStep)
  BY <1>1, <1>2
<1>4. b \in Seq(RunStep)
  <2> HIDE DEF a
  <2>1. QED
    BY <1>2, <1>3
<1>5. c \in Seq(RunStep)
  <2> HIDE DEF b
  <2>1. QED
    BY <1>1, <1>4
<1>6. c \o <<"threshold">> \in Seq(RunStep)
  <2> HIDE DEF c
  <2>1. QED
    BY <1>2, <1>5
<1>7. QED
  BY <1>1, <1>6

PlanCommand == {"configure", "revert", "reset", "clearFiles", "down", "up", "observe", "replaceRows", "validate",
                "sessions", "seats", "dataset", "smoke", "freshVerify", "clear", "warm", "statsReset",
                "redisBefore", "collect"}
UndoStep == {"restoreBackend", "restoreRedis", "manifest"}
Configs == {"base", "experiment"}
Verdicts == {"none", "running", "failed", "passed"}
Codes == {"none", "ok", "threshold"}

Runs == [id : Nat, kind : Stack!Kinds \cup {"none"}, measured : BOOLEAN, stopped : BOOLEAN, forced : BOOLEAN,
         verdict : Verdicts, code : Codes, interrupted : BOOLEAN, sessions : Nat, dataset : Nat]
Outcomes == [kind : Stack!Kinds, manifest : Verdicts, code : Codes, whole : BOOLEAN, began : BOOLEAN,
             named : BOOLEAN, sound : BOOLEAN, settled : BOOLEAN, evidence : SUBSET Nat,
             claims : Configs \cup {"none"}, config : Configs, ground : BOOLEAN]

Backends == [up : BOOLEAN, forced : BOOLEAN, config : Configs]
Rows == [gen : Nat, used : BOOLEAN, processing : BOOLEAN, sound : BOOLEAN]

StackTypes ==
    /\ redis \in BOOLEAN /\ cached \in BOOLEAN /\ startedWhole \in BOOLEAN
    /\ backend \in Backends
    /\ db \in Rows
    /\ holds \in {"none", "fixture", "run"}
    /\ files \in [Stack!FileNames -> Nat] /\ newest \in Nat
    /\ stats \in SUBSET Nat
    /\ run \in Runs /\ results \in Seq(Outcomes)
    /\ pcStack \in {"idle"} \cup PlanCommand \cup RunStep \cup UndoStep
    /\ warmed \in Nat /\ plan.experiment \in BOOLEAN
    /\ pcStack # "idle" => plan \in Plans /\ pos \in 1 .. Len(plan.entries)

\* What a run is, wherever it has come to.
RunIsInHand ==
    /\ pcStack \in RunStep => run.kind \in Stack!Kinds /\ pcStack \in Path(run.kind) /\ ~run.interrupted
    /\ pcStack \in UndoStep => run.kind \in Stack!Kinds /\ (run.verdict = "failed" \/ run.id # 0)
    /\ pcStack \notin RunStep \cup UndoStep => run = Stack!NoRun
    /\ pcStack \in {"read", "health"} => run.id = 0 /\ ~run.stopped /\ ~run.forced
    /\ pcStack \in RunStep \ {"read", "health"} => run.verdict = "running" /\ run.id # 0
    /\ run.id # 0 => /\ run.id = Len(results)
                     /\ results[run.id].kind = run.kind /\ results[run.id].manifest = "none"
                     /\ results[run.id].evidence = {} /\ results[run.id].ground = startedWhole
    /\ run.stopped => run.kind = "down"
    /\ run.forced => run.kind = "payment"
    /\ plan.experiment /\ pcStack # "idle" => run.kind \in {"none", "login"}
    /\ pcStack \in {"clearFiles", "down", "up", "observe"} => Stack!Entry.reset = "full"
    /\ pcStack \in {"configure", "revert"} => plan.experiment

LEMMA StackBegins == Stack!Init => StackTypes /\ RunIsInHand
<1> SUFFICES ASSUME Stack!Init PROVE StackTypes /\ RunIsInHand
  OBVIOUS
<1>1. results \in Seq(Outcomes)
  <2>1. <<>> \in Seq(Outcomes)
    OBVIOUS
  <2>2. QED
    BY <2>1 DEF Stack!Init
<1>2. StackTypes
  BY <1>1 DEF Stack!Init, StackTypes, Stack!Base, Stack!Free, Stack!FileNames, Stack!Idle, Stack!NoRun, Configs,
     Runs, Verdicts, Codes, Backends, Rows
<1>3. RunIsInHand
  BY DEF Stack!Init, RunIsInHand, Stack!NoRun, Stack!Idle, RunStep, UndoStep, PlanCommand
<1>4. QED
  BY <1>2, <1>3

LEMMA BackendsAreKnown ==
    /\ Stack!Base \in Backends /\ [Stack!Base EXCEPT !.up = FALSE] \in Backends
    /\ [Stack!Base EXCEPT !.forced = TRUE] \in Backends
    /\ \A u, f \in BOOLEAN, c \in Configs : [up |-> u, forced |-> f, config |-> c] \in Backends
BY DEF Stack!Base, Backends, Configs

LEMMA RowsAreKnown ==
    /\ Stack!Free \in Rows /\ \A n \in Nat : [Stack!Free EXCEPT !.gen = n] \in Rows
    /\ \A r \in Rows, u, p, s \in BOOLEAN : /\ [r EXCEPT !.used = u] \in Rows
                                           /\ [r EXCEPT !.processing = p] \in Rows
                                           /\ [r EXCEPT !.used = u, !.sound = s, !.processing = p] \in Rows
    /\ \A r \in Rows : r.gen \in Nat /\ r.used \in BOOLEAN /\ r.processing \in BOOLEAN /\ r.sound \in BOOLEAN
BY DEF Stack!Free, Rows

LEMMA OutcomesBegin ==
    ASSUME NEW kind \in Stack!Kinds, NEW whole_ \in BOOLEAN, NEW config \in Configs, NEW ground \in BOOLEAN
    PROVE  [kind |-> kind, manifest |-> "none", code |-> "none",
            whole |-> FALSE, began |-> whole_,
            named |-> FALSE, sound |-> FALSE, settled |-> FALSE,
            evidence |-> {}, claims |-> "none", config |-> config,
            ground |-> ground] \in Outcomes
BY DEF Outcomes, Verdicts, Codes

\* The entry that is at work, of a plan of the operator.
LEMMA EntryIsPlanned ==
    ASSUME StackTypes, pcStack # "idle"
    PROVE  /\ Stack!Entry.reset \in Stack!Resets /\ Stack!Entry.kind \in Stack!Kinds
           /\ Stack!Entry.warm \in Seq(Stack!Kinds)
           /\ plan.experiment => Stack!Entry.kind = "login" /\ Stack!Entry.reset = "logical"
                                 /\ Stack!Entry.warm = <<>>
<1>1. plan \in Plans /\ pos \in 1 .. Len(plan.entries)
  BY DEF StackTypes
<1>2. /\ plan.entries \in Seq([reset : Stack!Resets, kind : Stack!Kinds, warm : Seq(Stack!Kinds)])
      /\ plan.experiment => \A i \in 1..Len(plan.entries) :
                   /\ plan.entries[i].kind = "login"
                   /\ plan.entries[i].reset = "logical"
                   /\ plan.entries[i].warm = <<>>
  BY <1>1, InstancesAreValid DEF Stack!ConstantsAssumption
<1> DEFINE entry == [reset : Stack!Resets, kind : Stack!Kinds, warm : Seq(Stack!Kinds)]
<1>3. plan.entries[pos] \in entry
  <2>1. plan.entries \in Seq(entry)
    BY <1>2
  <2> HIDE DEF entry
  <2>2. QED
    BY <1>1, <2>1
<1>4. QED
  BY <1>1, <1>2, <1>3 DEF Stack!Entry

LEMMA WhatFollows ==
    ASSUME RunIsInHand, pcStack \in RunStep
    PROVE  /\ Stack!Following = After(run.kind, pcStack)
           /\ Stack!Following \in Path(run.kind) \cup {"restoreBackend"}
           /\ Stack!Following \in (RunStep \ {"read"}) \cup {"restoreBackend"}
           /\ Stack!Following = "health" => pcStack = "read"
           /\ Stack!Following = "restoreBackend" => pcStack = "threshold"
           /\ pcStack = "threshold" => Stack!Following = "restoreBackend"
<1>1. run.kind \in Stack!Kinds /\ pcStack \in Path(run.kind)
  BY DEF RunIsInHand
<1>2. Stack!Following = After(run.kind, pcStack)
  BY <1>1, RunsFollowTheirPath
<1>3. /\ After(run.kind, pcStack) \in Path(run.kind) \cup {"restoreBackend"}
      /\ After(run.kind, pcStack) \in (RunStep \ {"read"}) \cup {"restoreBackend"}
      /\ After(run.kind, pcStack) = "health" => pcStack = "read"
      /\ After(run.kind, pcStack) = "restoreBackend" => pcStack = "threshold"
      /\ pcStack = "threshold" => After(run.kind, pcStack) = "restoreBackend"
  <2> USE <1>1 DEF After, Path, RunStep
  <2>1. CASE run.kind = "cold"
    BY <2>1
  <2>2. CASE run.kind = "down"
    BY <2>2
  <2>3. CASE run.kind = "map"
    BY <2>3
  <2>4. CASE run.kind = "checkout"
    BY <2>4
  <2>5. CASE run.kind = "payment"
    BY <2>5
  <2>6. CASE run.kind = "read"
    BY <2>6
  <2>7. CASE run.kind = "login"
    BY <2>7
  <2>8. QED
    BY <2>1, <2>2, <2>3, <2>4, <2>5, <2>6, <2>7 DEF Stack!Kinds, Stack!UsesSessions, Stack!Transactional
<1>4. QED
  BY <1>2, <1>3

\* A step of a run that is open goes on with it or ends it.
LEMMA RunGoesOn ==
    ASSUME RunIsInHand, pcStack \in RunStep \ {"read", "health"},
           UNCHANGED <<results, plan, pos, startedWhole>>,
           run'.id = run.id, run'.kind = run.kind,
           run'.stopped => run.kind = "down", run'.forced => run.kind = "payment",
           \/ pcStack' = Stack!Following /\ run'.verdict = "running" /\ ~run'.interrupted /\ pcStack # "threshold"
           \/ pcStack' = "restoreBackend"
    PROVE  RunIsInHand'
<1>1. CASE pcStack' = "restoreBackend"
  BY <1>1 DEF RunIsInHand, RunStep, UndoStep, Stack!NoRun
<1>2. CASE pcStack' = Stack!Following /\ run'.verdict = "running" /\ ~run'.interrupted /\ pcStack # "threshold"
  <2>1. /\ pcStack' \in Path(run.kind) /\ pcStack' \in RunStep \ {"read", "health"}
    BY <1>2, WhatFollows
  <2>2. QED
    BY <1>2, <2>1 DEF RunIsInHand, RunStep, UndoStep, Stack!NoRun
<1>3. QED
  BY <1>1, <1>2

\* A command of the plan goes on with the plan, without a run.
LEMMA PlanGoesOn ==
    ASSUME RunIsInHand, pcStack \in {"idle"} \cup PlanCommand, run' = run,
           pcStack' \in {"idle"} \cup PlanCommand, plan' = plan,
           pcStack' \in {"clearFiles", "down", "up", "observe"} => Stack!Entry'.reset = "full",
           pcStack' \in {"configure", "revert"} => plan.experiment
    PROVE  RunIsInHand'
BY DEF RunIsInHand, Stack!NoRun, RunStep, UndoStep, PlanCommand

LEMMA PlanKeepsRuns == StackTypes /\ RunIsInHand /\ Stack!PlanNext => (StackTypes /\ RunIsInHand)'
<1> SUFFICES ASSUME StackTypes, RunIsInHand, Stack!PlanNext PROVE StackTypes' /\ RunIsInHand'
  OBVIOUS
<1> USE DEF Stack!stack, Stack!tool, Stack!bounds
<1>e. pcStack # "idle" => /\ Stack!Entry.reset \in Stack!Resets /\ Stack!Entry.kind \in Stack!Kinds
                          /\ Stack!Entry.warm \in Seq(Stack!Kinds)
                          /\ plan.experiment => Stack!Entry.kind = "login" /\ Stack!Entry.reset = "logical"
                                                /\ Stack!Entry.warm = <<>>
  BY EntryIsPlanned
<1>d. Stack!Ended \in {"idle", "revert"} /\ (Stack!Ended = "revert" => plan.experiment)
  BY DEF Stack!Ended
<1>1. CASE Stack!StartPlan
  <2>1. PICK p \in Plans : plan' = p /\ pcStack' = IF p.experiment THEN "configure" ELSE "reset"
    BY <1>1 DEF Stack!StartPlan
  <2>2. /\ p.experiment \in BOOLEAN /\ p.entries \in Seq([reset : Stack!Resets, kind : Stack!Kinds, warm : Seq(Stack!Kinds)])
        /\ Len(p.entries) > 0
    BY <2>1, InstancesAreValid DEF Stack!ConstantsAssumption
  <2>3. pos' = 1 /\ 1 \in 1 .. Len(p.entries)
    <3>1. Len(p.entries) \in Nat
      BY <2>2
    <3>2. QED
      BY <1>1, <2>2, <3>1 DEF Stack!StartPlan
  <2>4. run' = Stack!NoRun /\ run = Stack!NoRun
    BY <1>1 DEF Stack!StartPlan, RunIsInHand, RunStep, UndoStep
  <2>5. StackTypes'
    BY <1>1, <2>1, <2>2, <2>3, <2>4 DEF Stack!StartPlan, StackTypes, PlanCommand, Stack!Whole, Stack!Healthy
  <2>6. RunIsInHand'
    BY <1>1, <2>1, <2>4 DEF RunIsInHand, Stack!NoRun, RunStep, UndoStep
  <2>7. QED
    BY <2>5, <2>6
\* The commands of a plan, which leave the runs and their results alone.
<1>2. ASSUME pcStack \in PlanCommand, UNCHANGED <<run, results, plan, startedWhole>>,
             redis' \in BOOLEAN, cached' \in BOOLEAN, pos' \in 1 .. Len(plan.entries), warmed' \in Nat,
             backend' \in Backends,
             db' \in Rows,
             holds' \in {"none", "fixture", "run"}, files' \in [Stack!FileNames -> Nat], newest' \in Nat,
             stats' \in SUBSET Nat, pcStack' \in {"idle"} \cup PlanCommand,
             pcStack' \in {"clearFiles", "down", "up", "observe"} => pos' = pos /\ Stack!Entry.reset = "full",
             pcStack' \in {"configure", "revert"} => plan.experiment
      PROVE  StackTypes' /\ RunIsInHand'
  <2>1. StackTypes'
    BY <1>2 DEF StackTypes, PlanCommand
  <2>2. pcStack' \in {"clearFiles", "down", "up", "observe"} => Stack!Entry'.reset = "full"
    BY <1>2 DEF Stack!Entry
  <2>3. RunIsInHand'
    BY <1>2, <2>2, PlanGoesOn
  <2>4. QED
    BY <2>1, <2>3
<1>t. pcStack \in PlanCommand => pcStack # "idle" /\ pos \in 1 .. Len(plan.entries)
  BY DEF StackTypes, PlanCommand
<1>3. CASE Stack!PlanCommandFails \/ Stack!Reset \/ Stack!Observe \/ Stack!ValidateDatabase \/ Stack!FreshVerify
  <2>1. /\ UNCHANGED <<Stack!stack, stats, Stack!tool, results, startedWhole>>
        /\ pcStack \in PlanCommand /\ pcStack' \in {"idle"} \cup PlanCommand
        /\ pcStack' \in {"clearFiles", "down", "up", "observe"} => Stack!Entry.reset = "full"
        /\ pcStack' \in {"configure", "revert"} => plan.experiment
    <3>1. CASE Stack!PlanCommandFails
      BY <3>1, <1>d DEF Stack!PlanCommandFails, PlanCommand
    <3>2. CASE Stack!Reset
      BY <3>2, <1>e DEF Stack!Reset, PlanCommand, Stack!Resets
    <3>3. CASE Stack!Observe \/ Stack!ValidateDatabase \/ Stack!FreshVerify
      BY <3>3, <1>d DEF Stack!Observe, Stack!ValidateDatabase, Stack!FreshVerify, PlanCommand, Stack!FilesInOrder
    <3>4. QED
      BY <1>3, <3>1, <3>2, <3>3
  <2>2. QED
    BY <1>2, <1>t, <2>1, Zenon DEF StackTypes
<1>4. CASE Stack!Configure \/ Stack!Revert \/ Stack!RecreationFails
  <2>1. /\ UNCHANGED <<redis, db, holds, cached, files, newest, stats, Stack!tool, results, startedWhole>>
        /\ pcStack \in PlanCommand /\ pcStack' \in {"idle", "reset"}
        /\ backend' \in Backends
    <3>1. CASE Stack!Configure \/ Stack!Revert
      BY <3>1, BackendsAreKnown DEF Stack!Configure, Stack!Revert, PlanCommand, Configs
    <3>2. CASE Stack!RecreationFails
      BY <3>2, BackendsAreKnown DEF Stack!RecreationFails, PlanCommand, Configs, StackTypes
    <3>3. QED
      BY <1>4, <3>1, <3>2
  <2>2. pcStack' \in {"idle"} \cup PlanCommand /\ pcStack' \notin {"clearFiles", "down", "up", "observe"}
        /\ pcStack' \notin {"configure", "revert"}
    BY <2>1 DEF PlanCommand
  <2>3. QED
    BY <1>2, <1>t, <2>1, <2>2, Zenon DEF StackTypes
<1>5. CASE Stack!ClearGenerated \/ Stack!DownVolumes \/ Stack!UpBuild
  <2>0. Stack!Entry.reset = "full"
    BY <1>5 DEF Stack!ClearGenerated, Stack!DownVolumes, Stack!UpBuild, RunIsInHand
  <2>1. /\ UNCHANGED <<newest, Stack!tool, results, startedWhole>>
        /\ pcStack \in PlanCommand /\ pcStack' \in {"down", "up", "observe", Stack!Ended}
        /\ redis' \in BOOLEAN /\ cached' \in BOOLEAN /\ stats' \in SUBSET Nat
        /\ backend' \in Backends
        /\ db' \in Rows
        /\ holds' \in {"none", "fixture", "run"} /\ files' \in [Stack!FileNames -> Nat]
    <3>1. CASE Stack!ClearGenerated
      BY <3>1 DEF Stack!ClearGenerated, PlanCommand, StackTypes, Stack!NoFiles
    <3>2. CASE Stack!DownVolumes
      BY <3>2, BackendsAreKnown, RowsAreKnown DEF Stack!DownVolumes, PlanCommand, StackTypes
    <3>3. CASE Stack!UpBuild
      BY <3>3, BackendsAreKnown DEF Stack!UpBuild, PlanCommand, StackTypes
    <3>4. QED
      BY <1>5, <3>1, <3>2, <3>3
  <2>2. /\ pcStack' \in {"idle"} \cup PlanCommand
        /\ pcStack' \in {"configure", "revert"} => plan.experiment
    BY <1>d, <2>1 DEF PlanCommand
  <2>3. newest' \in Nat
    BY <2>1 DEF StackTypes
  <2>4. pos' = pos /\ UNCHANGED <<run, results, plan, startedWhole>> /\ warmed' \in Nat
    BY <2>1 DEF StackTypes
  <2>5. QED
    BY <1>2, <1>t, <2>0, <2>1, <2>2, <2>3, <2>4, Zenon
<1>6. CASE Stack!ReplaceRows \/ Stack!WriteFile \/ Stack!AuthSmoke \/ Stack!ClearCaches \/ Stack!ResetStatistics
  <2>1. /\ UNCHANGED <<redis, backend, Stack!tool, results, startedWhole>>
        /\ pcStack \in PlanCommand /\ newest' \in Nat
        /\ pcStack' \in {"validate", "seats", "dataset", "smoke", "freshVerify", "clear", "warm", "redisBefore", Stack!Ended}
        /\ cached' \in BOOLEAN /\ stats' \in SUBSET Nat
        /\ db' \in Rows
        /\ holds' \in {"none", "fixture", "run"} /\ files' \in [Stack!FileNames -> Nat]
    <3>1. CASE Stack!ReplaceRows
      <4>1. newest + 1 \in Nat
        BY DEF StackTypes
      <4>2. [Stack!Free EXCEPT !.gen = newest + 1] \in Rows
        BY <4>1, RowsAreKnown
      <4>3. QED
        BY <3>1, <4>1, <4>2 DEF Stack!ReplaceRows, PlanCommand, StackTypes
    <3>2. CASE Stack!WriteFile
      <4>1. PICK i \in 1 .. 3 : /\ pcStack = Stack!FilesInOrder[i]
                                /\ files' = [files EXCEPT ![pcStack] = newest]
                                /\ pcStack' = IF i < 3 THEN Stack!FilesInOrder[i + 1] ELSE "smoke"
        BY <3>2 DEF Stack!WriteFile
      <4>2. pcStack \in PlanCommand /\ pcStack' \in {"seats", "dataset", "smoke"}
        BY <4>1 DEF Stack!FilesInOrder, PlanCommand
      <4>3. files' \in [Stack!FileNames -> Nat]
        BY <4>1 DEF StackTypes
      <4>4. QED
        BY <3>2, <4>2, <4>3 DEF Stack!WriteFile, StackTypes
    <3>3. CASE Stack!AuthSmoke
      BY <3>3 DEF Stack!AuthSmoke, PlanCommand, StackTypes
    <3>4. CASE Stack!ClearCaches \/ Stack!ResetStatistics
      BY <3>4 DEF Stack!ClearCaches, Stack!ResetStatistics, PlanCommand, StackTypes
    <3>5. QED
      BY <1>6, <3>1, <3>2, <3>3, <3>4
  <2>2. /\ pcStack' \in {"idle"} \cup PlanCommand
        /\ pcStack' \in {"configure", "revert"} => plan.experiment
        /\ pcStack' \notin {"clearFiles", "down", "up", "observe"}
    BY <1>d, <2>1 DEF PlanCommand
  <2>3. UNCHANGED <<run, results, plan, startedWhole>> /\ pos' = pos /\ warmed' \in Nat /\ redis' \in BOOLEAN
        /\ backend' \in Backends
    BY <2>1 DEF StackTypes
  <2>4. QED
    BY <1>2, <1>t, <2>1, <2>2, <2>3, Zenon
\* A run begins.
<1>7. CASE Stack!Warmup \/ Stack!Measure
  <2>1. PICK kind \in Stack!Kinds, measured \in BOOLEAN :
          \/ Stack!StartRun(kind, measured) /\ pcStack' = "read" /\ (plan.experiment => kind = "login")
          \/ run' = run /\ pcStack' \in {Stack!Ended, "statsReset"}
    <3>1. CASE Stack!Measure
      BY <3>1, <1>e DEF Stack!Measure
    <3>2. CASE Stack!Warmup
      <4>1. pcStack # "idle" /\ warmed \in Nat /\ Stack!Entry.warm \in Seq(Stack!Kinds)
        BY <3>2, <1>e DEF Stack!Warmup, StackTypes
      <4>2. warmed < Len(Stack!Entry.warm) => Stack!Entry.warm[warmed + 1] \in Stack!Kinds /\ ~plan.experiment
        BY <4>1, <1>e
      <4>3. "login" \in Stack!Kinds
        BY DEF Stack!Kinds
      <4>4. QED
        BY <3>2, <4>2, <4>3 DEF Stack!Warmup
    <3>3. QED
      BY <1>7, <3>1, <3>2
  <2>2. /\ UNCHANGED <<Stack!stack, stats, plan, pos, results, startedWhole>> /\ warmed' \in Nat
        /\ pcStack \in {"warm", "redisBefore"}
    <3>1. CASE Stack!Warmup
      <4>1. warmed' \in {warmed, warmed + 1} /\ warmed \in Nat
        BY <3>1 DEF Stack!Warmup, StackTypes
      <4>2. QED
        BY <3>1, <4>1 DEF Stack!Warmup
    <3>2. CASE Stack!Measure
      BY <3>2 DEF Stack!Measure, StackTypes
    <3>3. QED
      BY <1>7, <3>1, <3>2
  <2>3. CASE Stack!StartRun(kind, measured) /\ pcStack' = "read" /\ (plan.experiment => kind = "login")
    <3>1. run' \in Runs /\ run'.kind = kind /\ run'.id = 0 /\ ~run'.stopped /\ ~run'.forced /\ ~run'.interrupted
      BY <2>3 DEF Stack!StartRun, Stack!NoRun, Runs, Verdicts, Codes
    <3>2. StackTypes'
      BY <2>2, <2>3, <3>1 DEF StackTypes, RunStep
    <3>3. RunIsInHand'
      BY <2>2, <2>3, <3>1 DEF RunIsInHand, RunStep, UndoStep, Path
    <3>4. QED
      BY <3>2, <3>3
  <2>4. CASE run' = run /\ pcStack' \in {Stack!Ended, "statsReset"}
    <3>1. /\ pcStack \in PlanCommand /\ pcStack' \in {"idle"} \cup PlanCommand
          /\ pcStack' \in {"configure", "revert"} => plan.experiment
          /\ pcStack' \notin {"clearFiles", "down", "up", "observe"}
      BY <1>d, <2>2, <2>4 DEF PlanCommand
    <3>2. QED
      BY <1>2, <1>t, <2>2, <2>4, <3>1, Zenon DEF StackTypes
  <2>5. QED
    BY <2>1, <2>3, <2>4
<1>8. CASE Stack!Collect
  <2>0. pcStack = "collect" /\ run = Stack!NoRun
    BY <1>8 DEF Stack!Collect, RunIsInHand, RunStep, UndoStep
  <2>1. /\ UNCHANGED <<Stack!stack, stats, plan, run, startedWhole>>
        /\ pcStack' \in {"reset", "revert", "idle"} /\ (pcStack' = "revert" => plan.experiment)
        /\ results' \in Seq(Outcomes) /\ warmed' \in Nat /\ pos' \in 1 .. Len(plan.entries)
    <3>0. pos \in 1 .. Len(plan.entries) /\ plan.entries \in Seq([reset : Stack!Resets, kind : Stack!Kinds, warm : Seq(Stack!Kinds)])
      BY <2>0, InstancesAreValid DEF Stack!ConstantsAssumption, StackTypes
    <3>1. /\ UNCHANGED <<Stack!stack, stats, plan, run, startedWhole>>
          /\ pcStack' \in {"reset", "revert", "idle"} /\ (pcStack' = "revert" => plan.experiment)
          /\ warmed' \in Nat
      BY <1>8, <1>d DEF Stack!Collect, StackTypes
    <3>2. pos' \in 1 .. Len(plan.entries)
      <4>1. Len(plan.entries) \in Nat
        BY <3>0
      <4>2. QED
        BY <1>8, <3>0, <4>1 DEF Stack!Collect
    <3>3. results' \in Seq(Outcomes)
      <4>1. CASE results' = results
        BY <4>1 DEF StackTypes
      <4>2. CASE results' # results
        <5>1. results' = [results EXCEPT ![Len(results)].evidence = stats,
                                         ![Len(results)].claims = Stack!DeclaredConfig]
          BY <1>8, <4>2 DEF Stack!Collect
        <5>2. stats \in SUBSET Nat /\ Stack!DeclaredConfig \in Configs
          BY DEF StackTypes, Stack!DeclaredConfig, Configs
        <5> DEFINE one == [results[Len(results)] EXCEPT !.evidence = stats, !.claims = Stack!DeclaredConfig]
        <5>3. Len(results) \in 1 .. Len(results) => one \in Outcomes
          <6>1. Len(results) \in 1 .. Len(results) => results[Len(results)] \in Outcomes
            <7> HIDE DEF Outcomes
            <7>1. QED
              BY DEF StackTypes
          <6>2. QED
            BY <5>2, <6>1 DEF Outcomes
        <5>4. results' = [results EXCEPT ![Len(results)] = one]
          BY <5>1 DEF StackTypes
        <5>5. results \in Seq(Outcomes) /\ Len(results) \in Nat
          BY DEF StackTypes
        <5> HIDE DEF one, Outcomes
        <5>6. CASE Len(results) = 0
          <6>1. results' = results
            BY <5>4, <5>5, <5>6
          <6>2. QED
            BY <5>5, <6>1
        <5>7. CASE Len(results) > 0
          BY <5>3, <5>4, <5>5, <5>7
        <5>8. QED
          BY <5>5, <5>6, <5>7
      <4>3. QED
        BY <4>1, <4>2
    <3>4. QED
      BY <3>1, <3>2, <3>3
  <2>2. StackTypes'
    BY <2>0, <2>1, <1>t DEF StackTypes, PlanCommand
  <2>3. RunIsInHand'
    BY <2>0, <2>1, PlanGoesOn DEF PlanCommand
  <2>4. QED
    BY <2>2, <2>3
<1>10. QED
  BY <1>1, <1>3, <1>4, <1>5, <1>6, <1>7, <1>8 DEF Stack!PlanNext

LEMMA RunKeepsRuns == StackTypes /\ RunIsInHand /\ Stack!RunNext => (StackTypes /\ RunIsInHand)'
<1> SUFFICES ASSUME StackTypes, RunIsInHand, Stack!RunNext PROVE StackTypes' /\ RunIsInHand'
  OBVIOUS
<1> USE DEF Stack!stack, Stack!tool, Stack!bounds
<1>p. pcStack \in RunStep \cup UndoStep => /\ pcStack # "idle" /\ plan \in Plans /\ pos \in 1 .. Len(plan.entries)
                                           /\ run.kind \in Stack!Kinds
  BY DEF StackTypes, RunStep, UndoStep, RunIsInHand
<1>r. /\ run \in Runs /\ db \in Rows /\ backend \in Backends
      /\ \A v \in Verdicts : [run EXCEPT !.verdict = v] \in Runs
      /\ \A c \in Codes : [run EXCEPT !.code = c] \in Runs
      /\ [run EXCEPT !.stopped = TRUE] \in Runs /\ [run EXCEPT !.forced = TRUE] \in Runs
      /\ [run EXCEPT !.interrupted = TRUE] \in Runs
  BY DEF StackTypes, Runs
<1>v. "failed" \in Verdicts /\ "passed" \in Verdicts /\ "running" \in Verdicts /\ "none" \in Verdicts
      /\ "ok" \in Codes /\ "threshold" \in Codes
  BY DEF Verdicts, Codes
<1>f. /\ [run EXCEPT !.verdict = "failed"] \in Runs /\ [run EXCEPT !.verdict = "passed"] \in Runs
      /\ [run EXCEPT !.code = "ok"] \in Runs /\ [run EXCEPT !.code = "threshold"] \in Runs
  BY <1>r, <1>v
\* A step within a run that is open.
<1>1. ASSUME pcStack \in RunStep \ {"read", "health"},
             UNCHANGED <<results, plan, pos, warmed, startedWhole, files, newest, stats>>,
             redis' \in BOOLEAN, cached' \in BOOLEAN, backend' \in Backends, db' \in Rows,
             holds' \in {"none", "fixture", "run"}, run' \in Runs,
             run'.id = run.id, run'.kind = run.kind,
             run'.stopped => run.kind = "down", run'.forced => run.kind = "payment",
             \/ pcStack' = Stack!Following /\ run'.verdict = "running" /\ ~run'.interrupted /\ pcStack # "threshold"
             \/ pcStack' = "restoreBackend"
      PROVE  StackTypes' /\ RunIsInHand'
  <2>1. pcStack' \in RunStep \cup UndoStep
    BY <1>1, WhatFollows DEF UndoStep
  <2>2. StackTypes'
    BY <1>1, <2>1, <1>p DEF StackTypes
  <2>3. RunIsInHand'
    BY <1>1, RunGoesOn
  <2>4. QED
    BY <2>2, <2>3
\* The fields of a run after a step that went on, or was abandoned.
<1>g. /\ pcStack \in RunStep \ {"read", "health"} => run.verdict = "running" /\ ~run.interrupted
      /\ run.stopped => run.kind = "down"
      /\ run.forced => run.kind = "payment"
  BY DEF RunIsInHand
<1>h. /\ [run EXCEPT !.verdict = "failed"].id = run.id /\ [run EXCEPT !.verdict = "failed"].kind = run.kind
      /\ [run EXCEPT !.verdict = "failed"].stopped = run.stopped
      /\ [run EXCEPT !.verdict = "failed"].forced = run.forced
  BY <1>r DEF Runs
<1>2. ASSUME pcStack \in RunStep \ {"read", "health", "threshold"},
             UNCHANGED <<results, plan, pos, warmed, startedWhole, files, newest, stats>>,
             redis' \in BOOLEAN, cached' \in BOOLEAN, backend' \in Backends, db' \in Rows,
             holds' \in {"none", "fixture", "run"},
             (Stack!Done /\ UNCHANGED run) \/ Stack!Raise
      PROVE  StackTypes' /\ RunIsInHand'
  <2>1. CASE Stack!Done /\ UNCHANGED run
    <3>1. pcStack' = Stack!Following /\ run' = run
      BY <2>1 DEF Stack!Done
    <3>2. run' \in Runs /\ run'.verdict = "running" /\ ~run'.interrupted /\ pcStack # "threshold"
          /\ pcStack \in RunStep \ {"read", "health"}
      BY <1>2, <1>g, <1>r, <3>1
    <3>3. QED
      BY <1>1, <1>2, <1>g, <3>1, <3>2, Zenon
  <2>2. CASE Stack!Raise
    <3>1. pcStack' = "restoreBackend" /\ run' = [run EXCEPT !.verdict = "failed"]
          /\ pcStack \in RunStep \ {"read", "health"}
      BY <1>2, <2>2 DEF Stack!Raise
    <3>2. QED
      BY <1>1, <1>2, <1>g, <1>h, <1>f, <3>1, Zenon
  <2>3. QED
    BY <1>2, <2>1, <2>2
\* A run that raises before it has a directory.
<1>3. ASSUME pcStack \in {"read", "health"}, Stack!Raise,
             UNCHANGED <<results, plan, pos, warmed, startedWhole, files, newest, stats>>,
             redis' \in BOOLEAN, cached' \in BOOLEAN, backend' \in Backends, db' \in Rows,
             holds' \in {"none", "fixture", "run"}
      PROVE  StackTypes' /\ RunIsInHand'
  <2>1. /\ pcStack' = "restoreBackend" /\ run' = [run EXCEPT !.verdict = "failed"]
        /\ run' \in Runs /\ run'.id = run.id /\ run'.kind = run.kind /\ run'.stopped = run.stopped
        /\ run'.forced = run.forced /\ run'.verdict = "failed"
    BY <1>3, <1>f, <1>h, <1>r DEF Stack!Raise, Runs
  <2>2. pcStack \in RunStep /\ pcStack \notin UndoStep
    BY <1>3 DEF RunStep, UndoStep
  <2>3. StackTypes'
    BY <1>3, <1>p, <2>1, <2>2 DEF StackTypes, UndoStep
  <2>4. RunIsInHand'
    BY <1>3, <2>1, <2>2 DEF RunIsInHand, RunStep, UndoStep
  <2>5. QED
    BY <2>3, <2>4
<1>4. CASE Stack!ReadDataset
  <2>1. CASE Stack!Raise
    <3>1. UNCHANGED <<Stack!stack, stats, plan, pos, warmed, results, startedWhole>> /\ pcStack \in {"read", "health"}
      BY <1>4 DEF Stack!ReadDataset
    <3>2. QED
      BY <1>3, <2>1, <3>1, Zenon DEF StackTypes
  <2>2. CASE ~Stack!Raise
    <3>1. /\ UNCHANGED <<Stack!stack, stats, plan, pos, warmed, results, startedWhole>>
          /\ pcStack = "read" /\ pcStack' = Stack!Following
          /\ run' = [run EXCEPT !.sessions = files["sessions"], !.dataset = files["dataset"]]
      BY <1>4, <2>2 DEF Stack!ReadDataset, Stack!Done
    <3>2. pcStack \in RunStep /\ pcStack' = "health"
      <4>1. pcStack \in RunStep
        BY <3>1 DEF RunStep
      <4>2. QED
        BY <3>1, <4>1, WhatFollows DEF After
    <3>3. files["sessions"] \in Nat /\ files["dataset"] \in Nat
      BY DEF StackTypes, Stack!FileNames
    <3>4. /\ run' \in Runs /\ run'.id = run.id /\ run'.kind = run.kind /\ run'.stopped = run.stopped
          /\ run'.forced = run.forced /\ run'.interrupted = run.interrupted
      BY <1>r, <3>1, <3>3 DEF Runs
    <3>5. StackTypes'
      BY <1>p, <3>1, <3>2, <3>4 DEF StackTypes, RunStep
    <3>6. RunIsInHand'
      BY <3>1, <3>2, <3>4 DEF RunIsInHand, RunStep, UndoStep, Path
    <3>7. QED
      BY <3>5, <3>6
  <2>3. QED
    BY <2>1, <2>2
<1>5. CASE Stack!OpenRun
  <2>1. CASE ~backend.up
    <3>1. /\ UNCHANGED <<Stack!stack, stats, plan, pos, warmed, results, startedWhole>> /\ pcStack \in {"read", "health"}
          /\ Stack!Raise
      BY <1>5, <2>1 DEF Stack!OpenRun
    <3>2. QED
      BY <1>3, <3>1, Zenon DEF StackTypes
  <2>2. CASE backend.up
    <3> DEFINE one == [kind |-> run.kind, manifest |-> "none", code |-> "none",
                   whole |-> FALSE, began |-> Stack!Healthy,
                   named |-> FALSE, sound |-> FALSE, settled |-> FALSE,
                   evidence |-> {}, claims |-> "none", config |-> backend.config,
                   ground |-> startedWhole]
    <3>1. /\ UNCHANGED <<Stack!stack, plan, pos, warmed, startedWhole>>
          /\ pcStack = "health" /\ pcStack' = Stack!Following
          /\ run' = [run EXCEPT !.id = Len(results) + 1, !.verdict = "running"]
          /\ results' = Append(results, one) /\ stats' = stats \cup {run'.id}
      BY <1>5, <2>2 DEF Stack!OpenRun, Stack!Done
    <3>2. one \in Outcomes
      <4>1. run.kind \in Stack!Kinds /\ Stack!Healthy \in BOOLEAN /\ backend.config \in Configs /\ startedWhole \in BOOLEAN
        BY <1>p, <1>r, <3>1 DEF RunStep, Stack!Healthy, Backends, StackTypes
      <4>2. QED
        BY <4>1, OutcomesBegin
    <3>3. one.kind = run.kind /\ one.manifest = "none" /\ one.evidence = {} /\ one.ground = startedWhole
      OBVIOUS
    <3> HIDE DEF one
    <3>4. /\ results' \in Seq(Outcomes) /\ Len(results') = Len(results) + 1 /\ results'[Len(results) + 1] = one
          /\ Len(results) \in Nat
      <4> HIDE DEF Outcomes
      <4>1. QED
        BY <3>1, <3>2 DEF StackTypes
    <3>5. /\ run' \in Runs /\ run'.id = Len(results) + 1 /\ run'.kind = run.kind /\ run'.stopped = run.stopped
          /\ run'.forced = run.forced /\ run'.interrupted = run.interrupted /\ run'.verdict = "running"
      <4>1. Len(results) + 1 \in Nat
        BY <3>4
      <4>2. QED
        BY <1>r, <1>v, <3>1, <4>1 DEF Runs
    <3>6. pcStack \in RunStep /\ pcStack' \in Path(run.kind) /\ pcStack' \in RunStep \ {"read", "health"}
      <4>1. pcStack \in RunStep /\ pcStack # "read" /\ pcStack # "threshold"
        BY <3>1 DEF RunStep
      <4>2. QED
        BY <3>1, <4>1, WhatFollows
    <3>7. StackTypes'
      <4>1. stats' \in SUBSET Nat
        BY <3>1, <3>4, <3>5 DEF StackTypes
      <4>2. QED
        BY <1>p, <3>1, <3>4, <3>5, <3>6, <4>1 DEF StackTypes
    <3>8. RunIsInHand'
      <4>1. run'.id # 0 /\ run'.id = Len(results')
        BY <3>4, <3>5
      <4>2. pcStack' \notin UndoStep \cup {"idle", "clearFiles", "down", "up", "observe", "configure", "revert"}
        BY <3>6 DEF RunStep, UndoStep
      <4>3. pcStack # "idle"
        BY <3>1
      <4>4. QED
        BY <3>1, <3>3, <3>4, <3>5, <3>6, <4>1, <4>2, <4>3 DEF RunIsInHand
    <3>9. QED
      BY <3>7, <3>8
  <2>3. QED
    BY <2>1, <2>2, <1>r DEF Backends
<1>6. CASE Stack!ClearAuthCache \/ Stack!PrepareSeatMap \/ Stack!ClearSeatHolds \/ Stack!PrepareOrders
           \/ Stack!VerifyRemoteWrite \/ Stack!ColdCheck \/ Stack!Settle \/ Stack!VerifyDatabase
  <2>1. /\ UNCHANGED <<redis, backend, files, newest, stats, plan, pos, warmed, results, startedWhole>>
        /\ pcStack \in RunStep \ {"read", "health", "threshold"}
        /\ (Stack!Done /\ UNCHANGED run) \/ Stack!Raise
        /\ cached' \in BOOLEAN /\ db' \in Rows /\ holds' \in {"none", "fixture", "run"}
    <3>1. CASE Stack!ClearAuthCache \/ Stack!ClearSeatHolds
      BY <3>1 DEF Stack!ClearAuthCache, Stack!ClearSeatHolds, RunStep, StackTypes
    <3>2. CASE Stack!PrepareSeatMap
      BY <3>2 DEF Stack!PrepareSeatMap, RunStep, StackTypes
    <3>3. CASE Stack!PrepareOrders
      BY <3>3, <1>r, RowsAreKnown DEF Stack!PrepareOrders, RunStep, StackTypes
    <3>4. CASE Stack!VerifyRemoteWrite \/ Stack!ColdCheck \/ Stack!Settle \/ Stack!VerifyDatabase
      BY <3>4 DEF Stack!VerifyRemoteWrite, Stack!ColdCheck, Stack!Settle, Stack!VerifyDatabase, RunStep, StackTypes
    <3>5. QED
      BY <1>6, <3>1, <3>2, <3>3, <3>4
  <2>2. redis' \in BOOLEAN /\ backend' \in Backends
    BY <2>1 DEF StackTypes
  <2>3. QED
    BY <1>2, <2>1, <2>2, Zenon
<1>7. CASE Stack!RunCommandFails
  <2>1. /\ pcStack \in RunStep \ {"read", "threshold"} /\ Stack!Raise
        /\ UNCHANGED <<files, newest, stats, plan, pos, warmed, results, startedWhole>>
    BY <1>7, RunStepsAreSteps DEF Stack!RunCommandFails
  <2>2. PICK effect \in BOOLEAN, up_ \in BOOLEAN :
          /\ redis' = IF pcStack = "stopRedis" /\ effect THEN FALSE ELSE redis
          /\ holds' = IF pcStack = "stopRedis" /\ effect THEN "none" ELSE holds
          /\ cached' = (cached /\ redis')
          /\ backend' = IF pcStack = "force" /\ effect
                        THEN [up |-> up_, forced |-> TRUE, config |-> "base"]
                        ELSE backend
          /\ db' = IF pcStack \in {"orders", "load"} /\ run.kind \in Stack!Transactional
                   THEN [db EXCEPT !.used = @ \/ effect] ELSE db
    BY <1>7 DEF Stack!RunCommandFails
  <2>3. backend' \in Backends
    <3>1. [up |-> up_, forced |-> TRUE, config |-> "base"] \in Backends
      BY BackendsAreKnown DEF Configs
    <3>2. QED
      BY <1>r, <2>2, <3>1
  <2>4. db' \in Rows
    <3>1. (db.used \/ effect) \in BOOLEAN
      OBVIOUS
    <3>2. [db EXCEPT !.used = db.used \/ effect] \in Rows
      BY <1>r, <3>1, RowsAreKnown
    <3>3. QED
      BY <1>r, <2>2, <3>2
  <2>5. redis' \in BOOLEAN /\ cached' \in BOOLEAN /\ holds' \in {"none", "fixture", "run"}
    BY <2>2 DEF StackTypes
  <2>6. CASE pcStack = "health"
    BY <1>3, <2>1, <2>3, <2>4, <2>5, <2>6
  <2>7. CASE pcStack # "health"
    BY <1>2, <2>1, <2>3, <2>4, <2>5, <2>7
  <2>8. QED
    BY <2>6, <2>7
<1>8. CASE Stack!StopRedis \/ Stack!ForceOutcome
  <2>1. /\ pcStack \in RunStep \ {"read", "health", "threshold"} /\ pcStack' = Stack!Following
        /\ UNCHANGED <<results, plan, pos, warmed, startedWhole, files, newest, stats, db>>
        /\ redis' \in BOOLEAN /\ cached' \in BOOLEAN /\ backend' \in Backends
        /\ holds' \in {"none", "fixture", "run"}
        /\ \/ pcStack = "stopRedis" /\ run' = [run EXCEPT !.stopped = TRUE]
           \/ pcStack = "force" /\ run' = [run EXCEPT !.forced = TRUE]
    <3>1. CASE Stack!StopRedis
      BY <3>1, <1>r DEF Stack!StopRedis, Stack!Done, RunStep, StackTypes
    <3>2. CASE Stack!ForceOutcome
      BY <3>2, BackendsAreKnown DEF Stack!ForceOutcome, Stack!Done, RunStep, StackTypes
    <3>3. QED
      BY <1>8, <3>1, <3>2
  <2>2. (pcStack = "stopRedis" => run.kind = "down") /\ (pcStack = "force" => run.kind = "payment")
    BY <2>1, <1>p DEF RunIsInHand, Path, RunStep, Stack!Kinds, Stack!UsesSessions, Stack!Transactional
  <2>3. /\ run' \in Runs /\ run'.id = run.id /\ run'.kind = run.kind /\ run'.verdict = run.verdict
        /\ run'.interrupted = run.interrupted
        /\ run'.stopped => run.stopped \/ pcStack = "stopRedis"
        /\ run'.forced => run.forced \/ pcStack = "force"
    <3>1. CASE pcStack = "stopRedis" /\ run' = [run EXCEPT !.stopped = TRUE]
      BY <3>1, <1>r DEF Runs
    <3>2. CASE pcStack = "force" /\ run' = [run EXCEPT !.forced = TRUE]
      BY <3>2, <1>r DEF Runs
    <3>3. QED
      BY <2>1, <3>1, <3>2
  <2>4. db' \in Rows
    BY <2>1, <1>r
  <2>5. QED
    BY <1>1, <1>g, <2>1, <2>2, <2>3, <2>4
<1>9. CASE Stack!Load
  <2>1. /\ pcStack \in RunStep \ {"read", "health", "threshold"} /\ pcStack' = Stack!Following
        /\ UNCHANGED <<results, plan, pos, warmed, startedWhole, files, newest, stats, redis, backend>>
    BY <1>9 DEF Stack!Load, Stack!Done, RunStep
  <2>2. PICK code \in {"ok", "threshold"} : run' = [run EXCEPT !.code = code]
    BY <1>9 DEF Stack!Load
  <2>3. /\ run' \in Runs /\ run'.id = run.id /\ run'.kind = run.kind /\ run'.verdict = run.verdict
        /\ run'.interrupted = run.interrupted /\ run'.stopped = run.stopped /\ run'.forced = run.forced
    BY <1>r, <1>v, <2>2 DEF Runs
  <2>4. db' \in Rows
    <3>1. CASE run.kind \in Stack!Transactional
      <4>1. PICK sound \in BOOLEAN :
              db' = [db EXCEPT !.used = TRUE, !.sound = @ /\ sound,
                               !.processing = @ \/ run.kind = "payment"]
        BY <1>9, <3>1 DEF Stack!Load
      <4>2. QED
        BY <1>r, <4>1 DEF Rows
    <3>2. CASE run.kind \notin Stack!Transactional
      BY <1>9, <1>r, <3>2 DEF Stack!Load
    <3>3. QED
      BY <3>1, <3>2
  <2>5. redis' \in BOOLEAN /\ cached' \in BOOLEAN /\ backend' \in Backends /\ holds' \in {"none", "fixture", "run"}
    BY <1>9, <2>1 DEF Stack!Load, StackTypes
  <2>6. QED
    BY <1>1, <1>g, <2>1, <2>3, <2>4, <2>5
<1>10. CASE Stack!Verdict \/ Stack!Interrupt
  <2>1. /\ pcStack \in RunStep \ {"read", "health"} /\ pcStack' = "restoreBackend"
        /\ UNCHANGED <<Stack!stack, stats, plan, pos, warmed, results, startedWhole>>
        /\ run' \in {[run EXCEPT !.verdict = "failed"], [run EXCEPT !.verdict = "passed"], [run EXCEPT !.interrupted = TRUE]}
    <3>1. CASE Stack!Verdict
      <4>1. pcStack = "threshold" /\ pcStack \in RunStep
        BY <3>1 DEF Stack!Verdict, RunStep
      <4>2. Stack!Following = "restoreBackend"
        BY <4>1, WhatFollows
      <4>3. QED
        BY <3>1, <4>1, <4>2 DEF Stack!Verdict, Stack!Raise, Stack!Done
    <3>2. CASE Stack!Interrupt
      BY <3>2 DEF Stack!Interrupt, RunStep
    <3>3. QED
      BY <1>10, <3>1, <3>2
  <2>2. /\ run' \in Runs /\ run'.id = run.id /\ run'.kind = run.kind /\ run'.stopped = run.stopped
        /\ run'.forced = run.forced
    <3>1. CASE run' = [run EXCEPT !.verdict = "failed"]
      BY <3>1, <1>f, <1>r DEF Runs
    <3>2. CASE run' = [run EXCEPT !.verdict = "passed"]
      BY <3>2, <1>f, <1>r DEF Runs
    <3>3. CASE run' = [run EXCEPT !.interrupted = TRUE]
      BY <3>3, <1>r DEF Runs
    <3>4. QED
      BY <2>1, <3>1, <3>2, <3>3
  <2>3. /\ redis' \in BOOLEAN /\ cached' \in BOOLEAN /\ backend' \in Backends /\ db' \in Rows
        /\ holds' \in {"none", "fixture", "run"}
    BY <2>1 DEF StackTypes
  <2>4. QED
    BY <1>1, <1>g, <2>1, <2>2, <2>3
\* The finally of a run.
<1>11. CASE Stack!RestoreBackend \/ Stack!RestoreRedis
  <2>1. /\ pcStack \in UndoStep /\ pcStack' \in UndoStep
        /\ UNCHANGED <<db, holds, cached, files, newest, stats, plan, pos, warmed, results, startedWhole>>
    BY <1>11 DEF Stack!RestoreBackend, Stack!RestoreRedis, UndoStep
  <2>2. redis' \in BOOLEAN /\ backend' \in Backends /\ run' \in {run, [run EXCEPT !.verdict = "failed"]}
    <3>1. CASE Stack!RestoreBackend
      BY <3>1, <1>r, BackendsAreKnown DEF Stack!RestoreBackend, Stack!VerdictAfter, StackTypes
    <3>2. CASE Stack!RestoreRedis
      <4>1. [run EXCEPT !.verdict = run.verdict] = run
        BY <1>r DEF Runs
      <4>2. QED
        BY <3>2, <1>r, <4>1 DEF Stack!RestoreRedis, Stack!VerdictAfter, StackTypes
    <3>3. QED
      BY <1>11, <3>1, <3>2
  <2>3. /\ run' \in Runs /\ run'.id = run.id /\ run'.kind = run.kind /\ run'.stopped = run.stopped
        /\ run'.forced = run.forced /\ (run'.verdict = "failed" \/ run'.verdict = run.verdict)
    <3>1. CASE run' = run
      BY <3>1, <1>r
    <3>2. CASE run' = [run EXCEPT !.verdict = "failed"]
      BY <3>2, <1>f, <1>r DEF Runs
    <3>3. QED
      BY <2>2, <3>1, <3>2
  <2>4. StackTypes'
    BY <1>p, <2>1, <2>2, <2>3 DEF StackTypes
  <2>5. RunIsInHand'
    BY <2>1, <2>3 DEF RunIsInHand, RunStep, UndoStep
  <2>6. QED
    BY <2>4, <2>5
<1>12. CASE Stack!FinishRun
  <2>1. /\ pcStack = "manifest" /\ run' = Stack!NoRun
        /\ UNCHANGED <<Stack!stack, stats, plan, pos, warmed, startedWhole>>
        /\ pcStack' \in {Stack!Ended, "collect", "warm"}
    BY <1>12 DEF Stack!FinishRun
  <2>2. pcStack' \in {"idle"} \cup PlanCommand /\ (pcStack' \in {"configure", "revert"} => plan.experiment)
        /\ pcStack' \notin {"clearFiles", "down", "up", "observe"}
    BY <2>1 DEF Stack!Ended, PlanCommand
  <2>3. run' \in Runs
    BY <2>1 DEF Stack!NoRun, Runs, Verdicts, Codes
  <2>4. results' \in Seq(Outcomes)
    <3>1. CASE run.id = 0
      BY <1>12, <3>1 DEF Stack!FinishRun, StackTypes
    <3>2. CASE run.id # 0
      <4> DEFINE named == run.dataset = db.gen /\ Stack!Credentials
                 settled == ~db.processing
                 whole_ == Stack!Healthy
                 one == [results[run.id] EXCEPT !.manifest = run.verdict, !.code = run.code, !.whole = whole_,
                          !.named = named, !.sound = db.sound, !.settled = settled]
      <4>1. results' = [results EXCEPT ![run.id] = one]
        BY <1>12, <3>2 DEF Stack!FinishRun, StackTypes
      <4>2. results \in Seq(Outcomes) /\ run.id \in 1 .. Len(results)
        <5>1. run.id = Len(results)
          BY <3>2 DEF RunIsInHand
        <5>2. QED
          BY <3>2, <5>1 DEF StackTypes
      <4>3. results[run.id] \in Outcomes
        <5> HIDE DEF Outcomes
        <5>1. QED
          BY <4>2
      <4>4. /\ run.verdict \in Verdicts /\ run.code \in Codes /\ whole_ \in BOOLEAN
            /\ named \in BOOLEAN /\ db.sound \in BOOLEAN /\ settled \in BOOLEAN
        BY <1>r DEF Runs, Rows, Stack!Healthy
      <4>5. one \in Outcomes
        <5> HIDE DEF named, settled, whole_
        <5>1. QED
          BY <4>3, <4>4 DEF Outcomes
      <4> HIDE DEF one, Outcomes
      <4>6. QED
        BY <4>1, <4>2, <4>5
    <3>3. QED
      BY <3>1, <3>2
  <2>5. StackTypes'
    BY <1>p, <2>1, <2>2, <2>3, <2>4 DEF StackTypes, UndoStep
  <2>6. RunIsInHand'
    <3>1. run'.id = 0 /\ ~run'.stopped /\ ~run'.forced /\ run'.kind = "none"
      BY <2>1 DEF Stack!NoRun
    <3>2. pcStack' \notin RunStep \cup UndoStep
      BY <2>2 DEF PlanCommand, RunStep, UndoStep
    <3>3. QED
      BY <2>1, <2>2, <3>1, <3>2 DEF RunIsInHand, RunStep
  <2>7. QED
    BY <2>5, <2>6
<1>13. QED
  BY <1>4, <1>5, <1>6, <1>7, <1>8, <1>9, <1>10, <1>11, <1>12 DEF Stack!RunNext

LEMMA StackKeepsRuns == StackTypes /\ RunIsInHand /\ [Stack!Next]_(Stack!vars) => (StackTypes /\ RunIsInHand)'
<1> SUFFICES ASSUME StackTypes, RunIsInHand, [Stack!Next]_(Stack!vars) PROVE StackTypes' /\ RunIsInHand'
  OBVIOUS
<1> USE DEF Stack!stack, Stack!tool, Stack!bounds
<1>1. CASE UNCHANGED Stack!vars \/ Stack!AtRest
  <2>1. UNCHANGED Stack!vars
    BY <1>1 DEF Stack!AtRest
  <2>2. QED
    BY <2>1 DEF Stack!vars, StackTypes, RunIsInHand, Stack!Entry
<1>2. CASE Stack!PaymentsSettle
  <2>1. db' \in Rows
    BY <1>2, RowsAreKnown DEF Stack!PaymentsSettle, StackTypes
  <2>2. QED
    BY <1>2, <2>1 DEF Stack!PaymentsSettle, StackTypes, RunIsInHand, Stack!Entry
<1>3. CASE Stack!Crash
  <2>1. pcStack' = "idle" /\ run' = Stack!NoRun /\ UNCHANGED <<Stack!stack, stats, plan, pos, warmed, results, startedWhole>>
    BY <1>3 DEF Stack!Crash
  <2>2. run' \in Runs /\ run'.id = 0 /\ ~run'.stopped /\ ~run'.forced
    BY <2>1 DEF Stack!NoRun, Runs, Verdicts, Codes
  <2>3. QED
    BY <2>1, <2>2 DEF StackTypes, RunIsInHand, RunStep, UndoStep
<1>4. QED
  BY <1>1, <1>2, <1>3, PlanKeepsRuns, RunKeepsRuns DEF Stack!Next

\* What the steps of a plan do to the results of the runs: only the evidence is added to them.
LEMMA PlansLeaveResults ==
    ASSUME StackTypes, RunIsInHand, Stack!PlanNext
    PROVE  /\ ~Stack!Collect => results' = results
           /\ pcStack' \in {"idle", "read"} \cup PlanCommand
           /\ Stack!StartPlan \/ UNCHANGED <<startedWhole, plan>>
<1> USE DEF Stack!stack, Stack!tool, Stack!bounds, Stack!Ended
<1>1. CASE Stack!StartPlan \/ Stack!PlanCommandFails
  BY <1>1 DEF Stack!StartPlan, Stack!PlanCommandFails, PlanCommand
<1>2. CASE Stack!Configure \/ Stack!Revert \/ Stack!RecreationFails
  BY <1>2 DEF Stack!Configure, Stack!Revert, Stack!RecreationFails, PlanCommand
<1>3. CASE Stack!Reset \/ Stack!ClearGenerated
  <2>1. UNCHANGED <<results, startedWhole, plan>>
    BY <1>3 DEF Stack!Reset, Stack!ClearGenerated
  <2>2. pcStack' \in PlanCommand
    <3>1. CASE Stack!ClearGenerated
      BY <3>1 DEF Stack!ClearGenerated, PlanCommand
    <3>2. CASE Stack!Reset
      BY <3>2, EntryIsPlanned DEF Stack!Reset, PlanCommand, Stack!Resets
    <3>3. QED
      BY <1>3, <3>1, <3>2
  <2>3. QED
    BY <2>1, <2>2
<1>4. CASE Stack!DownVolumes \/ Stack!UpBuild \/ Stack!Observe
  BY <1>4 DEF Stack!DownVolumes, Stack!UpBuild, Stack!Observe, PlanCommand
<1>5. CASE Stack!ReplaceRows \/ Stack!ValidateDatabase
  BY <1>5 DEF Stack!ReplaceRows, Stack!ValidateDatabase, PlanCommand, Stack!FilesInOrder
<1>6. CASE Stack!WriteFile
  BY <1>6 DEF Stack!WriteFile, PlanCommand, Stack!FilesInOrder
<1>7. CASE Stack!AuthSmoke \/ Stack!FreshVerify \/ Stack!ClearCaches
  BY <1>7 DEF Stack!AuthSmoke, Stack!FreshVerify, Stack!ClearCaches, PlanCommand
<1>8. CASE Stack!Warmup \/ Stack!ResetStatistics \/ Stack!Measure
  BY <1>8 DEF Stack!Warmup, Stack!ResetStatistics, Stack!Measure, PlanCommand
<1>9. CASE Stack!Collect
  BY <1>9 DEF Stack!Collect, PlanCommand
<1>10. QED
  BY <1>1, <1>2, <1>3, <1>4, <1>5, <1>6, <1>7, <1>8, <1>9 DEF Stack!PlanNext

LEMMA EvidenceIsAdded ==
    ASSUME StackTypes, Stack!Collect, results' # results
    PROVE  /\ Len(results) > 0 /\ Len(results') = Len(results)
           /\ \A i \in 1 .. Len(results) :
                 /\ results'[i].kind = results[i].kind /\ results'[i].manifest = results[i].manifest
                 /\ results'[i].code = results[i].code /\ results'[i].whole = results[i].whole
                 /\ results'[i].began = results[i].began /\ results'[i].sound = results[i].sound
                 /\ results'[i].settled = results[i].settled /\ results'[i].config = results[i].config
                 /\ results'[i].ground = results[i].ground
                 /\ IF i = Len(results)
                    THEN results'[i].evidence = stats /\ results'[i].claims = Stack!DeclaredConfig
                    ELSE results'[i].evidence = results[i].evidence /\ results'[i].claims = results[i].claims
<1>1. results' = [results EXCEPT ![Len(results)].evidence = stats, ![Len(results)].claims = Stack!DeclaredConfig]
  BY DEF Stack!Collect
<1>2. results \in Seq(Outcomes) /\ Len(results) \in Nat
  BY DEF StackTypes
<1>3. Len(results') = Len(results)
  BY <1>1, <1>2
<1>4. ASSUME NEW i \in 1 .. Len(results)
      PROVE  /\ results'[i].kind = results[i].kind /\ results'[i].manifest = results[i].manifest
             /\ results'[i].code = results[i].code /\ results'[i].whole = results[i].whole
             /\ results'[i].began = results[i].began /\ results'[i].sound = results[i].sound
             /\ results'[i].settled = results[i].settled /\ results'[i].config = results[i].config
             /\ results'[i].ground = results[i].ground
             /\ IF i = Len(results)
                THEN results'[i].evidence = stats /\ results'[i].claims = Stack!DeclaredConfig
                ELSE results'[i].evidence = results[i].evidence /\ results'[i].claims = results[i].claims
  <2>1. results[i] \in Outcomes
    BY <1>2, ElementOfSeq
  <2>2. CASE i # Len(results)
    BY <1>1, <1>2, <2>2
  <2>3. CASE i = Len(results)
    <3>1. results'[i] = [results[i] EXCEPT !.evidence = stats, !.claims = Stack!DeclaredConfig]
      <4> DEFINE one == [results[Len(results)] EXCEPT !.evidence = stats, !.claims = Stack!DeclaredConfig]
      <4>1. results' = [results EXCEPT ![Len(results)] = one]
        BY <1>1, <1>2
      <4>2. one = [results[i] EXCEPT !.evidence = stats, !.claims = Stack!DeclaredConfig]
        BY <2>3
      <4> HIDE DEF one
      <4>3. results'[i] = one
        BY <1>2, <2>3, <4>1
      <4>4. QED
        BY <4>2, <4>3, Zenon
    <3>2. QED
      BY <2>1, <2>3, <3>1 DEF Outcomes
  <2>4. QED
    BY <2>2, <2>3
<1>5. Len(results) > 0
  <2>1. CASE Len(results) = 0
    BY <1>1, <1>2, <2>1
  <2>2. QED
    BY <1>2, <2>1
<1>6. QED
  BY <1>3, <1>4, <1>5

\* What the end of a run writes into its directory.
LEMMA ManifestIsWritten ==
    ASSUME StackTypes, RunIsInHand, Stack!FinishRun, run.id # 0
    PROVE  /\ run.id = Len(results) /\ Len(results) > 0 /\ Len(results') = Len(results)
           /\ \A i \in 1 .. Len(results) :
                 /\ results'[i].kind = results[i].kind /\ results'[i].began = results[i].began
                 /\ results'[i].evidence = results[i].evidence /\ results'[i].claims = results[i].claims
                 /\ results'[i].config = results[i].config /\ results'[i].ground = results[i].ground
                 /\ i # run.id => results'[i] = results[i]
           /\ results'[run.id].manifest = run.verdict /\ results'[run.id].code = run.code
           /\ results'[run.id].whole = Stack!Healthy /\ results'[run.id].sound = db.sound
           /\ results'[run.id].settled = ~db.processing
<1>1. results' = [results EXCEPT ![run.id].manifest = run.verdict,
                          ![run.id].code = run.code,
                          ![run.id].whole = Stack!Healthy,
                          ![run.id].named = (run.dataset = db.gen /\ Stack!Credentials),
                          ![run.id].sound = db.sound,
                          ![run.id].settled = ~db.processing]
  BY DEF Stack!FinishRun
<1>2. results \in Seq(Outcomes) /\ Len(results) \in Nat /\ run.id = Len(results)
  BY DEF StackTypes, RunIsInHand
<1>3. run.id \in 1 .. Len(results) /\ Len(results') = Len(results)
  BY <1>1, <1>2
<1>4. \A i \in 1 .. Len(results) : i # run.id => results'[i] = results[i]
  BY <1>1, <1>2
<1>5. results[run.id] \in Outcomes
  BY <1>2, <1>3, ElementOfSeq
<1>6. results'[run.id] = [results[run.id] EXCEPT !.manifest = run.verdict, !.code = run.code,
                          !.whole = Stack!Healthy, !.named = (run.dataset = db.gen /\ Stack!Credentials),
                          !.sound = db.sound, !.settled = ~db.processing]
  BY <1>1, <1>2, <1>3
<1>7. /\ results'[run.id].kind = results[run.id].kind /\ results'[run.id].began = results[run.id].began
      /\ results'[run.id].evidence = results[run.id].evidence /\ results'[run.id].claims = results[run.id].claims
      /\ results'[run.id].config = results[run.id].config /\ results'[run.id].ground = results[run.id].ground
      /\ results'[run.id].manifest = run.verdict /\ results'[run.id].code = run.code
      /\ results'[run.id].whole = Stack!Healthy /\ results'[run.id].sound = db.sound
      /\ results'[run.id].settled = ~db.processing
  BY <1>5, <1>6 DEF Outcomes
<1>8. QED
  BY <1>2, <1>3, <1>4, <1>7

\* A directory that is opened is that of the run, and the others stay as they are.
LEMMA DirectoryIsOpened ==
    ASSUME StackTypes, RunIsInHand, Stack!OpenRun, backend.up
    PROVE  /\ Len(results') = Len(results) + 1 /\ run'.id = Len(results') /\ run'.id \in Nat \ {0}
           /\ \A i \in 1 .. Len(results) : results'[i] = results[i]
           /\ results'[run'.id].manifest = "none" /\ results'[run'.id].evidence = {}
           /\ results'[run'.id].began = Stack!Healthy /\ results'[run'.id].config = backend.config
           /\ results'[run'.id].ground = startedWhole
           /\ run'.kind = run.kind /\ run'.verdict = "running" /\ run'.measured = run.measured
           /\ run'.sessions = run.sessions /\ run'.dataset = run.dataset
           /\ run'.forced = run.forced /\ run'.stopped = run.stopped
           /\ stats' = stats \cup {run'.id} /\ pcStack' = Stack!Following
           /\ UNCHANGED <<Stack!stack, plan, pos, warmed, startedWhole>>
<1> DEFINE one == [kind |-> run.kind, manifest |-> "none", code |-> "none",
                   whole |-> FALSE, began |-> Stack!Healthy,
                   named |-> FALSE, sound |-> FALSE, settled |-> FALSE,
                   evidence |-> {}, claims |-> "none", config |-> backend.config,
                   ground |-> startedWhole]
<1>1. /\ UNCHANGED <<Stack!stack, plan, pos, warmed, startedWhole>>
      /\ pcStack = "health" /\ pcStack' = Stack!Following
      /\ run' = [run EXCEPT !.id = Len(results) + 1, !.verdict = "running"]
      /\ results' = Append(results, one) /\ stats' = stats \cup {run'.id}
  BY DEF Stack!OpenRun, Stack!Done, Stack!bounds
<1>2. /\ run'.id = Len(results) + 1 /\ run'.kind = run.kind /\ run'.verdict = "running"
      /\ run'.measured = run.measured /\ run'.sessions = run.sessions /\ run'.dataset = run.dataset
      /\ run'.forced = run.forced /\ run'.stopped = run.stopped
  BY <1>1 DEF StackTypes, Runs
<1>3. one.manifest = "none" /\ one.evidence = {} /\ one.began = Stack!Healthy /\ one.config = backend.config
      /\ one.ground = startedWhole
  OBVIOUS
<1> HIDE DEF one
<1>4. /\ Len(results') = Len(results) + 1 /\ results'[Len(results) + 1] = one /\ Len(results) \in Nat
      /\ \A i \in 1 .. Len(results) : results'[i] = results[i]
  BY <1>1 DEF StackTypes
<1>5. QED
  BY <1>1, <1>2, <1>3, <1>4

\* What a run that passes has behind it: its checks come after its load, and nothing that they
\* looked at changes for the worse before the manifest is written.
Met == /\ run.kind \in Stack!Transactional => db.sound
       /\ run.kind = "payment" => ~db.processing

ChecksAreBehind ==
    /\ pcStack \in {"remote", "coldCheck", "settle", "verify", "threshold"} => run.code \in {"ok", "threshold"}
    /\ pcStack = "verify" /\ run.kind = "payment" => ~db.processing
    /\ pcStack = "threshold" => Met
    /\ pcStack \in UndoStep /\ run.verdict = "passed" => run.code = "ok" /\ Met
    /\ Stack!PassedRunIsTrustworthy

LEMMA ChecksStayBehind ==
    StackTypes /\ RunIsInHand /\ ChecksAreBehind /\ [Stack!Next]_(Stack!vars) => ChecksAreBehind'
<1> SUFFICES ASSUME StackTypes, RunIsInHand, ChecksAreBehind, [Stack!Next]_(Stack!vars)
             PROVE  ChecksAreBehind'
  OBVIOUS
<1> USE DEF Stack!stack, Stack!tool, Stack!bounds
<1>1. ASSUME results' = results,
             pcStack' \notin {"remote", "coldCheck", "settle", "verify", "threshold"},
             pcStack' \in UndoStep /\ run'.verdict = "passed" => run'.code = "ok" /\ Met'
      PROVE  ChecksAreBehind'
  BY <1>1 DEF ChecksAreBehind, Stack!PassedRunIsTrustworthy, Stack!Passed
<1>2. CASE Stack!PlanNext
  <2>1. pcStack' \notin {"remote", "coldCheck", "settle", "verify", "threshold"} \cup UndoStep
    BY <1>2, PlansLeaveResults DEF PlanCommand, UndoStep
  <2>2. CASE results' = results
    BY <1>1, <2>1, <2>2
  <2>3. CASE results' # results
    <3>1. Stack!PassedRunIsTrustworthy'
      BY <1>2, <2>3, PlansLeaveResults, EvidenceIsAdded DEF ChecksAreBehind, Stack!PassedRunIsTrustworthy, Stack!Passed
    <3>2. QED
      BY <2>1, <3>1 DEF ChecksAreBehind
  <2>4. QED
    BY <2>2, <2>3
<1>3. CASE Stack!ReadDataset \/ Stack!ClearAuthCache \/ Stack!StopRedis \/ Stack!PrepareSeatMap
           \/ Stack!ClearSeatHolds \/ Stack!ForceOutcome \/ Stack!PrepareOrders
  <2>1. /\ results' = results /\ pcStack \in RunStep
        /\ pcStack \in {"read", "auth", "stopRedis", "fixture", "clearHolds", "force", "orders"}
        /\ Stack!Raise \/ pcStack' = Stack!Following
    BY <1>3 DEF Stack!ReadDataset, Stack!ClearAuthCache, Stack!StopRedis, Stack!PrepareSeatMap,
       Stack!ClearSeatHolds, Stack!ForceOutcome, Stack!PrepareOrders, Stack!Done, RunStep
  <2>2. CASE Stack!Raise
    BY <1>1, <2>1, <2>2 DEF Stack!Raise, StackTypes, Runs
  <2>3. CASE pcStack' = Stack!Following
    <3>1. run.kind \in Stack!Kinds /\ pcStack' = After(run.kind, pcStack)
      BY <2>1, <2>3, WhatFollows DEF RunIsInHand
    <3>2. pcStack' \notin {"remote", "coldCheck", "settle", "verify", "threshold"} \cup UndoStep
      BY <2>1, <3>1 DEF After, UndoStep
    <3>3. QED
      BY <1>1, <2>1, <3>2
  <2>4. QED
    BY <2>1, <2>2, <2>3
<1>4. CASE Stack!OpenRun
  <2>1. CASE ~backend.up
    BY <1>1, <1>4, <2>1 DEF Stack!OpenRun, Stack!Raise, StackTypes, Runs
  <2>2. CASE backend.up
    <3>1. pcStack \in RunStep /\ pcStack = "health" /\ run.kind \in Stack!Kinds
      BY <1>4 DEF Stack!OpenRun, RunStep, RunIsInHand
    <3>2. pcStack' = After(run.kind, pcStack)
      BY <1>4, <2>2, <3>1, DirectoryIsOpened, WhatFollows
    <3>3. pcStack' \notin {"remote", "coldCheck", "settle", "verify", "threshold"} \cup UndoStep
      BY <3>1, <3>2 DEF After, UndoStep
    <3>4. Stack!PassedRunIsTrustworthy'
      <4>1. \A i \in 1 .. Len(results') : i \in 1 .. Len(results) \/ i = run'.id
        BY <1>4, <2>2, DirectoryIsOpened DEF StackTypes
      <4>2. QED
        BY <1>4, <2>2, <4>1, DirectoryIsOpened DEF ChecksAreBehind, Stack!PassedRunIsTrustworthy, Stack!Passed
    <3>5. QED
      BY <3>3, <3>4 DEF ChecksAreBehind
  <2>3. QED
    BY <2>1, <2>2
<1>5. CASE Stack!Load
  <2>1. results' = results /\ run' \in {[run EXCEPT !.code = "ok"], [run EXCEPT !.code = "threshold"]}
        /\ pcStack = "load" /\ pcStack' = Stack!Following
    BY <1>5 DEF Stack!Load, Stack!Done
  <2>2. run'.code \in {"ok", "threshold"}
    BY <2>1 DEF StackTypes, Runs
  <2>3. pcStack' = "remote"
    <3>1. pcStack \in RunStep
      BY <2>1 DEF RunStep
    <3>2. QED
      BY <2>1, <3>1, WhatFollows DEF After
  <2>4. QED
    BY <2>1, <2>2, <2>3 DEF ChecksAreBehind, UndoStep, Stack!PassedRunIsTrustworthy, Stack!Passed
<1>6. CASE Stack!VerifyRemoteWrite \/ Stack!ColdCheck \/ Stack!Settle \/ Stack!VerifyDatabase
  <2>1. /\ UNCHANGED <<results, db>> /\ pcStack \in RunStep
        /\ pcStack \in {"remote", "coldCheck", "settle", "verify"}
        /\ Stack!Raise \/ (pcStack' = Stack!Following /\ run' = run)
    BY <1>6 DEF Stack!VerifyRemoteWrite, Stack!ColdCheck, Stack!Settle, Stack!VerifyDatabase, Stack!Done, RunStep
  <2>2. CASE Stack!Raise
    BY <1>1, <2>1, <2>2 DEF Stack!Raise, StackTypes, Runs
  <2>3. CASE pcStack' = Stack!Following /\ run' = run /\ ~Stack!Raise
    <3>1. /\ run.kind \in Stack!Kinds /\ pcStack \in Path(run.kind) /\ pcStack' = After(run.kind, pcStack)
          /\ run.code \in {"ok", "threshold"}
      BY <2>1, <2>3, WhatFollows DEF RunIsInHand, ChecksAreBehind
    <3>2. /\ pcStack = "settle" => ~db.processing
          /\ pcStack = "verify" => db.sound
      BY <1>6, <2>3 DEF Stack!VerifyRemoteWrite, Stack!ColdCheck, Stack!Settle, Stack!VerifyDatabase
    <3>3. pcStack' \in {"coldCheck", "settle", "verify", "threshold"}
      BY <2>1, <3>1 DEF After
    <3>4. pcStack' = "verify" /\ run.kind = "payment" => ~db.processing
      BY <2>1, <3>1, <3>2 DEF After
    <3>5. pcStack' = "threshold" => Met
      <4>1. CASE run.kind = "payment"
        BY <2>1, <3>1, <3>2, <4>1 DEF After, Path, Met, ChecksAreBehind
      <4>2. CASE run.kind = "checkout"
        BY <2>1, <3>1, <3>2, <4>2 DEF After, Path, Met
      <4>3. CASE run.kind \notin {"payment", "checkout"}
        BY <4>3 DEF Met, Stack!Transactional
      <4>4. QED
        BY <4>1, <4>2, <4>3
    <3>6. Met' <=> Met
      BY <2>1, <2>3 DEF Met
    <3>7. QED
      BY <2>1, <2>3, <3>1, <3>3, <3>4, <3>5, <3>6
         DEF ChecksAreBehind, UndoStep, Stack!PassedRunIsTrustworthy, Stack!Passed
  <2>4. QED
    BY <2>1, <2>2, <2>3
<1>7. CASE Stack!Verdict
  <2>1. UNCHANGED <<results, db>> /\ pcStack = "threshold" /\ pcStack' = "restoreBackend"
        /\ (run.code # "threshold" => run' = [run EXCEPT !.verdict = "passed"])
        /\ (run.code = "threshold" => run' = [run EXCEPT !.verdict = "failed"])
    <3>1. pcStack \in RunStep /\ pcStack = "threshold"
      BY <1>7 DEF Stack!Verdict, RunStep
    <3>2. Stack!Following = "restoreBackend"
      BY <3>1, WhatFollows
    <3>3. QED
      BY <1>7, <3>2 DEF Stack!Verdict, Stack!Done, Stack!Raise
  <2>2. run.code \in {"ok", "threshold"} /\ Met
    BY <2>1 DEF ChecksAreBehind
  <2>3. run'.code = run.code /\ run'.kind = run.kind /\ (run'.verdict = "passed" => run.code = "ok")
    BY <2>1, <2>2 DEF StackTypes, Runs
  <2>4. Met'
    BY <2>1, <2>2, <2>3 DEF Met
  <2>5. QED
    BY <1>1, <2>1, <2>2, <2>3, <2>4
<1>8. CASE Stack!RunCommandFails
  BY <1>1, <1>8 DEF Stack!RunCommandFails, Stack!Raise, StackTypes, Runs
<1>9. CASE Stack!Interrupt
  <2>1. results' = results /\ pcStack' = "restoreBackend" /\ run' = [run EXCEPT !.interrupted = TRUE]
        /\ pcStack \in {"load", "settle"}
    BY <1>9 DEF Stack!Interrupt
  <2>2. run'.verdict = "running"
    BY <2>1 DEF RunIsInHand, RunStep, StackTypes, Runs
  <2>3. QED
    BY <1>1, <2>1, <2>2
<1>10. CASE Stack!RestoreBackend \/ Stack!RestoreRedis
  <2>1. UNCHANGED <<results, db>> /\ pcStack \in UndoStep /\ pcStack' \in UndoStep
        /\ run' \in {run, [run EXCEPT !.verdict = "failed"], [run EXCEPT !.verdict = run.verdict]}
    BY <1>10 DEF Stack!RestoreBackend, Stack!RestoreRedis, Stack!VerdictAfter, UndoStep
  <2>2. run'.kind = run.kind /\ run'.code = run.code /\ (run'.verdict = "passed" => run.verdict = "passed")
    BY <2>1 DEF StackTypes, Runs
  <2>3. pcStack' \notin {"remote", "coldCheck", "settle", "verify", "threshold"}
    BY <2>1 DEF UndoStep
  <2>4. QED
    BY <1>1, <2>1, <2>2, <2>3 DEF ChecksAreBehind, Met
<1>11. CASE Stack!FinishRun
  <2>1. pcStack' \in {"idle", "revert", "collect", "warm"} /\ pcStack = "manifest"
    BY <1>11 DEF Stack!FinishRun, Stack!Ended
  <2>2. Stack!PassedRunIsTrustworthy'
    <3>1. CASE run.id = 0
      BY <1>11, <3>1 DEF Stack!FinishRun, ChecksAreBehind, Stack!PassedRunIsTrustworthy, Stack!Passed
    <3>2. CASE run.id # 0
      <4>1. ASSUME NEW i \in 1 .. Len(results), results'[i].manifest = "passed"
            PROVE  /\ results'[i].code = "ok"
                   /\ results'[i].kind \in Stack!Transactional => results'[i].sound
                   /\ results'[i].kind = "payment" => results'[i].settled
        <5>1. CASE i # run.id
          BY <1>11, <3>2, <4>1, <5>1, ManifestIsWritten DEF ChecksAreBehind, Stack!PassedRunIsTrustworthy, Stack!Passed
        <5>2. CASE i = run.id
          <6>1. run.verdict = "passed" /\ results'[i].kind = run.kind
            BY <1>11, <3>2, <4>1, <5>2, ManifestIsWritten DEF RunIsInHand
          <6>2. run.code = "ok" /\ Met
            BY <2>1, <6>1 DEF ChecksAreBehind, UndoStep
          <6>3. QED
            BY <1>11, <3>2, <5>2, <6>1, <6>2, ManifestIsWritten DEF Met
        <5>3. QED
          BY <5>1, <5>2
      <4>2. QED
        BY <1>11, <3>2, <4>1, ManifestIsWritten DEF Stack!PassedRunIsTrustworthy, Stack!Passed
    <3>3. QED
      BY <3>1, <3>2
  <2>3. QED
    BY <2>1, <2>2 DEF ChecksAreBehind, UndoStep
<1>12. CASE Stack!PaymentsSettle
  BY <1>12 DEF Stack!PaymentsSettle, ChecksAreBehind, Met, Stack!PassedRunIsTrustworthy, Stack!Passed, StackTypes, Rows
<1>13. CASE Stack!Crash
  BY <1>1, <1>13 DEF Stack!Crash, UndoStep
<1>14. CASE UNCHANGED Stack!vars \/ Stack!AtRest
  <2>1. UNCHANGED Stack!vars
    BY <1>14 DEF Stack!AtRest
  <2>2. QED
    BY <2>1 DEF Stack!vars, ChecksAreBehind, Met, Stack!PassedRunIsTrustworthy, Stack!Passed
<1>15. QED
  BY <1>2, <1>3, <1>4, <1>5, <1>6, <1>7, <1>8, <1>9, <1>10, <1>11, <1>12, <1>13, <1>14 DEF Stack!Next, Stack!RunNext

\* What a run has changed of a stack that it found whole is written down in the run, until the
\* finally has undone it.
AsRunChangedIt == backend.up /\ (backend.forced <=> run.forced) /\ (redis <=> ~run.stopped)

Began == run.id # 0 /\ results[run.id].began

\* On a stack that was whole when the plan began, the run at work knows what it has changed.
ChangesAreKnown ==
    /\ run.id # 0 /\ startedWhole => results[run.id].began
    /\ startedWhole =>
          /\ pcStack \in {"read", "health"} \cup (PlanCommand \ {"configure", "revert", "up"}) => Stack!Healthy
          /\ pcStack = "configure" => redis
    /\ Began =>
          /\ pcStack \in RunStep => AsRunChangedIt
          /\ run.verdict # "failed" =>
                /\ pcStack = "restoreBackend" => AsRunChangedIt
                /\ pcStack = "restoreRedis" => backend.up /\ ~backend.forced /\ (redis <=> ~run.stopped)
                /\ pcStack = "manifest" => Stack!Healthy
    /\ pcStack \in {"orders", "load"} /\ run.kind = "payment" => run.forced
    /\ pcStack = "load" => /\ run.kind = "down" => run.stopped
                           /\ run.kind = "map" => holds = "fixture"
    /\ Stack!PassedRunRestoresTheStack

LEMMA ChangesStayKnown ==
    StackTypes /\ RunIsInHand /\ ChangesAreKnown /\ [Stack!Next]_(Stack!vars) => ChangesAreKnown'
<1> SUFFICES ASSUME StackTypes, RunIsInHand, ChangesAreKnown, [Stack!Next]_(Stack!vars)
             PROVE  ChangesAreKnown'
  OBVIOUS
<1> USE DEF Stack!stack, Stack!tool, Stack!bounds
<1>k. StackTypes' /\ RunIsInHand'
  BY StackKeepsRuns
<1>b. backend.up \in BOOLEAN /\ backend.forced \in BOOLEAN /\ redis \in BOOLEAN /\ run.forced \in BOOLEAN
      /\ run.stopped \in BOOLEAN
  BY DEF StackTypes, Backends, Runs
\* The steps of a plan.
<1>1. ASSUME pcStack' \in {"idle", "read"} \cup PlanCommand, run'.id = 0, Stack!PassedRunRestoresTheStack',
             startedWhole' => /\ pcStack' \in {"read"} \cup (PlanCommand \ {"configure", "revert", "up"}) => Stack!Healthy'
                              /\ pcStack' = "configure" => redis'
      PROVE  ChangesAreKnown'
  BY <1>1 DEF ChangesAreKnown, Began, PlanCommand, RunStep
<1>2. CASE Stack!PlanNext
  <2>1. Stack!PassedRunRestoresTheStack'
    <3>1. CASE results' = results
      BY <3>1 DEF ChangesAreKnown, Stack!PassedRunRestoresTheStack, Stack!Passed
    <3>2. CASE results' # results
      BY <1>2, <3>2, PlansLeaveResults, EvidenceIsAdded
         DEF ChangesAreKnown, Stack!PassedRunRestoresTheStack, Stack!Passed
    <3>3. QED
      BY <3>1, <3>2
  <2>2. pcStack' \in {"idle", "read"} \cup PlanCommand
    BY <1>2, PlansLeaveResults
  <2>3. run'.id = 0
    <3>1. CASE pcStack' = "read"
      BY <1>k, <3>1 DEF RunIsInHand
    <3>2. CASE pcStack' # "read"
      <4>1. pcStack' \notin RunStep \cup UndoStep
        BY <2>2, <3>2 DEF PlanCommand, RunStep, UndoStep
      <4>2. QED
        BY <1>k, <4>1 DEF RunIsInHand, Stack!NoRun
    <3>3. QED
      BY <3>1, <3>2
  <2> DEFINE goal == startedWhole' =>
                /\ pcStack' \in {"read"} \cup (PlanCommand \ {"configure", "revert", "up"}) => Stack!Healthy'
                /\ pcStack' = "configure" => redis'
  <2>4. ASSUME UNCHANGED <<redis, backend, startedWhole>>, pcStack \in PlanCommand \ {"configure", "revert", "up"},
               pcStack' # "configure"
        PROVE  goal
    BY <2>4 DEF ChangesAreKnown, Stack!Healthy
  <2>5. ASSUME pcStack' \in {"idle", "revert", "up"} PROVE goal
    BY <2>5 DEF PlanCommand
  <2>6. ASSUME Stack!StartPlan PROVE goal
    BY <2>6 DEF Stack!StartPlan, Stack!Whole, Stack!Healthy, PlanCommand
  <2>7. ASSUME Stack!PlanCommandFails \/ Stack!RecreationFails \/ Stack!Revert \/ Stack!DownVolumes PROVE goal
    BY <2>5, <2>7 DEF Stack!PlanCommandFails, Stack!RecreationFails, Stack!Revert, Stack!DownVolumes, Stack!Ended
  <2>8. ASSUME Stack!Configure PROVE goal
    BY <2>8 DEF Stack!Configure, ChangesAreKnown, Stack!Healthy
  <2>9. ASSUME Stack!UpBuild PROVE goal
    <3>1. CASE pcStack' = "observe"
      BY <2>9, <3>1 DEF Stack!UpBuild, Stack!Healthy, Stack!Base, Stack!Ended
    <3>2. CASE pcStack' # "observe"
      BY <2>5, <2>9, <3>2 DEF Stack!UpBuild, Stack!Ended
    <3>3. QED
      BY <3>1, <3>2
  <2>10. ASSUME Stack!Reset \/ Stack!ClearGenerated \/ Stack!Observe \/ Stack!ReplaceRows \/ Stack!ValidateDatabase PROVE goal
    <3>1. UNCHANGED <<redis, backend, startedWhole>> /\ pcStack \in PlanCommand \ {"configure", "revert", "up"}
      BY <2>10 DEF Stack!Reset, Stack!ClearGenerated, Stack!Observe, Stack!ReplaceRows, Stack!ValidateDatabase, PlanCommand
    <3>2. pcStack' # "configure"
      <4>1. CASE Stack!Reset
        BY <4>1, EntryIsPlanned DEF Stack!Reset, Stack!Resets
      <4>2. CASE Stack!ClearGenerated \/ Stack!Observe \/ Stack!ReplaceRows \/ Stack!ValidateDatabase
        BY <4>2 DEF Stack!ClearGenerated, Stack!Observe, Stack!ReplaceRows, Stack!ValidateDatabase, Stack!Ended,
           Stack!FilesInOrder
      <4>3. QED
        BY <2>10, <4>1, <4>2
    <3>3. QED
      BY <2>4, <3>1, <3>2
  <2>11. ASSUME Stack!WriteFile \/ Stack!AuthSmoke \/ Stack!FreshVerify \/ Stack!ClearCaches PROVE goal
    <3>1. UNCHANGED <<redis, backend, startedWhole>> /\ pcStack \in PlanCommand \ {"configure", "revert", "up"}
          /\ pcStack' # "configure"
      <4>1. CASE Stack!WriteFile
        BY <4>1 DEF Stack!WriteFile, Stack!FilesInOrder, PlanCommand
      <4>2. CASE Stack!AuthSmoke \/ Stack!FreshVerify \/ Stack!ClearCaches
        BY <4>2 DEF Stack!AuthSmoke, Stack!FreshVerify, Stack!ClearCaches, PlanCommand, Stack!Ended
      <4>3. QED
        BY <2>11, <4>1, <4>2
    <3>2. QED
      BY <2>4, <3>1
  <2>12. ASSUME Stack!Warmup \/ Stack!ResetStatistics \/ Stack!Measure \/ Stack!Collect PROVE goal
    <3>1. UNCHANGED <<redis, backend, startedWhole>> /\ pcStack \in PlanCommand \ {"configure", "revert", "up"}
          /\ pcStack' # "configure"
      <4>1. CASE Stack!Warmup \/ Stack!ResetStatistics
        BY <4>1 DEF Stack!Warmup, Stack!ResetStatistics, PlanCommand, Stack!Ended
      <4>2. CASE Stack!Measure \/ Stack!Collect
        BY <4>2 DEF Stack!Measure, Stack!Collect, PlanCommand, Stack!Ended
      <4>3. QED
        BY <2>12, <4>1, <4>2
    <3>2. QED
      BY <2>4, <3>1
  <2>13. goal
    BY <1>2, <2>6, <2>7, <2>8, <2>9, <2>10, <2>11, <2>12 DEF Stack!PlanNext
  <2>14. QED
    BY <1>1, <2>1, <2>2, <2>3, <2>13
\* A run that raises.
<1>3. ASSUME results' = results, startedWhole' = startedWhole, pcStack' \in UndoStep, run'.id = run.id,
             run'.verdict = "failed"
      PROVE  ChangesAreKnown'
  BY <1>3 DEF ChangesAreKnown, Began, UndoStep, PlanCommand, RunStep, Stack!PassedRunRestoresTheStack, Stack!Passed
<1>4. ASSUME Stack!Raise, results' = results, startedWhole' = startedWhole
      PROVE  ChangesAreKnown'
  BY <1>3, <1>4 DEF Stack!Raise, UndoStep, StackTypes, Runs
\* A step that goes on within the run.
<1>5. ASSUME pcStack \in RunStep \ {"read", "health"}, pcStack' = Stack!Following,
             UNCHANGED <<results, startedWhole>>, run'.id = run.id, run'.kind = run.kind,
             Began => AsRunChangedIt', pcStack = "threshold" => run'.verdict # "failed",
             pcStack = "force" => run'.forced, pcStack # "force" => run'.forced = run.forced,
             pcStack = "stopRedis" => run'.stopped,
             pcStack = "fixture" => holds' = "fixture"
      PROVE  ChangesAreKnown'
  <2>1. /\ run.kind \in Stack!Kinds /\ pcStack \in Path(run.kind) /\ pcStack' = After(run.kind, pcStack)
        /\ pcStack' \in (RunStep \ {"read", "health"}) \cup {"restoreBackend"}
    BY <1>5, WhatFollows DEF RunIsInHand
  <2>2. pcStack' \in {"orders", "load"} /\ run.kind = "payment" => run'.forced
    <3>1. CASE run.kind = "payment"
      BY <1>5, <2>1, <3>1 DEF After, Path, ChangesAreKnown
    <3>2. QED
      BY <3>1
  <2>3. pcStack' = "load" /\ run.kind = "down" => run'.stopped
    <3>1. CASE run.kind = "down"
      BY <1>5, <2>1, <3>1 DEF After, Path
    <3>2. QED
      BY <3>1
  <2>4. pcStack' = "load" /\ run.kind = "map" => holds' = "fixture"
    <3>1. CASE run.kind = "map"
      BY <1>5, <2>1, <3>1 DEF After, Path
    <3>2. QED
      BY <3>1
  <2>5. QED
    BY <1>5, <2>1, <2>2, <2>3, <2>4 DEF ChangesAreKnown, Began, PlanCommand, RunStep,
       Stack!PassedRunRestoresTheStack, Stack!Passed
<1>6. CASE Stack!ReadDataset
  <2>1. CASE Stack!Raise
    BY <1>4, <1>6, <2>1 DEF Stack!ReadDataset
  <2>2. CASE ~Stack!Raise
    <3>1. /\ UNCHANGED <<Stack!stack, results, startedWhole>> /\ pcStack = "read" /\ pcStack' = Stack!Following
          /\ run' = [run EXCEPT !.sessions = files["sessions"], !.dataset = files["dataset"]]
      BY <1>6, <2>2 DEF Stack!ReadDataset, Stack!Done
    <3>2. pcStack' = "health" /\ run.id = 0
      <4>1. pcStack \in RunStep
        BY <3>1 DEF RunStep
      <4>2. QED
        BY <3>1, <4>1, WhatFollows DEF After, RunIsInHand
    <3>3. run'.id = 0
      BY <3>1, <3>2 DEF StackTypes, Runs
    <3>4. QED
      BY <3>1, <3>2, <3>3 DEF ChangesAreKnown, Began, Stack!Healthy, PlanCommand, Stack!PassedRunRestoresTheStack,
         Stack!Passed
  <2>3. QED
    BY <2>1, <2>2
<1>7. CASE Stack!OpenRun
  <2>1. CASE ~backend.up
    BY <1>4, <1>7, <2>1 DEF Stack!OpenRun
  <2>2. CASE backend.up
    <3>1. pcStack \in RunStep /\ pcStack = "health" /\ run.kind \in Stack!Kinds /\ ~run.forced /\ ~run.stopped
      BY <1>7 DEF Stack!OpenRun, RunStep, RunIsInHand
    <3>2. pcStack' \in {"auth", "fixture", "clearHolds", "load"}
          /\ (pcStack' = "load" => run.kind \in {"read", "login"})
      <4>1. pcStack' = After(run.kind, pcStack)
        BY <1>7, <2>2, <3>1, DirectoryIsOpened, WhatFollows
      <4>2. QED
        BY <3>1, <4>1 DEF After, Stack!Kinds, Stack!UsesSessions, Stack!Transactional
    <3>3. Began' => AsRunChangedIt'
      BY <1>7, <1>b, <2>2, <3>1, DirectoryIsOpened DEF Began, AsRunChangedIt, Stack!Healthy
    <3>4. startedWhole' => results'[run'.id].began
      BY <1>7, <2>2, <3>1, DirectoryIsOpened DEF ChangesAreKnown
    <3>5. Stack!PassedRunRestoresTheStack'
      <4>1. \A i \in 1 .. Len(results') : i \in 1 .. Len(results) \/ i = run'.id
        BY <1>7, <2>2, DirectoryIsOpened DEF StackTypes
      <4>2. QED
        BY <1>7, <2>2, <4>1, DirectoryIsOpened DEF ChangesAreKnown, Stack!PassedRunRestoresTheStack, Stack!Passed
    <3>6. QED
      BY <1>7, <2>2, <3>2, <3>3, <3>4, <3>5, DirectoryIsOpened DEF ChangesAreKnown, PlanCommand, RunStep
  <2>3. QED
    BY <2>1, <2>2
<1>8. CASE Stack!ClearAuthCache \/ Stack!PrepareSeatMap \/ Stack!ClearSeatHolds \/ Stack!PrepareOrders
           \/ Stack!VerifyRemoteWrite \/ Stack!ColdCheck \/ Stack!Settle \/ Stack!VerifyDatabase
  <2>1. /\ UNCHANGED <<redis, backend, results, startedWhole>>
        /\ pcStack \in RunStep \ {"read", "health", "force", "stopRedis", "threshold"}
        /\ Stack!Raise \/ (pcStack' = Stack!Following /\ run' = run /\ (pcStack = "fixture" => holds' = "fixture"))
    <3>1. CASE Stack!ClearAuthCache \/ Stack!PrepareSeatMap \/ Stack!ClearSeatHolds \/ Stack!PrepareOrders
      BY <3>1 DEF Stack!ClearAuthCache, Stack!PrepareSeatMap, Stack!ClearSeatHolds, Stack!PrepareOrders, Stack!Done, RunStep
    <3>2. CASE Stack!VerifyRemoteWrite \/ Stack!ColdCheck \/ Stack!Settle \/ Stack!VerifyDatabase
      BY <3>2 DEF Stack!VerifyRemoteWrite, Stack!ColdCheck, Stack!Settle, Stack!VerifyDatabase, Stack!Done, RunStep
    <3>3. QED
      BY <1>8, <3>1, <3>2
  <2>2. CASE Stack!Raise
    BY <1>4, <2>1, <2>2
  <2>3. CASE pcStack' = Stack!Following /\ run' = run /\ (pcStack = "fixture" => holds' = "fixture")
    <3>1. Began => AsRunChangedIt'
      BY <2>1, <2>3 DEF ChangesAreKnown, AsRunChangedIt
    <3>2. QED
      BY <1>5, <2>1, <2>3, <3>1
  <2>4. QED
    BY <2>1, <2>2, <2>3
<1>9. CASE Stack!StopRedis
  <2>1. /\ UNCHANGED <<backend, results, startedWhole>> /\ pcStack = "stopRedis" /\ pcStack \in RunStep
        /\ pcStack' = Stack!Following /\ redis' = FALSE /\ run' = [run EXCEPT !.stopped = TRUE]
    BY <1>9 DEF Stack!StopRedis, Stack!Done, RunStep
  <2>2. run'.id = run.id /\ run'.kind = run.kind /\ run'.forced = run.forced /\ run'.stopped
    BY <2>1 DEF StackTypes, Runs
  <2>3. Began => AsRunChangedIt'
    BY <2>1, <2>2 DEF ChangesAreKnown, AsRunChangedIt
  <2>4. QED
    BY <1>5, <2>1, <2>2, <2>3
<1>10. CASE Stack!ForceOutcome
  <2>1. /\ UNCHANGED <<results, startedWhole>> /\ pcStack = "force" /\ pcStack \in RunStep
        /\ pcStack' = Stack!Following /\ redis' = TRUE /\ backend' = [Stack!Base EXCEPT !.forced = TRUE]
        /\ run' = [run EXCEPT !.forced = TRUE]
    BY <1>10 DEF Stack!ForceOutcome, Stack!Done, RunStep
  <2>2. run'.id = run.id /\ run'.kind = run.kind /\ run'.forced /\ run'.stopped = run.stopped
    BY <2>1 DEF StackTypes, Runs
  <2>3. ~run.stopped
    <3>1. run.kind \in Stack!Kinds /\ "force" \in Path(run.kind) /\ (run.stopped => run.kind = "down")
      BY <2>1 DEF RunIsInHand
    <3>2. QED
      BY <3>1 DEF Path
  <2>4. Began => AsRunChangedIt'
    BY <2>1, <2>2, <2>3 DEF AsRunChangedIt, Stack!Base
  <2>5. QED
    BY <1>5, <2>1, <2>2, <2>4
<1>11. CASE Stack!Load \/ Stack!Verdict
  <2>1. CASE Stack!Raise /\ Stack!Verdict
    BY <1>4, <2>1 DEF Stack!Verdict
  <2>2. CASE ~Stack!Raise \/ Stack!Load
    <3>1. /\ UNCHANGED <<redis, backend, results, startedWhole>>
          /\ pcStack \in RunStep \ {"read", "health", "force", "stopRedis", "fixture"}
          /\ pcStack' = Stack!Following
          /\ run' \in {[run EXCEPT !.code = "ok"], [run EXCEPT !.code = "threshold"], [run EXCEPT !.verdict = "passed"]}
          /\ pcStack = "threshold" => run' = [run EXCEPT !.verdict = "passed"]
      BY <1>11, <2>2 DEF Stack!Load, Stack!Verdict, Stack!Done, RunStep
    <3>2. run'.id = run.id /\ run'.kind = run.kind /\ run'.forced = run.forced /\ run'.stopped = run.stopped
          /\ (pcStack = "threshold" => run'.verdict = "passed")
      <4>1. CASE run' = [run EXCEPT !.verdict = "passed"]
        BY <4>1 DEF StackTypes, Runs
      <4>2. CASE pcStack # "threshold" /\ run' \in {[run EXCEPT !.code = "ok"], [run EXCEPT !.code = "threshold"]}
        BY <4>2 DEF StackTypes, Runs
      <4>3. QED
        BY <3>1, <4>1, <4>2
    <3>3. Began => AsRunChangedIt'
      BY <3>1, <3>2 DEF ChangesAreKnown, AsRunChangedIt
    <3>4. QED
      BY <1>5, <3>1, <3>2, <3>3
  <2>3. QED
    BY <1>11, <2>1, <2>2
<1>12. CASE Stack!RunCommandFails
  BY <1>4, <1>12 DEF Stack!RunCommandFails
<1>13. CASE Stack!Interrupt
  <2>1. /\ UNCHANGED <<redis, backend, results, startedWhole>> /\ pcStack \in {"load", "settle"}
        /\ pcStack' = "restoreBackend" /\ run' = [run EXCEPT !.interrupted = TRUE]
    BY <1>13 DEF Stack!Interrupt
  <2>2. run'.id = run.id /\ run'.forced = run.forced /\ run'.stopped = run.stopped
    BY <2>1 DEF StackTypes, Runs
  <2>3. QED
    BY <2>1, <2>2 DEF ChangesAreKnown, Began, AsRunChangedIt, RunStep, PlanCommand,
       Stack!PassedRunRestoresTheStack, Stack!Passed
<1>14. CASE Stack!RestoreBackend
  <2>1. UNCHANGED <<results, startedWhole>> /\ pcStack = "restoreBackend" /\ pcStack' = "restoreRedis"
    BY <1>14 DEF Stack!RestoreBackend
  <2>2. CASE run' = [run EXCEPT !.verdict = "failed"]
    <3>1. run'.id = run.id /\ run'.verdict = "failed"
      BY <2>2 DEF StackTypes, Runs
    <3>2. QED
      BY <1>3, <2>1, <3>1 DEF UndoStep
  <2>3. CASE run' = run /\ ~run.forced /\ UNCHANGED <<backend, redis>>
    BY <2>1, <2>3 DEF ChangesAreKnown, Began, AsRunChangedIt, RunStep, PlanCommand,
       Stack!PassedRunRestoresTheStack, Stack!Passed
  <2>4. CASE run' = run /\ run.forced /\ backend' = Stack!Base /\ redis' = TRUE
    <3>1. ~run.stopped
      BY <2>4 DEF RunIsInHand
    <3>2. backend'.up /\ ~backend'.forced
      BY <2>4 DEF Stack!Base
    <3>3. QED
      BY <2>1, <2>4, <3>1, <3>2 DEF ChangesAreKnown, Began, AsRunChangedIt, RunStep, PlanCommand,
         Stack!PassedRunRestoresTheStack, Stack!Passed
  <2>5. QED
    BY <1>14, <2>2, <2>3, <2>4 DEF Stack!RestoreBackend, Stack!VerdictAfter
<1>15. CASE Stack!RestoreRedis
  <2>1. UNCHANGED <<backend, results, startedWhole>> /\ pcStack = "restoreRedis" /\ pcStack' = "manifest"
    BY <1>15 DEF Stack!RestoreRedis
  <2>2. CASE run' = [run EXCEPT !.verdict = "failed"]
    <3>1. run'.id = run.id /\ run'.verdict = "failed"
      BY <2>2 DEF StackTypes, Runs
    <3>2. QED
      BY <1>3, <2>1, <3>1 DEF UndoStep
  <2>3. CASE run'.id = run.id /\ run'.verdict = run.verdict /\ redis'
             /\ (~run.stopped \/ redis' = TRUE) /\ (redis' = redis \/ run.stopped)
    BY <2>1, <2>3 DEF ChangesAreKnown, Began, RunStep, PlanCommand, Stack!Healthy,
       Stack!PassedRunRestoresTheStack, Stack!Passed
  <2>4. CASE run' = run /\ ~run.stopped /\ redis' = redis
    BY <2>1, <2>4 DEF ChangesAreKnown, Began, RunStep, PlanCommand, Stack!Healthy,
       Stack!PassedRunRestoresTheStack, Stack!Passed
  <2>5. CASE run.stopped /\ redis' = TRUE /\ run' = [run EXCEPT !.verdict = Stack!VerdictAfter(backend.up)]
    <3>1. CASE backend.up
      <4>1. run'.id = run.id /\ run'.verdict = run.verdict
        BY <2>5, <3>1 DEF StackTypes, Runs, Stack!VerdictAfter
      <4>2. QED
        BY <2>3, <2>5, <4>1
    <3>2. CASE ~backend.up
      BY <2>2, <2>5, <3>2 DEF Stack!VerdictAfter
    <3>3. QED
      BY <3>1, <3>2
  <2>6. QED
    BY <1>15, <2>2, <2>4, <2>5 DEF Stack!RestoreRedis, Stack!VerdictAfter
<1>16. CASE Stack!FinishRun
  <2>1. /\ pcStack = "manifest" /\ pcStack' \in {"idle", "revert", "collect", "warm"} /\ run' = Stack!NoRun
        /\ UNCHANGED <<redis, backend, startedWhole>>
        /\ pcStack' \in {"collect", "warm"} => run.verdict = "passed"
    BY <1>16 DEF Stack!FinishRun, Stack!Ended
  <2>2. startedWhole' /\ pcStack' \in {"collect", "warm"} => Stack!Healthy'
    <3>1. ASSUME startedWhole, run.verdict = "passed" PROVE Stack!Healthy
      <4>1. run.id # 0 /\ results[run.id].began
        BY <2>1, <3>1 DEF RunIsInHand, ChangesAreKnown, UndoStep
      <4>2. QED
        BY <2>1, <3>1, <4>1 DEF ChangesAreKnown, Began
    <3>2. QED
      BY <2>1, <3>1 DEF Stack!Healthy
  <2>3. Stack!PassedRunRestoresTheStack'
    <3>1. CASE run.id = 0
      BY <1>16, <3>1 DEF Stack!FinishRun, ChangesAreKnown, Stack!PassedRunRestoresTheStack, Stack!Passed
    <3>2. CASE run.id # 0
      <4>1. ASSUME NEW i \in 1 .. Len(results), results'[i].manifest = "passed", results'[i].began
            PROVE  results'[i].whole
        <5>1. CASE i # run.id
          BY <1>16, <3>2, <4>1, <5>1, ManifestIsWritten DEF ChangesAreKnown, Stack!PassedRunRestoresTheStack, Stack!Passed
        <5>2. CASE i = run.id
          <6>1. run.verdict = "passed" /\ Began
            BY <1>16, <3>2, <4>1, <5>2, ManifestIsWritten DEF Began
          <6>2. QED
            BY <1>16, <2>1, <3>2, <5>2, <6>1, ManifestIsWritten DEF ChangesAreKnown
        <5>3. QED
          BY <5>1, <5>2
      <4>2. QED
        BY <1>16, <3>2, <4>1, ManifestIsWritten DEF Stack!PassedRunRestoresTheStack, Stack!Passed
    <3>3. QED
      BY <3>1, <3>2
  <2>4. run'.id = 0
    BY <2>1 DEF Stack!NoRun
  <2>5. pcStack' \in {"idle", "read"} \cup PlanCommand
    BY <2>1 DEF PlanCommand
  <2>6. QED
    BY <1>1, <2>1, <2>2, <2>3, <2>4, <2>5 DEF PlanCommand
<1>17. CASE Stack!PaymentsSettle \/ Stack!AtRest \/ UNCHANGED Stack!vars
  <2>1. UNCHANGED <<redis, backend, holds, run, results, startedWhole, pcStack>>
    BY <1>17 DEF Stack!PaymentsSettle, Stack!AtRest, Stack!vars
  <2>2. QED
    BY <2>1 DEF ChangesAreKnown, Began, AsRunChangedIt, Stack!Healthy, Stack!PassedRunRestoresTheStack, Stack!Passed
<1>18. CASE Stack!Crash
  <2>1. pcStack' = "idle" /\ run'.id = 0 /\ results' = results
    BY <1>18 DEF Stack!Crash, Stack!NoRun
  <2>2. QED
    BY <1>1, <2>1 DEF PlanCommand, ChangesAreKnown, Stack!PassedRunRestoresTheStack, Stack!Passed
<1>19. QED
  BY <1>2, <1>6, <1>7, <1>8, <1>9, <1>10, <1>11, <1>12, <1>13, <1>14, <1>15, <1>16, <1>17, <1>18
     DEF Stack!Next, Stack!RunNext

\* The evidence that is collected is of the run before it, and the stack is configured as the plan
\* declares while it is at work.
EvidenceIsInHand ==
    /\ startedWhole /\ pcStack \notin {"idle", "configure", "revert"} => backend.config = Stack!DeclaredConfig
    /\ run.id # 0 /\ startedWhole => results[run.id].config = Stack!DeclaredConfig
    /\ pcStack = "redisBefore" => stats = {}
    /\ run.measured /\ pcStack \in RunStep \cup UndoStep => stats = IF run.id = 0 THEN {} ELSE {run.id}
    /\ pcStack = "collect" =>
          /\ Len(results) > 0 /\ stats = {Len(results)} /\ Stack!Passed(Len(results))
          /\ results[Len(results)].ground => results[Len(results)].config = Stack!DeclaredConfig
    /\ Stack!EvidenceIsOfItsRun

LEMMA EvidenceStaysInHand ==
    StackTypes /\ RunIsInHand /\ EvidenceIsInHand /\ [Stack!Next]_(Stack!vars) => EvidenceIsInHand'
<1> SUFFICES ASSUME StackTypes, RunIsInHand, EvidenceIsInHand, [Stack!Next]_(Stack!vars)
             PROVE  EvidenceIsInHand'
  OBVIOUS
<1> USE DEF Stack!stack, Stack!tool, Stack!bounds
<1>k. StackTypes' /\ RunIsInHand'
  BY StackKeepsRuns
\* The steps of a plan without a run.
<1>1. ASSUME pcStack' \in {"idle"} \cup PlanCommand, run'.id = 0, Stack!EvidenceIsOfItsRun',
             startedWhole' /\ pcStack' \notin {"idle", "configure", "revert"} => backend'.config = Stack!DeclaredConfig',
             pcStack' # "collect", pcStack' = "redisBefore" => stats' = {}
      PROVE  EvidenceIsInHand'
  BY <1>1 DEF EvidenceIsInHand, PlanCommand, RunStep, UndoStep
<1>2. CASE Stack!PlanNext /\ ~Stack!Collect /\ ~Stack!Measure /\ ~Stack!Warmup
  <2>1. results' = results /\ Stack!EvidenceIsOfItsRun'
    BY <1>2, PlansLeaveResults DEF EvidenceIsInHand, Stack!EvidenceIsOfItsRun, Stack!Passed
  <2>2. pcStack' \in {"idle"} \cup PlanCommand /\ pcStack' # "collect"
        /\ (pcStack' = "redisBefore" => stats' = {})
        /\ (pcStack \in {"idle", "configure", "revert"} => Stack!StartPlan \/ Stack!Configure \/ pcStack' = "idle")
    <3>1. CASE Stack!StartPlan \/ Stack!PlanCommandFails
      BY <3>1 DEF Stack!StartPlan, Stack!PlanCommandFails, Stack!Ended, PlanCommand
    <3>2. CASE Stack!Configure \/ Stack!Revert \/ Stack!RecreationFails
      BY <3>2 DEF Stack!Configure, Stack!Revert, Stack!RecreationFails, PlanCommand
    <3>3. CASE Stack!Reset
      BY <3>3, EntryIsPlanned DEF Stack!Reset, PlanCommand, Stack!Resets
    <3>4. CASE Stack!ClearGenerated \/ Stack!DownVolumes \/ Stack!UpBuild \/ Stack!Observe
      BY <3>4 DEF Stack!ClearGenerated, Stack!DownVolumes, Stack!UpBuild, Stack!Observe, Stack!Ended, PlanCommand
    <3>5. CASE Stack!ReplaceRows \/ Stack!ValidateDatabase \/ Stack!WriteFile
      BY <3>5 DEF Stack!ReplaceRows, Stack!ValidateDatabase, Stack!WriteFile, Stack!FilesInOrder, PlanCommand
    <3>6. CASE Stack!AuthSmoke \/ Stack!FreshVerify \/ Stack!ClearCaches \/ Stack!ResetStatistics
      BY <3>6 DEF Stack!AuthSmoke, Stack!FreshVerify, Stack!ClearCaches, Stack!ResetStatistics, Stack!Ended, PlanCommand
    <3>7. QED
      BY <1>2, <3>1, <3>2, <3>3, <3>4, <3>5, <3>6 DEF Stack!PlanNext
  <2>3. run'.id = 0
    BY <1>k, <2>2 DEF RunIsInHand, Stack!NoRun, RunStep, UndoStep, PlanCommand
  <2>4. startedWhole' /\ pcStack' \notin {"idle", "configure", "revert"} => backend'.config = Stack!DeclaredConfig'
    <3>1. CASE Stack!StartPlan
      BY <3>1 DEF Stack!StartPlan, Stack!Whole, Stack!DeclaredConfig
    <3>2. CASE Stack!Configure
      <4>1. plan.experiment
        BY <3>2 DEF Stack!Configure, RunIsInHand
      <4>2. QED
        BY <3>2, <4>1 DEF Stack!Configure, Stack!DeclaredConfig
    <3>3. CASE ~Stack!StartPlan /\ ~Stack!Configure
      <4>1. startedWhole' = startedWhole /\ plan' = plan
        BY <1>2, <3>3, PlansLeaveResults
      <4>2. CASE pcStack \in {"idle", "configure", "revert"}
        BY <2>2, <3>3, <4>2
      <4>3. CASE pcStack \notin {"idle", "configure", "revert"}
        <5>1. backend' = backend \/ (backend'.config = "base" /\ pcStack \in {"down", "up"})
          <6>1. CASE Stack!DownVolumes \/ Stack!UpBuild
            BY <6>1 DEF Stack!DownVolumes, Stack!UpBuild, Stack!Base
          <6>2. CASE Stack!PlanCommandFails \/ Stack!Reset \/ Stack!ClearGenerated \/ Stack!Observe
            BY <6>2 DEF Stack!PlanCommandFails, Stack!Reset, Stack!ClearGenerated, Stack!Observe
          <6>3. CASE Stack!ReplaceRows \/ Stack!ValidateDatabase \/ Stack!WriteFile \/ Stack!AuthSmoke
            BY <6>3 DEF Stack!ReplaceRows, Stack!ValidateDatabase, Stack!WriteFile, Stack!AuthSmoke
          <6>4. CASE Stack!FreshVerify \/ Stack!ClearCaches \/ Stack!ResetStatistics
            BY <6>4 DEF Stack!FreshVerify, Stack!ClearCaches, Stack!ResetStatistics
          <6>5. CASE Stack!Revert \/ Stack!RecreationFails
            BY <4>3, <6>5 DEF Stack!Revert, Stack!RecreationFails
          <6>6. QED
            BY <1>2, <3>3, <6>1, <6>2, <6>3, <6>4, <6>5 DEF Stack!PlanNext
        <5>2. pcStack \in {"down", "up"} => ~plan.experiment
          BY EntryIsPlanned DEF RunIsInHand
        <5>3. QED
          BY <4>1, <4>3, <5>1, <5>2 DEF EvidenceIsInHand, Stack!DeclaredConfig
      <4>4. QED
        BY <4>2, <4>3
    <3>4. QED
      BY <3>1, <3>2, <3>3
  <2>5. QED
    BY <1>1, <2>1, <2>2, <2>3, <2>4
<1>3. CASE Stack!Measure \/ Stack!Warmup
  <2>1. /\ UNCHANGED <<Stack!stack, stats, plan, pos, results, startedWhole>>
        /\ pcStack \in {"warm", "redisBefore"}
    BY <1>3 DEF Stack!Measure, Stack!Warmup
  <2>2. CASE pcStack' = "read"
    <3>1. run'.id = 0 /\ (run'.measured => pcStack = "redisBefore")
      BY <1>3, <2>2 DEF Stack!Measure, Stack!Warmup, Stack!StartRun, Stack!NoRun, Stack!Ended
    <3>2. QED
      BY <2>1, <2>2, <3>1 DEF EvidenceIsInHand, Stack!DeclaredConfig, Stack!EvidenceIsOfItsRun, Stack!Passed
  <2>3. CASE pcStack' # "read"
    <3>1. pcStack' \in {"idle", "revert", "statsReset"}
      BY <1>3, <2>3 DEF Stack!Measure, Stack!Warmup, Stack!Ended
    <3>2. run'.id = 0
      BY <1>k, <3>1 DEF RunIsInHand, Stack!NoRun, RunStep, UndoStep
    <3>3. QED
      BY <1>1, <2>1, <3>1, <3>2 DEF EvidenceIsInHand, Stack!DeclaredConfig, Stack!EvidenceIsOfItsRun,
         Stack!Passed, PlanCommand
  <2>4. QED
    BY <2>2, <2>3
<1>4. CASE Stack!Collect
  <2>1. /\ UNCHANGED <<Stack!stack, stats, plan, run, startedWhole>> /\ pcStack = "collect"
        /\ pcStack' \in {"idle", "revert", "reset"}
    BY <1>4 DEF Stack!Collect, Stack!Ended
  <2>2. run'.id = 0
    BY <1>k, <2>1 DEF RunIsInHand, Stack!NoRun, RunStep, UndoStep
  <2>3. Stack!EvidenceIsOfItsRun'
    <3>1. CASE results' = results
      BY <3>1 DEF EvidenceIsInHand, Stack!EvidenceIsOfItsRun, Stack!Passed
    <3>2. CASE results' # results
      <4>1. ASSUME NEW i \in 1 .. Len(results), results'[i].evidence # {}
            PROVE  /\ results'[i].manifest = "passed" /\ results'[i].evidence = {i}
                   /\ results'[i].ground => results'[i].claims = results'[i].config
        <5>1. CASE i = Len(results)
          BY <1>4, <2>1, <3>2, <5>1, EvidenceIsAdded DEF EvidenceIsInHand, Stack!Passed
        <5>2. CASE i # Len(results)
          BY <1>4, <3>2, <4>1, <5>2, EvidenceIsAdded DEF EvidenceIsInHand, Stack!EvidenceIsOfItsRun, Stack!Passed
        <5>3. QED
          BY <5>1, <5>2
      <4>2. QED
        BY <1>4, <3>2, <4>1, EvidenceIsAdded DEF Stack!EvidenceIsOfItsRun, Stack!Passed
    <3>3. QED
      BY <3>1, <3>2
  <2>4. QED
    BY <1>1, <2>1, <2>2, <2>3 DEF EvidenceIsInHand, Stack!DeclaredConfig, PlanCommand
\* The steps of a run that has a directory, or does not come to one.
<1>5. ASSUME pcStack \in RunStep \cup UndoStep, pcStack' \in RunStep \cup UndoStep,
             UNCHANGED <<results, stats, plan, startedWhole>>, run'.id = run.id, run'.measured = run.measured,
             backend'.config = backend.config \/ (backend'.config = "base" /\ ~plan.experiment)
      PROVE  EvidenceIsInHand'
  <2>1. startedWhole => backend'.config = Stack!DeclaredConfig
    BY <1>5 DEF EvidenceIsInHand, Stack!DeclaredConfig, RunStep, UndoStep
  <2>2. QED
    BY <1>5, <2>1 DEF EvidenceIsInHand, Stack!DeclaredConfig, Stack!EvidenceIsOfItsRun, Stack!Passed, RunStep, UndoStep
<1>p. /\ run.kind = "payment" /\ pcStack # "idle" => ~plan.experiment
      /\ pcStack \in RunStep => Stack!Following \in RunStep \cup UndoStep
  BY WhatFollows DEF RunIsInHand, UndoStep
<1>r. run.measured \in BOOLEAN /\ run \in Runs
  BY DEF StackTypes, Runs
<1>6. CASE Stack!ReadDataset \/ Stack!ClearAuthCache \/ Stack!PrepareSeatMap \/ Stack!ClearSeatHolds
           \/ Stack!PrepareOrders \/ Stack!VerifyRemoteWrite \/ Stack!ColdCheck \/ Stack!Settle
           \/ Stack!VerifyDatabase \/ Stack!StopRedis \/ Stack!Load \/ Stack!Verdict \/ Stack!Interrupt
  <2>1. /\ pcStack \in RunStep /\ UNCHANGED <<results, stats, plan, startedWhole, backend>>
        /\ pcStack' \in {Stack!Following, "restoreBackend"}
    <3>1. CASE Stack!ReadDataset \/ Stack!ClearAuthCache \/ Stack!PrepareSeatMap \/ Stack!ClearSeatHolds
      BY <3>1 DEF Stack!ReadDataset, Stack!ClearAuthCache, Stack!PrepareSeatMap, Stack!ClearSeatHolds, Stack!Done,
         Stack!Raise, RunStep
    <3>2. CASE Stack!PrepareOrders \/ Stack!VerifyRemoteWrite \/ Stack!ColdCheck \/ Stack!Settle
      BY <3>2 DEF Stack!PrepareOrders, Stack!VerifyRemoteWrite, Stack!ColdCheck, Stack!Settle, Stack!Done,
         Stack!Raise, RunStep
    <3>3. CASE Stack!VerifyDatabase \/ Stack!StopRedis \/ Stack!Load \/ Stack!Verdict \/ Stack!Interrupt
      BY <3>3 DEF Stack!VerifyDatabase, Stack!StopRedis, Stack!Load, Stack!Verdict, Stack!Interrupt, Stack!Done,
         Stack!Raise, RunStep
    <3>4. QED
      BY <1>6, <3>1, <3>2, <3>3
  <2>2. run'.id = run.id /\ run'.measured = run.measured
    <3>1. CASE Stack!ReadDataset
      BY <1>r, <3>1 DEF Stack!ReadDataset, Stack!Done, Stack!Raise, Runs
    <3>2. CASE Stack!ClearAuthCache \/ Stack!PrepareSeatMap \/ Stack!ClearSeatHolds \/ Stack!PrepareOrders
      BY <1>r, <3>2 DEF Stack!ClearAuthCache, Stack!PrepareSeatMap, Stack!ClearSeatHolds, Stack!PrepareOrders,
         Stack!Done, Stack!Raise, Runs
    <3>3. CASE Stack!VerifyRemoteWrite \/ Stack!ColdCheck \/ Stack!Settle \/ Stack!VerifyDatabase
      BY <1>r, <3>3 DEF Stack!VerifyRemoteWrite, Stack!ColdCheck, Stack!Settle, Stack!VerifyDatabase, Stack!Done,
         Stack!Raise, Runs
    <3>4. CASE Stack!StopRedis \/ Stack!Load \/ Stack!Verdict \/ Stack!Interrupt
      BY <1>r, <3>4 DEF Stack!StopRedis, Stack!Load, Stack!Verdict, Stack!Interrupt, Stack!Done, Stack!Raise, Runs
    <3>5. QED
      BY <1>6, <3>1, <3>2, <3>3, <3>4
  <2>3. pcStack' \in RunStep \cup UndoStep
    BY <1>p, <2>1 DEF UndoStep
  <2>4. QED
    BY <1>5, <2>1, <2>2, <2>3
<1>7. CASE Stack!OpenRun
  <2>1. CASE ~backend.up
    <3>1. /\ pcStack \in RunStep /\ UNCHANGED <<results, stats, plan, startedWhole, backend>>
          /\ run' = [run EXCEPT !.verdict = "failed"] /\ pcStack' \in UndoStep
      BY <1>7, <2>1 DEF Stack!OpenRun, Stack!Raise, RunStep, UndoStep
    <3>2. run'.id = run.id /\ run'.measured = run.measured
      BY <1>r, <3>1 DEF Runs
    <3>3. QED
      BY <1>5, <3>1, <3>2
  <2>2. CASE backend.up
    <3>1. pcStack = "health" /\ pcStack \in RunStep /\ run.id = 0
      BY <1>7 DEF Stack!OpenRun, RunStep, RunIsInHand
    <3>2. pcStack' \in RunStep \cup UndoStep
      BY <1>7, <1>p, <2>2, <3>1, DirectoryIsOpened
    <3>3. run.measured => stats' = {run'.id}
      BY <1>7, <2>2, <3>1, DirectoryIsOpened DEF EvidenceIsInHand
    <3>4. startedWhole => backend.config = Stack!DeclaredConfig
      BY <3>1 DEF EvidenceIsInHand
    <3>5. Stack!EvidenceIsOfItsRun'
      <4>1. \A i \in 1 .. Len(results') : i \in 1 .. Len(results) \/ i = run'.id
        BY <1>7, <2>2, DirectoryIsOpened DEF StackTypes
      <4>2. QED
        BY <1>7, <2>2, <4>1, DirectoryIsOpened DEF EvidenceIsInHand, Stack!EvidenceIsOfItsRun, Stack!Passed
    <3>6. QED
      BY <1>7, <2>2, <3>2, <3>3, <3>4, <3>5, DirectoryIsOpened DEF EvidenceIsInHand, Stack!DeclaredConfig,
         RunStep, UndoStep
  <2>3. QED
    BY <2>1, <2>2
<1>8. CASE Stack!ForceOutcome \/ Stack!RunCommandFails
  <2>1. /\ pcStack \in RunStep /\ UNCHANGED <<results, stats, plan, startedWhole>>
        /\ pcStack' \in {Stack!Following, "restoreBackend"}
        /\ run' \in {[run EXCEPT !.forced = TRUE], [run EXCEPT !.verdict = "failed"]}
        /\ backend' = backend \/ (pcStack = "force" /\ backend'.config = "base")
    <3>1. CASE Stack!ForceOutcome
      BY <3>1 DEF Stack!ForceOutcome, Stack!Done, Stack!Base, RunStep
    <3>2. CASE Stack!RunCommandFails
      BY <3>2, RunStepsAreSteps DEF Stack!RunCommandFails, Stack!Raise
    <3>3. QED
      BY <1>8, <3>1, <3>2
  <2>2. run'.id = run.id /\ run'.measured = run.measured
    BY <1>r, <2>1 DEF Runs
  <2>3. pcStack = "force" => ~plan.experiment
    <3>1. pcStack = "force" => run.kind \in Stack!Kinds /\ "force" \in Path(run.kind) /\ pcStack # "idle"
      BY <2>1 DEF RunIsInHand
    <3>2. pcStack = "force" => run.kind = "payment"
      BY <3>1 DEF Path
    <3>3. QED
      BY <1>p, <3>1, <3>2
  <2>4. pcStack' \in RunStep \cup UndoStep
    BY <1>p, <2>1 DEF UndoStep
  <2>5. QED
    BY <1>5, <2>1, <2>2, <2>3, <2>4
<1>9. CASE Stack!RestoreBackend \/ Stack!RestoreRedis
  <2>1. /\ pcStack \in UndoStep /\ pcStack' \in UndoStep /\ UNCHANGED <<results, stats, plan, startedWhole>>
        /\ run' \in {run, [run EXCEPT !.verdict = "failed"], [run EXCEPT !.verdict = run.verdict]}
        /\ backend' = backend \/ (run.forced /\ backend'.config = "base")
    <3>1. CASE Stack!RestoreBackend
      BY <3>1 DEF Stack!RestoreBackend, Stack!VerdictAfter, Stack!Base, UndoStep
    <3>2. CASE Stack!RestoreRedis
      BY <3>2 DEF Stack!RestoreRedis, Stack!VerdictAfter, UndoStep
    <3>3. QED
      BY <1>9, <3>1, <3>2
  <2>2. run'.id = run.id /\ run'.measured = run.measured
    BY <1>r, <2>1 DEF Runs
  <2>3. run.forced => ~plan.experiment
    BY <1>p, <2>1 DEF RunIsInHand, UndoStep
  <2>4. QED
    BY <1>5, <2>1, <2>2, <2>3
<1>10. CASE Stack!FinishRun
  <2>1. /\ pcStack = "manifest" /\ run' = Stack!NoRun /\ UNCHANGED <<backend, stats, plan, startedWhole>>
        /\ \/ pcStack' \in {"idle", "revert", "warm"}
           \/ pcStack' = "collect" /\ run.measured /\ run.verdict = "passed"
    BY <1>10 DEF Stack!FinishRun, Stack!Ended
  <2>2. run'.id = 0 /\ ~run'.measured
    BY <2>1 DEF Stack!NoRun
  <2>3. Stack!EvidenceIsOfItsRun'
    <3>1. CASE run.id = 0
      BY <1>10, <3>1 DEF Stack!FinishRun, EvidenceIsInHand, Stack!EvidenceIsOfItsRun, Stack!Passed
    <3>2. CASE run.id # 0
      <4>1. ASSUME NEW i \in 1 .. Len(results), results'[i].evidence # {}
            PROVE  /\ results'[i].manifest = "passed" /\ results'[i].evidence = {i}
                   /\ results'[i].ground => results'[i].claims = results'[i].config
        <5>1. i # run.id
          BY <1>10, <3>2, <4>1, ManifestIsWritten DEF RunIsInHand
        <5>2. results'[i] = results[i]
          BY <1>10, <3>2, <5>1, ManifestIsWritten
        <5>3. QED
          BY <4>1, <5>2 DEF EvidenceIsInHand, Stack!EvidenceIsOfItsRun, Stack!Passed
      <4>2. QED
        BY <1>10, <3>2, <4>1, ManifestIsWritten DEF Stack!EvidenceIsOfItsRun, Stack!Passed
    <3>3. QED
      BY <3>1, <3>2
  <2>4. startedWhole => backend.config = Stack!DeclaredConfig
    BY <2>1 DEF EvidenceIsInHand
  <2>5. CASE pcStack' \in {"idle", "revert", "warm"}
    BY <1>1, <2>1, <2>2, <2>3, <2>4, <2>5 DEF Stack!DeclaredConfig, PlanCommand
  <2>6. CASE pcStack' = "collect" /\ run.measured /\ run.verdict = "passed"
    <3>1. run.id # 0 /\ run.id = Len(results)
      BY <2>1, <2>6 DEF RunIsInHand, UndoStep
    <3>2. stats = {run.id}
      BY <2>1, <2>6, <3>1 DEF EvidenceIsInHand, UndoStep
    <3>3. results[run.id].ground => results[run.id].config = Stack!DeclaredConfig
      BY <3>1 DEF EvidenceIsInHand, RunIsInHand
    <3>4. /\ Len(results') > 0 /\ stats' = {Len(results')} /\ results'[Len(results')].manifest = "passed"
          /\ results'[Len(results')].ground => results'[Len(results')].config = Stack!DeclaredConfig'
      <4>1. run.id \in 1 .. Len(results)
        BY <3>1 DEF StackTypes
      <4>2. QED
        BY <1>10, <2>1, <2>6, <3>1, <3>2, <3>3, <4>1, ManifestIsWritten DEF Stack!DeclaredConfig
    <3>5. QED
      BY <2>1, <2>2, <2>3, <2>4, <2>6, <3>4 DEF EvidenceIsInHand, Stack!DeclaredConfig, Stack!Passed, RunStep, UndoStep
  <2>7. QED
    BY <2>1, <2>5, <2>6
<1>11. CASE Stack!PaymentsSettle \/ Stack!AtRest \/ UNCHANGED Stack!vars
  <2>1. UNCHANGED <<backend, stats, run, plan, results, startedWhole, pcStack>>
    BY <1>11 DEF Stack!PaymentsSettle, Stack!AtRest, Stack!vars
  <2>2. QED
    BY <2>1 DEF EvidenceIsInHand, Stack!DeclaredConfig, Stack!EvidenceIsOfItsRun, Stack!Passed
<1>12. CASE Stack!Crash
  <2>1. pcStack' = "idle" /\ run'.id = 0 /\ results' = results
    BY <1>12 DEF Stack!Crash, Stack!NoRun
  <2>2. QED
    BY <1>1, <2>1 DEF EvidenceIsInHand, Stack!EvidenceIsOfItsRun, Stack!Passed
<1>13. QED
  BY <1>2, <1>3, <1>4, <1>6, <1>7, <1>8, <1>9, <1>10, <1>11, <1>12 DEF Stack!Next, Stack!PlanNext, Stack!RunNext

\* After a reset, the files name the generation that is in PostgreSQL, and a run has read them.
Written == db.gen = newest /\ files["sessions"] = newest /\ files["dataset"] = newest

FilesAreOfTheReset ==
    pcStack # "idle" /\ Stack!Entry.reset # "none" =>
        /\ pcStack \in {"validate", "sessions", "seats", "dataset"} => db.gen = newest
        /\ pcStack \in {"seats", "dataset"} => files["sessions"] = newest
        /\ pcStack \in {"smoke", "freshVerify", "clear", "warm", "statsReset", "redisBefore"} \cup RunStep \cup UndoStep
              => Written
        /\ pcStack \in RunStep \ {"read"} => run.sessions = newest /\ run.dataset = newest

LEMMA FilesStayOfTheReset ==
    StackTypes /\ RunIsInHand /\ FilesAreOfTheReset /\ [Stack!Next]_(Stack!vars) => FilesAreOfTheReset'
<1> SUFFICES ASSUME StackTypes, RunIsInHand, FilesAreOfTheReset, [Stack!Next]_(Stack!vars)
             PROVE  FilesAreOfTheReset'
  OBVIOUS
<1> USE DEF Stack!stack, Stack!tool, Stack!bounds
\* Where nothing is said of the files.
<1>1. ASSUME pcStack' \in {"idle", "configure", "revert", "reset", "clearFiles", "down", "up", "observe",
                           "replaceRows", "collect"}
      PROVE  FilesAreOfTheReset'
  BY <1>1 DEF FilesAreOfTheReset, RunStep, UndoStep
<1>2. ASSUME UNCHANGED <<files, newest, plan, pos>>, db'.gen = db.gen,
             pcStack \in {"smoke", "freshVerify", "clear", "warm", "statsReset", "redisBefore"} \cup RunStep \cup UndoStep,
             pcStack' \in {"smoke", "freshVerify", "clear", "warm", "statsReset", "redisBefore"} \cup RunStep \cup UndoStep,
             pcStack' \in RunStep \ {"read"} => /\ pcStack \in RunStep \ {"read"}
                                                /\ run'.sessions = run.sessions /\ run'.dataset = run.dataset
      PROVE  FilesAreOfTheReset'
  <2>1. /\ pcStack \notin {"idle", "validate", "sessions", "seats", "dataset"}
        /\ pcStack' \notin {"idle", "validate", "sessions", "seats", "dataset"}
    BY <1>2 DEF RunStep, UndoStep
  <2>2. Stack!Entry' = Stack!Entry
    BY <1>2 DEF Stack!Entry
  <2>3. Written' <=> Written
    BY <1>2 DEF Written
  <2>4. QED
    BY <1>2, <2>1, <2>2, <2>3 DEF FilesAreOfTheReset
<1>f. "sessions" \in Stack!FileNames /\ "dataset" \in Stack!FileNames /\ files \in [Stack!FileNames -> Nat]
  BY DEF Stack!FileNames, StackTypes
<1>3. CASE Stack!StartPlan \/ Stack!PlanCommandFails \/ Stack!Configure \/ Stack!Revert \/ Stack!RecreationFails
           \/ Stack!ClearGenerated \/ Stack!DownVolumes \/ Stack!UpBuild \/ Stack!Observe \/ Stack!Collect
  BY <1>1, <1>3 DEF Stack!StartPlan, Stack!PlanCommandFails, Stack!Configure, Stack!Revert, Stack!RecreationFails,
     Stack!ClearGenerated, Stack!DownVolumes, Stack!UpBuild, Stack!Observe, Stack!Collect, Stack!Ended
<1>4. CASE Stack!Reset
  <2>1. CASE Stack!Entry.reset = "none"
    <3>1. Stack!Entry' = Stack!Entry
      BY <1>4 DEF Stack!Reset, Stack!Entry
    <3>2. QED
      BY <2>1, <3>1 DEF FilesAreOfTheReset
  <2>2. CASE Stack!Entry.reset # "none"
    BY <1>1, <1>4, <2>2, EntryIsPlanned DEF Stack!Reset, Stack!Resets
  <2>3. QED
    BY <2>1, <2>2
<1>5. CASE Stack!ReplaceRows
  <2>1. pcStack' = "validate" /\ newest' = newest + 1 /\ db'.gen = newest + 1
    BY <1>5 DEF Stack!ReplaceRows, Stack!Free
  <2>2. QED
    BY <2>1 DEF FilesAreOfTheReset, RunStep, UndoStep
<1>6. CASE Stack!ValidateDatabase
  <2>1. pcStack = "validate" /\ pcStack' = "sessions" /\ UNCHANGED <<db, newest, plan, pos>>
    BY <1>6 DEF Stack!ValidateDatabase, Stack!FilesInOrder
  <2>2. QED
    BY <2>1 DEF FilesAreOfTheReset, RunStep, UndoStep, Stack!Entry
<1>7. CASE Stack!WriteFile
  <2>1. UNCHANGED <<db, newest, plan, pos>>
    BY <1>7 DEF Stack!WriteFile
  <2>2. PICK i \in 1 .. 3 : /\ pcStack = Stack!FilesInOrder[i]
                            /\ files' = [files EXCEPT ![pcStack] = newest]
                            /\ pcStack' = IF i < 3 THEN Stack!FilesInOrder[i + 1] ELSE "smoke"
    BY <1>7 DEF Stack!WriteFile
  <2>3. CASE pcStack = "sessions"
    <3>1. pcStack' = "seats" /\ files'["sessions"] = newest
      BY <1>f, <2>2, <2>3 DEF Stack!FilesInOrder
    <3>2. QED
      BY <2>1, <2>3, <3>1 DEF FilesAreOfTheReset, RunStep, UndoStep, Stack!Entry
  <2>4. CASE pcStack = "seats"
    <3>1. pcStack' = "dataset" /\ files'["sessions"] = files["sessions"]
      BY <1>f, <2>2, <2>4 DEF Stack!FilesInOrder
    <3>2. QED
      BY <2>1, <2>4, <3>1 DEF FilesAreOfTheReset, RunStep, UndoStep, Stack!Entry
  <2>5. CASE pcStack = "dataset"
    <3>1. pcStack' = "smoke" /\ files'["sessions"] = files["sessions"] /\ files'["dataset"] = newest
      BY <1>f, <2>2, <2>5 DEF Stack!FilesInOrder
    <3>2. QED
      BY <2>1, <2>5, <3>1 DEF FilesAreOfTheReset, RunStep, UndoStep, Stack!Entry, Written
  <2>6. QED
    BY <2>2, <2>3, <2>4, <2>5 DEF Stack!FilesInOrder
<1>8. CASE Stack!AuthSmoke \/ Stack!FreshVerify \/ Stack!ClearCaches \/ Stack!Warmup \/ Stack!ResetStatistics
           \/ Stack!Measure
  <2>1. /\ UNCHANGED <<files, newest, plan, pos, db>>
        /\ pcStack \in {"smoke", "freshVerify", "clear", "warm", "statsReset", "redisBefore"}
        /\ pcStack' \in {"freshVerify", "clear", "warm", "statsReset", "redisBefore", "read", "idle", "revert"}
    <3>1. CASE Stack!AuthSmoke \/ Stack!FreshVerify \/ Stack!ClearCaches
      BY <3>1 DEF Stack!AuthSmoke, Stack!FreshVerify, Stack!ClearCaches, Stack!Ended
    <3>2. CASE Stack!Warmup \/ Stack!ResetStatistics \/ Stack!Measure
      BY <3>2 DEF Stack!Warmup, Stack!ResetStatistics, Stack!Measure, Stack!Ended
    <3>3. QED
      BY <1>8, <3>1, <3>2
  <2>2. QED
    BY <1>1, <1>2, <2>1 DEF RunStep
<1>r. run \in Runs /\ db \in Rows
  BY DEF StackTypes
<1>9. CASE Stack!ReadDataset
  <2>1. pcStack = "read" /\ UNCHANGED <<files, newest, plan, pos, db>>
    BY <1>9 DEF Stack!ReadDataset
  <2>2. CASE Stack!Raise
    BY <1>2, <2>1, <2>2 DEF Stack!Raise, RunStep, UndoStep
  <2>3. CASE ~Stack!Raise
    <3>1. pcStack' = Stack!Following /\ run' = [run EXCEPT !.sessions = files["sessions"], !.dataset = files["dataset"]]
      BY <1>9, <2>3 DEF Stack!ReadDataset, Stack!Done
    <3>2. run'.sessions = files["sessions"] /\ run'.dataset = files["dataset"]
      BY <1>r, <3>1 DEF Runs
    <3>3. pcStack' \in RunStep /\ pcStack \in RunStep
      <4>1. pcStack \in RunStep
        BY <2>1 DEF RunStep
      <4>2. QED
        BY <2>1, <3>1, <4>1, WhatFollows
    <3>4. Stack!Entry.reset # "none" => Written
      BY <2>1, <3>3 DEF FilesAreOfTheReset
    <3>5. Stack!Entry' = Stack!Entry /\ (Written' <=> Written)
      BY <2>1 DEF Stack!Entry, Written
    <3>6. pcStack' \notin {"validate", "sessions", "seats", "dataset"}
      BY <3>3 DEF RunStep
    <3>7. QED
      BY <2>1, <3>2, <3>4, <3>5, <3>6 DEF FilesAreOfTheReset, Written
  <2>4. QED
    BY <2>2, <2>3
<1>10. CASE Stack!OpenRun
  <2>1. pcStack = "health" /\ UNCHANGED <<files, newest, plan, pos, db>> /\ pcStack \in RunStep
    BY <1>10 DEF Stack!OpenRun, RunStep
  <2>2. CASE ~backend.up
    BY <1>2, <1>10, <2>1, <2>2 DEF Stack!OpenRun, Stack!Raise, UndoStep, RunStep
  <2>3. CASE backend.up
    <3>1. pcStack' \in RunStep \cup UndoStep
      BY <1>10, <2>1, <2>3, DirectoryIsOpened, WhatFollows DEF UndoStep
    <3>2. run'.sessions = run.sessions /\ run'.dataset = run.dataset
      BY <1>10, <2>3, DirectoryIsOpened
    <3>3. QED
      BY <1>2, <2>1, <3>1, <3>2 DEF RunStep
  <2>4. QED
    BY <2>2, <2>3
<1>11. CASE Stack!ClearAuthCache \/ Stack!StopRedis \/ Stack!PrepareSeatMap \/ Stack!ClearSeatHolds
            \/ Stack!ForceOutcome \/ Stack!PrepareOrders \/ Stack!Load \/ Stack!VerifyRemoteWrite
            \/ Stack!ColdCheck \/ Stack!Settle \/ Stack!VerifyDatabase \/ Stack!Verdict
            \/ Stack!RunCommandFails \/ Stack!Interrupt
  <2>1. /\ pcStack \in RunStep \ {"read"} /\ UNCHANGED <<files, newest, plan, pos>>
        /\ pcStack' = "restoreBackend" \/ pcStack' = Stack!Following
    <3>1. CASE Stack!ClearAuthCache \/ Stack!StopRedis \/ Stack!PrepareSeatMap \/ Stack!ClearSeatHolds
      BY <3>1 DEF Stack!ClearAuthCache, Stack!StopRedis, Stack!PrepareSeatMap, Stack!ClearSeatHolds, Stack!Done,
         Stack!Raise, RunStep
    <3>2. CASE Stack!ForceOutcome \/ Stack!PrepareOrders \/ Stack!Load \/ Stack!VerifyRemoteWrite
      BY <3>2 DEF Stack!ForceOutcome, Stack!PrepareOrders, Stack!Load, Stack!VerifyRemoteWrite, Stack!Done,
         Stack!Raise, RunStep
    <3>3. CASE Stack!ColdCheck \/ Stack!Settle \/ Stack!VerifyDatabase \/ Stack!Verdict \/ Stack!Interrupt
      BY <3>3 DEF Stack!ColdCheck, Stack!Settle, Stack!VerifyDatabase, Stack!Verdict, Stack!Interrupt, Stack!Done,
         Stack!Raise, RunStep
    <3>4. CASE Stack!RunCommandFails
      BY <3>4, RunStepsAreSteps DEF Stack!RunCommandFails, Stack!Raise
    <3>5. QED
      BY <1>11, <3>1, <3>2, <3>3, <3>4
  <2>2. db'.gen = db.gen
    <3>1. CASE Stack!PrepareOrders
      BY <1>r, <3>1 DEF Stack!PrepareOrders, Rows
    <3>2. CASE Stack!Load
      <4>1. CASE run.kind \in Stack!Transactional
        BY <1>r, <3>2, <4>1 DEF Stack!Load, Rows
      <4>2. CASE run.kind \notin Stack!Transactional
        BY <3>2, <4>2 DEF Stack!Load
      <4>3. QED
        BY <4>1, <4>2
    <3>3. CASE Stack!RunCommandFails
      BY <1>r, <3>3 DEF Stack!RunCommandFails, Rows
    <3>4. CASE Stack!ClearAuthCache \/ Stack!StopRedis \/ Stack!PrepareSeatMap \/ Stack!ClearSeatHolds
               \/ Stack!ForceOutcome \/ Stack!VerifyRemoteWrite
      BY <3>4 DEF Stack!ClearAuthCache, Stack!StopRedis, Stack!PrepareSeatMap, Stack!ClearSeatHolds,
         Stack!ForceOutcome, Stack!VerifyRemoteWrite
    <3>5. CASE Stack!ColdCheck \/ Stack!Settle \/ Stack!VerifyDatabase \/ Stack!Verdict \/ Stack!Interrupt
      BY <3>5 DEF Stack!ColdCheck, Stack!Settle, Stack!VerifyDatabase, Stack!Verdict, Stack!Interrupt
    <3>6. QED
      BY <1>11, <3>1, <3>2, <3>3, <3>4, <3>5
  <2>3. run'.sessions = run.sessions /\ run'.dataset = run.dataset
    <3>1. CASE Stack!ClearAuthCache \/ Stack!StopRedis \/ Stack!PrepareSeatMap \/ Stack!ClearSeatHolds
      BY <1>r, <3>1 DEF Stack!ClearAuthCache, Stack!StopRedis, Stack!PrepareSeatMap, Stack!ClearSeatHolds,
         Stack!Raise, Runs
    <3>2. CASE Stack!ForceOutcome \/ Stack!PrepareOrders \/ Stack!Load \/ Stack!VerifyRemoteWrite
      BY <1>r, <3>2 DEF Stack!ForceOutcome, Stack!PrepareOrders, Stack!Load, Stack!VerifyRemoteWrite, Stack!Raise, Runs
    <3>3. CASE Stack!ColdCheck \/ Stack!Settle \/ Stack!VerifyDatabase
      BY <1>r, <3>3 DEF Stack!ColdCheck, Stack!Settle, Stack!VerifyDatabase, Stack!Raise, Runs
    <3>4. CASE Stack!Verdict \/ Stack!Interrupt \/ Stack!RunCommandFails
      BY <1>r, <3>4 DEF Stack!Verdict, Stack!Interrupt, Stack!RunCommandFails, Stack!Raise, Runs
    <3>5. QED
      BY <1>11, <3>1, <3>2, <3>3, <3>4
  <2>4. pcStack' \in RunStep \cup UndoStep
    BY <2>1, WhatFollows DEF UndoStep
  <2>5. QED
    BY <1>2, <2>1, <2>2, <2>3, <2>4
<1>12. CASE Stack!RestoreBackend \/ Stack!RestoreRedis
  <2>1. /\ UNCHANGED <<files, newest, plan, pos, db>> /\ pcStack \in UndoStep /\ pcStack' \in UndoStep
    BY <1>12 DEF Stack!RestoreBackend, Stack!RestoreRedis, UndoStep
  <2>2. pcStack' \notin RunStep
    BY <2>1 DEF UndoStep, RunStep
  <2>3. QED
    BY <1>2, <2>1, <2>2
<1>13. CASE Stack!FinishRun
  <2>1. /\ UNCHANGED <<files, newest, plan, pos, db>> /\ pcStack \in UndoStep
        /\ pcStack' \in {"idle", "revert", "collect", "warm"}
    BY <1>13 DEF Stack!FinishRun, Stack!Ended, UndoStep
  <2>2. QED
    BY <1>1, <1>2, <2>1 DEF RunStep
<1>14. CASE Stack!PaymentsSettle
  <2>1. UNCHANGED <<files, newest, plan, pos, pcStack, run>> /\ db'.gen = db.gen
    BY <1>r, <1>14 DEF Stack!PaymentsSettle, Rows
  <2>2. QED
    BY <2>1 DEF FilesAreOfTheReset, Written, Stack!Entry
<1>15. CASE Stack!Crash
  BY <1>1, <1>15 DEF Stack!Crash
<1>16. CASE UNCHANGED Stack!vars \/ Stack!AtRest
  <2>1. UNCHANGED Stack!vars
    BY <1>16 DEF Stack!AtRest
  <2>2. QED
    BY <2>1 DEF Stack!vars, FilesAreOfTheReset, Written, Stack!Entry
<1>17. QED
  BY <1>3, <1>4, <1>5, <1>6, <1>7, <1>8, <1>9, <1>10, <1>11, <1>12, <1>13, <1>14, <1>15, <1>16
     DEF Stack!Next, Stack!PlanNext, Stack!RunNext

\* The inductive invariant of the plans and their runs.
StackInv == StackTypes /\ RunIsInHand /\ ChecksAreBehind /\ ChangesAreKnown /\ EvidenceIsInHand /\ FilesAreOfTheReset

LEMMA StackStarts == Stack!Init => StackInv
<1> SUFFICES ASSUME Stack!Init PROVE StackInv
  OBVIOUS
<1>1. /\ pcStack = "idle" /\ run.id = 0 /\ results = <<>> /\ startedWhole = TRUE
      /\ Len(results) = 0
  BY DEF Stack!Init, Stack!NoRun
<1>2. ChecksAreBehind
  BY <1>1 DEF ChecksAreBehind, Stack!PassedRunIsTrustworthy, UndoStep
<1>3. ChangesAreKnown
  BY <1>1 DEF ChangesAreKnown, Began, Stack!PassedRunRestoresTheStack, PlanCommand
<1>4. EvidenceIsInHand
  BY <1>1 DEF EvidenceIsInHand, Stack!EvidenceIsOfItsRun, RunStep, UndoStep
<1>5. FilesAreOfTheReset
  BY <1>1 DEF FilesAreOfTheReset
<1>6. QED
  BY <1>2, <1>3, <1>4, <1>5, StackBegins DEF StackInv

LEMMA StackKeeps == StackInv /\ [Stack!Next]_(Stack!vars) => StackInv'
BY StackKeepsRuns, ChecksStayBehind, ChangesStayKnown, EvidenceStaysInHand, FilesStayOfTheReset DEF StackInv

\* A run loads the stack that its workload and plan declare.
LEMMA DeclaredStackIsLoaded == StackInv => Stack!MeasuredOnDeclaredStack
<1> SUFFICES ASSUME StackInv, pcStack = "load", startedWhole
             PROVE  /\ backend.up /\ backend.config = Stack!DeclaredConfig
                    /\ backend.forced <=> run.kind = "payment"
                    /\ redis <=> run.kind # "down"
                    /\ run.kind = "map" => holds = "fixture"
                    /\ Stack!Entry.reset # "none" => run.sessions = db.gen /\ run.dataset = db.gen
  BY DEF Stack!MeasuredOnDeclaredStack
<1> USE DEF StackInv
<1>1. pcStack \in RunStep \ {"read", "health"}
  BY DEF RunStep
<1>2. Began
  BY <1>1 DEF RunIsInHand, ChangesAreKnown, Began
<1>3. AsRunChangedIt
  BY <1>1, <1>2 DEF ChangesAreKnown
<1>4. (run.forced <=> run.kind = "payment") /\ (run.stopped <=> run.kind = "down")
  BY DEF RunIsInHand, ChangesAreKnown
<1>5. /\ backend.up /\ (backend.forced <=> run.kind = "payment") /\ (redis <=> run.kind # "down")
      /\ run.kind = "map" => holds = "fixture"
  BY <1>3, <1>4 DEF AsRunChangedIt, ChangesAreKnown
<1>6. backend.config = Stack!DeclaredConfig
  BY DEF EvidenceIsInHand
<1>7. Stack!Entry.reset # "none" => run.sessions = db.gen /\ run.dataset = db.gen
  BY <1>1 DEF FilesAreOfTheReset, Written
<1>8. QED
  BY <1>5, <1>6, <1>7

\* The measured runs on a stack pass, leave the stack, load it and are documented as they should.
LEMMA StackRunsAreTrue ==
    ToolsSpec => [](/\ Stack!PassedRunIsTrustworthy /\ Stack!PassedRunRestoresTheStack
                    /\ Stack!MeasuredOnDeclaredStack /\ Stack!EvidenceIsOfItsRun)
<1>1. ToolsInit => StackInv
  BY StackStarts DEF ToolsInit
<1>2. StackInv /\ [ToolsNext]_everything => StackInv'
  <2>1. ToolsNext => Stack!Next \/ UNCHANGED stackVars
    BY DEF ToolsNext, OthersOfRun, OthersOfSeatMap, OthersOfQualify, OthersOfRelease, OthersOfInputs, OthersOfSmoke,
       OthersOfPools, OthersOfActivity, OthersOfProtocol, OthersOfAccount, OthersOfFixture, OthersOfStartup
  <2>2. UNCHANGED everything => UNCHANGED stackVars
    BY DEF everything
  <2>3. UNCHANGED stackVars => UNCHANGED Stack!vars
    BY DEF stackVars, Stack!vars, Stack!stack, Stack!tool, Stack!bounds
  <2>4. QED
    BY <2>1, <2>2, <2>3, StackKeeps
<1>3. StackInv => /\ Stack!PassedRunIsTrustworthy /\ Stack!PassedRunRestoresTheStack
                  /\ Stack!MeasuredOnDeclaredStack /\ Stack!EvidenceIsOfItsRun
  BY DeclaredStackIsLoaded DEF StackInv, ChecksAreBehind, ChangesAreKnown, EvidenceIsInHand
<1>4. QED
  BY <1>1, <1>2, <1>3, PTL DEF ToolsSpec

-----------------------------------------------------------------------------
(* What the tools leave behind.                                            *)

\* While no command of the failure regression broke off: the usual backend is down only where
\* run_failure has stopped it, and the other one is up only until its finally has stopped it.
BackendsTakeTurns ==
    ~broken =>
        /\ forced = "up" => pcFixture = "stop forced"
        /\ pcFixture \notin {"force", "stop forced", "start"} => backendFixture = "up"
        /\ pcFixture \in {"force", "stop forced"} => backendFixture # "up"

LEMMA BackendsKeepTheirTurns ==
    BackendsTakeTurns /\ [Fixture!Next]_(Fixture!vars) => BackendsTakeTurns'
<1> SUFFICES ASSUME BackendsTakeTurns, [Fixture!Next]_(Fixture!vars) PROVE BackendsTakeTurns'
  OBVIOUS
<1> USE DEF BackendsTakeTurns, Fixture!place, Fixture!stack, Fixture!Raise, Fixture!Return, Fixture!Goto
\* The integration tests.
<1>1. CASE Fixture!Begin \/ Fixture!Traffic \/ UNCHANGED Fixture!vars
  BY <1>1 DEF Fixture!Begin, Fixture!Traffic, Fixture!vars
<1>2. CASE Fixture!Reset
  BY <1>2 DEF Fixture!Reset
<1>3. CASE Fixture!NextModule \/ Fixture!NextTest \/ Fixture!ModuleEnds \/ Fixture!SuiteEnds
  <2>1. /\ UNCHANGED <<forced, backendFixture, broken>>
        /\ pcFixture \in {"module", "test"} /\ pcFixture' \in {"module", "test", "off"}
    BY <1>3 DEF Fixture!NextModule, Fixture!NextTest, Fixture!ModuleEnds, Fixture!SuiteEnds
  <2>2. QED
    BY <2>1
<1>4. CASE Fixture!Ask \/ Fixture!AskFails \/ Fixture!TestFails
  <2>1. UNCHANGED <<forced, backendFixture, broken, pcFixture>>
    BY <1>4 DEF Fixture!Ask, Fixture!AskFails, Fixture!TestFails
  <2>2. QED
    BY <2>1
\* run_failure.
<1>5. CASE Fixture!StopBackend
  BY <1>5 DEF Fixture!StopBackend
<1>6. CASE Fixture!Force
  BY <1>6 DEF Fixture!Force
<1>7. CASE Fixture!StopForced
  BY <1>7 DEF Fixture!StopForced
<1>8. CASE Fixture!StartBackend \/ Fixture!Killed
  BY <1>8 DEF Fixture!StartBackend, Fixture!Killed
<1>9. QED
  BY <1>1, <1>2, <1>3, <1>4, <1>5, <1>6, <1>7, <1>8 DEF Fixture!Next, Fixture!Main, Fixture!Failure

\* While no command broke off, one backend works on the database at a time, and the usual one is
\* back when a command has returned.
LEMMA OneBackendWorks == ToolsSpec => []Fixture!OneBackend
<1>1. ToolsInit => BackendsTakeTurns
  BY DEF ToolsInit, Fixture!Init, BackendsTakeTurns
<1>2. BackendsTakeTurns /\ [ToolsNext]_everything => BackendsTakeTurns'
  BY BackendsKeepTheirTurns, FixtureSteps
<1>3. BackendsTakeTurns => Fixture!OneBackend
  BY DEF BackendsTakeTurns, Fixture!OneBackend
<1>4. QED
  BY <1>1, <1>2, <1>3, PTL DEF ToolsSpec

\* No generator runs on beyond its tool's loop but that of a run that was interrupted, or one
\* that docker did not stop.
LEMMA GeneratorsStop ==
    SeatMapInv /\ SeatMap!LoadStopsWithTheTool /\ [SeatMap!Next]_(SeatMap!vars)
        => SeatMap!LoadStopsWithTheTool'
<1> SUFFICES ASSUME SeatMapInv, SeatMap!LoadStopsWithTheTool, [SeatMap!Next]_(SeatMap!vars),
                    NEW g \in SeatMap!Runs,
                    generator'[g] \in {"starting", "running"}, g \notin abandoned'
             PROVE  g = runSeatMap' /\ pcSeatMap' = "loop"
  BY DEF SeatMap!LoadStopsWithTheTool, SeatMap!Alive
<1>0. MaxRuns \in Nat
  BY InstancesAreValid DEF SeatMap!ConstantsAssumption
<1>t. /\ generator \in [SeatMap!Runs -> {"none", "starting", "running", "gone"}]
      /\ pcSeatMap # "idle" => runSeatMap \in SeatMap!Runs
  BY <1>0 DEF SeatMapInv, SeatMapTypes, RunIsKnown, SeatMap!Runs
<1>w. SeatMap!Alive(g) /\ g \notin abandoned => g = runSeatMap /\ pcSeatMap = "loop"
  BY DEF SeatMap!LoadStopsWithTheTool
<1> USE DEF SeatMap!process, SeatMap!load, SeatMap!backend, SeatMap!Alive
\* Where the loop raises, its generator is stopped, or docker did not stop it; before and after
\* the loop there is none to stop.
<1>1. ASSUME SeatMap!Raise, pcSeatMap = "loop" => tool # "diagnose", pcSeatMap # "idle" PROVE FALSE
  <2>1. CASE SeatMap!Stopped
    <3>1. g # runSeatMap /\ generator'[g] = generator[g] /\ g \notin abandoned
      BY <1>1, <1>t, <2>1 DEF SeatMap!Stopped
    <3>2. QED
      BY <1>w, <3>1
  <2>2. CASE SeatMap!NotStopped
    BY <1>w, <2>2 DEF SeatMap!NotStopped
  <2>3. CASE UNCHANGED <<generator, trouble, abandoned>> /\ ~(tool # "diagnose" /\ SeatMap!Alive(runSeatMap))
    BY <1>1, <1>w, <2>3
  <2>4. QED
    BY <1>1, <2>1, <2>2, <2>3 DEF SeatMap!Raise, SeatMap!StopGenerator
\* What leaves the tool alone starts no generator.
<1>2. ASSUME UNCHANGED <<pcSeatMap, runSeatMap, abandoned>>,
             SeatMap!Alive(g) \/ generator' = generator
      PROVE  g = runSeatMap' /\ pcSeatMap' = "loop"
  BY <1>2, <1>w
<1>3. CASE \E r \in SeatMap!Runs : SeatMap!Create(r) \/ SeatMap!Send(r) \/ SeatMap!Answer(r) \/ SeatMap!Exit(r)
  <2>1. PICK r \in SeatMap!Runs : SeatMap!Create(r) \/ SeatMap!Send(r) \/ SeatMap!Answer(r) \/ SeatMap!Exit(r)
    BY <1>3
  <2>2. UNCHANGED <<pcSeatMap, runSeatMap, abandoned>>
    BY <2>1 DEF SeatMap!Create, SeatMap!Send, SeatMap!Answer, SeatMap!Exit
  <2>3. SeatMap!Alive(g) \/ generator' = generator
    BY <2>1, <1>t DEF SeatMap!Create, SeatMap!Send, SeatMap!Answer, SeatMap!Exit
  <2>4. QED
    BY <1>2, <2>2, <2>3
<1>4. CASE SeatMap!Expire \/ SeatMap!Scrape \/ SeatMap!Crash \/ SeatMap!Restart \/ SeatMap!Deadline
           \/ UNCHANGED SeatMap!vars
  <2>1. UNCHANGED <<pcSeatMap, runSeatMap, abandoned, generator>>
    BY <1>4 DEF SeatMap!Expire, SeatMap!Scrape, SeatMap!Crash, SeatMap!Restart, SeatMap!Deadline, SeatMap!vars
  <2>2. QED
    BY <1>2, <2>1
\* The steps of the tool outside its loop, where no generator is alive but the abandoned ones.
<1>5. ASSUME pcSeatMap # "loop", UNCHANGED <<generator, abandoned>> PROVE FALSE
  BY <1>5, <1>w
<1>6. CASE SeatMap!QuietPeriod \/ SeatMap!Judge
           \/ \E t_1 \in {"calibrate", "capacity", "diagnose"} : SeatMap!Begin(t_1)
  <2>1. pcSeatMap # "loop" /\ UNCHANGED <<generator, abandoned>>
    BY <1>6 DEF SeatMap!QuietPeriod, SeatMap!Judge, SeatMap!Begin, SeatMap!Goto
  <2>2. QED
    BY <1>5, <2>1
<1>7. CASE SeatMap!Prepare \/ SeatMap!Probe \/ SeatMap!Baseline \/ SeatMap!Before \/ SeatMap!After
  <2>1. pcSeatMap # "loop" /\ pcSeatMap # "idle" /\ (SeatMap!Raise \/ UNCHANGED <<generator, abandoned>>)
    BY <1>7 DEF SeatMap!Prepare, SeatMap!Probe, SeatMap!Baseline, SeatMap!Before, SeatMap!After, SeatMap!Goto
  <2>2. QED
    BY <1>1, <1>5, <2>1
\* The loop, and how it is reached and left.
<1>8. CASE SeatMap!Launch
  <2>1. pcSeatMap = "launch" /\ pcSeatMap' = "loop" /\ UNCHANGED <<runSeatMap, abandoned>>
        /\ generator' = [generator EXCEPT ![runSeatMap] = "starting"]
    BY <1>8 DEF SeatMap!Launch, SeatMap!Goto
  <2>2. g # runSeatMap => SeatMap!Alive(g)
    BY <2>1, <1>t
  <2>3. QED
    BY <1>w, <2>1, <2>2
<1>9. CASE SeatMap!Sample
  BY <1>1, <1>9 DEF SeatMap!Sample, SeatMap!Gives, SeatMap!Overdue, SeatMap!Unsafe
<1>10. CASE SeatMap!EarlyStop
  <2>1. CASE SeatMap!Raise
    BY <1>1, <1>10, <2>1 DEF SeatMap!EarlyStop
  <2>2. CASE SeatMap!Stopped /\ UNCHANGED <<pcSeatMap, runSeatMap>>
    <3>1. SeatMap!Alive(g) /\ UNCHANGED abandoned
      BY <1>10, <1>t, <2>2 DEF SeatMap!EarlyStop, SeatMap!Stopped
    <3>2. QED
      BY <1>2, <2>2, <3>1
  <2>3. QED
    BY <1>10, <2>1, <2>2 DEF SeatMap!EarlyStop
<1>11. CASE SeatMap!LoadEnded
  <2>1. ~SeatMap!Alive(runSeatMap) /\ UNCHANGED <<generator, abandoned>>
    BY <1>11 DEF SeatMap!LoadEnded, SeatMap!Goto
  <2>2. QED
    BY <1>w, <2>1
<1>12. CASE SeatMap!Interrupt
  <2>1. UNCHANGED generator /\ abandoned' = abandoned \union {runSeatMap}
    BY <1>12 DEF SeatMap!Interrupt
  <2>2. QED
    BY <1>w, <2>1
<1>13. QED
  BY <1>3, <1>4, <1>6, <1>7, <1>8, <1>9, <1>10, <1>11, <1>12 DEF SeatMap!Next, SeatMap!Main

LEMMA LoadStopsWithItsTool == ToolsSpec => []SeatMap!LoadStopsWithTheTool
<1> DEFINE Both == SeatMapInv /\ SeatMap!LoadStopsWithTheTool
<1>1. ToolsInit => Both
  <2>1. ASSUME ToolsInit PROVE SeatMap!LoadStopsWithTheTool
    BY <2>1 DEF ToolsInit, SeatMap!Init, SeatMap!LoadStopsWithTheTool, SeatMap!Alive
  <2>2. QED
    BY SeatMapBegins, <2>1 DEF ToolsInit
<1>2. Both /\ [ToolsNext]_everything => Both'
  BY SeatMapKeeps, GeneratorsStop, SeatMapSteps
<1>3. Both => SeatMap!LoadStopsWithTheTool
  OBVIOUS
<1> HIDE DEF Both
<1>4. QED
  BY <1>1, <1>2, <1>3, PTL DEF ToolsSpec

-----------------------------------------------------------------------------
(* The qualification points.                                               *)

PointNames == {"network", "stub", "k6"}
PointsAtWork == {"first", "second"}

QualifyTypes ==
    /\ pcQualify \in [PointsAtWork -> PointNames \cup {"watch", "logs", "remove", "done", "dead"}]
    /\ created \in [PointsAtWork -> SUBSET PointNames]
    /\ strayed \in [PointsAtWork -> BOOLEAN]
    /\ owner \in [PointNames -> PointsAtWork \cup {Qualify!Nobody}]

\* The list of a point has what it created and did not remove; it has all of that, unless a
\* command of the point failed or it was killed.
ListIsKnown ==
    \A p \in PointsAtWork :
        /\ \A n \in created[p] : owner[n] = p
        /\ ~strayed[p] => \A n \in PointNames : owner[n] = p => n \in created[p]
        /\ pcQualify[p] = "done" => created[p] = {}
        /\ pcQualify[p] = "dead" => strayed[p]

LEMMA LastIsCreated ==
    ASSUME QualifyTypes, NEW p \in PointsAtWork, created[p] # {}
    PROVE  Qualify!Last(p) \in created[p]
<1>1. created[p] \subseteq PointNames
  BY DEF QualifyTypes
<1>2. \E n \in created[p] : Qualify!After(n) \notin created[p]
  <2>1. CASE "k6" \in created[p]
    BY <1>1, <2>1 DEF PointNames, Qualify!After
  <2>2. CASE "k6" \notin created[p] /\ "stub" \in created[p]
    BY <2>2 DEF Qualify!After
  <2>3. CASE "k6" \notin created[p] /\ "stub" \notin created[p]
    BY <1>1, <2>3 DEF PointNames, Qualify!After
  <2>4. QED
    BY <2>1, <2>2, <2>3
<1>3. QED
  BY <1>2 DEF Qualify!Last

\* A step of a point keeps its list and removes nothing but what is in it.
LEMMA PointSteps ==
    ASSUME QualifyTypes, ListIsKnown, [Qualify!Next]_(Qualify!vars)
    PROVE  (QualifyTypes /\ ListIsKnown)' /\ Qualify!OwnersRemove
<1> USE DEF PointsAtWork, PointNames
<1>n. Qualify!Nobody \notin PointsAtWork
  BY InstancesAreValid DEF Qualify!ConstantsAssumption
\* Steps that leave the lists and the resources alone.
<1>1. ASSUME UNCHANGED <<created, owner, strayed>>,
             NEW p \in PointsAtWork, NEW next \in {"logs", "remove"},
             pcQualify' \in {pcQualify, [pcQualify EXCEPT ![p] = next]}
      PROVE  (QualifyTypes /\ ListIsKnown)' /\ Qualify!OwnersRemove
  <2>1. \A q \in PointsAtWork : pcQualify'[q] \in {pcQualify[q], "logs", "remove"}
    BY <1>1 DEF QualifyTypes
  <2>2. QualifyTypes'
    BY <1>1 DEF QualifyTypes
  <2>3. ListIsKnown'
    BY <1>1, <2>1 DEF ListIsKnown
  <2>4. Qualify!OwnersRemove
    BY <1>1 DEF Qualify!OwnersRemove
  <2>5. QED
    BY <2>2, <2>3, <2>4
<1>2. CASE Qualify!Exit \/ UNCHANGED Qualify!vars
  BY <1>1, <1>2 DEF Qualify!Exit, Qualify!vars, Qualify!point
<1>3. ASSUME NEW p \in PointsAtWork, Qualify!Deadline(p) \/ Qualify!Watch(p)
      PROVE  (QualifyTypes /\ ListIsKnown)' /\ Qualify!OwnersRemove
  BY <1>1, <1>3 DEF Qualify!Deadline, Qualify!Watch, Qualify!Ended, Qualify!Stopped, Qualify!Failed,
     Qualify!Raise, Qualify!Goto
\* A point that gives up in its end, or is killed.
<1>4. ASSUME NEW p \in PointsAtWork, Qualify!Abandon(p), UNCHANGED <<created, owner>>
      PROVE  (QualifyTypes /\ ListIsKnown)' /\ Qualify!OwnersRemove
  <2>1. /\ pcQualify' = [pcQualify EXCEPT ![p] = "dead"]
        /\ strayed' = [strayed EXCEPT ![p] = TRUE]
    BY <1>4 DEF Qualify!Abandon, Qualify!Goto
  <2>2. QualifyTypes'
    BY <1>4, <2>1 DEF QualifyTypes
  <2>3. strayed'[p] /\ \A q \in PointsAtWork : q # p => pcQualify'[q] = pcQualify[q] /\ strayed'[q] = strayed[q]
    BY <2>1 DEF QualifyTypes
  <2>4. pcQualify'[p] = "dead"
    BY <2>1 DEF QualifyTypes
  <2>5. ListIsKnown'
    BY <1>4, <2>3, <2>4 DEF ListIsKnown
  <2>6. Qualify!OwnersRemove
    BY <1>4 DEF Qualify!OwnersRemove
  <2>7. QED
    BY <2>2, <2>5, <2>6
<1>k. ASSUME NEW p \in PointsAtWork, Qualify!Killed(p)
      PROVE  (QualifyTypes /\ ListIsKnown)' /\ Qualify!OwnersRemove
  BY <1>4, <1>k DEF Qualify!Killed
<1>5. ASSUME NEW p \in PointsAtWork, Qualify!Logs(p)
      PROVE  (QualifyTypes /\ ListIsKnown)' /\ Qualify!OwnersRemove
  BY <1>1, <1>4, <1>5 DEF Qualify!Logs, Qualify!Goto
<1>6. ASSUME NEW p \in PointsAtWork, Qualify!Result(p)
      PROVE  (QualifyTypes /\ ListIsKnown)' /\ Qualify!OwnersRemove
  <2>1. /\ created[p] = {} /\ pcQualify' = [pcQualify EXCEPT ![p] = "done"]
        /\ UNCHANGED <<created, owner, strayed>>
    BY <1>6 DEF Qualify!Result, Qualify!Goto
  <2>2. QualifyTypes'
    BY <2>1 DEF QualifyTypes
  <2>3. \A q \in PointsAtWork : pcQualify'[q] = IF q = p THEN "done" ELSE pcQualify[q]
    BY <2>1 DEF QualifyTypes
  <2>4. ListIsKnown'
    BY <2>1, <2>3 DEF ListIsKnown
  <2>5. Qualify!OwnersRemove
    BY <2>1 DEF Qualify!OwnersRemove
  <2>6. QED
    BY <2>2, <2>4, <2>5
<1>7. ASSUME NEW p \in PointsAtWork, Qualify!Create(p)
      PROVE  (QualifyTypes /\ ListIsKnown)' /\ Qualify!OwnersRemove
  <2> DEFINE n == pcQualify[p]
  <2>0. n \in PointNames
    BY <1>7 DEF Qualify!Create, Qualify!Names
  <2>1. CASE Qualify!Raise(p) /\ UNCHANGED <<created, owner, strayed>>
    BY <1>1, <2>1 DEF Qualify!Raise, Qualify!Goto
  <2>2. CASE /\ owner[n] = Qualify!Nobody
             /\ Qualify!Exists(p, n)
             /\ created' = [created EXCEPT ![p] = @ \union {n}]
             /\ Qualify!Goto(p, Qualify!After(n))
             /\ UNCHANGED strayed
    <3>1. /\ owner' = [owner EXCEPT ![n] = p]
          /\ pcQualify' = [pcQualify EXCEPT ![p] = Qualify!After(n)]
      BY <2>2 DEF Qualify!Exists, Qualify!Goto
    <3>2. Qualify!After(n) \in {"stub", "k6", "watch"}
      BY <2>0 DEF Qualify!After
    <3>3. QualifyTypes'
      BY <2>0, <2>2, <3>1, <3>2 DEF QualifyTypes
    <3>4. /\ \A q \in PointsAtWork : created'[q] = IF q = p THEN created[q] \union {n} ELSE created[q]
          /\ \A m \in PointNames : owner'[m] = IF m = n THEN p ELSE owner[m]
          /\ \A q \in PointsAtWork : pcQualify'[q] = IF q = p THEN Qualify!After(n) ELSE pcQualify[q]
      BY <2>2, <3>1, <2>0 DEF QualifyTypes
    <3>5. \A q \in PointsAtWork : created[q] \subseteq PointNames /\ n \notin created[q]
      BY <1>n, <2>2 DEF QualifyTypes, ListIsKnown
    <3>6. ListIsKnown'
      <4> SUFFICES ASSUME NEW q \in PointsAtWork
                   PROVE  /\ \A m \in created'[q] : owner'[m] = q
                          /\ ~strayed'[q] => \A m \in PointNames : owner'[m] = q => m \in created'[q]
                          /\ pcQualify'[q] = "done" => created'[q] = {}
                          /\ pcQualify'[q] = "dead" => strayed'[q]
        BY DEF ListIsKnown
      <4> HIDE DEF n, PointsAtWork, PointNames
      <4>1. CASE q = p
        BY <2>0, <2>2, <3>2, <3>4, <3>5, <4>1 DEF ListIsKnown
      <4>2. CASE q # p
        BY <2>0, <2>2, <3>4, <3>5, <4>2 DEF ListIsKnown
      <4>3. QED
        BY <4>1, <4>2
    <3>7. Qualify!OwnersRemove
      BY <2>2, <3>4 DEF Qualify!OwnersRemove, Qualify!Names
    <3>8. QED
      BY <3>3, <3>6, <3>7
  <2>3. CASE /\ owner[n] = Qualify!Nobody
             /\ Qualify!Raise(p) /\ Qualify!Exists(p, n)
             /\ strayed' = [strayed EXCEPT ![p] = TRUE]
             /\ UNCHANGED created
    <3>1. /\ owner' = [owner EXCEPT ![n] = p]
          /\ pcQualify' = [pcQualify EXCEPT ![p] = "logs"]
      BY <2>3 DEF Qualify!Exists, Qualify!Raise, Qualify!Goto
    <3>3. QualifyTypes'
      BY <2>0, <2>3, <3>1 DEF QualifyTypes
    <3>4. /\ \A q \in PointsAtWork : strayed'[q] = (q = p \/ strayed[q])
          /\ \A m \in PointNames : owner'[m] = IF m = n THEN p ELSE owner[m]
          /\ \A q \in PointsAtWork : pcQualify'[q] = IF q = p THEN "logs" ELSE pcQualify[q]
      BY <2>3, <3>1, <2>0 DEF QualifyTypes
    <3>5. \A q \in PointsAtWork : created[q] \subseteq PointNames /\ n \notin created[q]
      BY <1>n, <2>3 DEF QualifyTypes, ListIsKnown
    <3>6. ListIsKnown'
      <4> SUFFICES ASSUME NEW q \in PointsAtWork
                   PROVE  /\ \A m \in created'[q] : owner'[m] = q
                          /\ ~strayed'[q] => \A m \in PointNames : owner'[m] = q => m \in created'[q]
                          /\ pcQualify'[q] = "done" => created'[q] = {}
                          /\ pcQualify'[q] = "dead" => strayed'[q]
        BY DEF ListIsKnown
      <4> HIDE DEF n, PointsAtWork, PointNames
      <4>1. CASE q = p
        BY <2>0, <2>3, <3>4, <3>5, <4>1 DEF ListIsKnown
      <4>2. CASE q # p
        BY <2>0, <2>3, <3>4, <3>5, <4>2 DEF ListIsKnown
      <4>3. QED
        BY <4>1, <4>2
    <3>7. Qualify!OwnersRemove
      BY <2>3, <3>4 DEF Qualify!OwnersRemove, Qualify!Names
    <3>8. QED
      BY <3>3, <3>6, <3>7
  <2>4. QED
    BY <1>7, <2>1, <2>2, <2>3 DEF Qualify!Create
<1>8. ASSUME NEW p \in PointsAtWork, Qualify!Remove(p)
      PROVE  (QualifyTypes /\ ListIsKnown)' /\ Qualify!OwnersRemove
  <2> DEFINE n == Qualify!Last(p)
  <2>0. n \in created[p] /\ n \in PointNames /\ owner[n] = p
    <3>1. n \in created[p]
      BY <1>8, LastIsCreated DEF Qualify!Remove
    <3>2. QED
      BY <3>1 DEF QualifyTypes, ListIsKnown
  <2>1. CASE Qualify!Abandon(p) /\ UNCHANGED <<created, owner>>
    BY <1>4, <2>1
  <2>2. CASE /\ owner' = [owner EXCEPT ![n] = Qualify!Nobody]
             /\ created' = [created EXCEPT ![p] = @ \ {n}]
             /\ UNCHANGED <<pcQualify, strayed>>
    <3>1. pcQualify[p] = "remove"
      BY <1>8 DEF Qualify!Remove
    <3>2. QualifyTypes'
      BY <2>0, <2>2 DEF QualifyTypes
    <3>3. /\ \A q \in PointsAtWork : created'[q] = IF q = p THEN created[q] \ {n} ELSE created[q]
          /\ \A m \in PointNames : owner'[m] = IF m = n THEN Qualify!Nobody ELSE owner[m]
      BY <2>2, <2>0 DEF QualifyTypes
    <3>4. \A q \in PointsAtWork : created[q] \subseteq PointNames /\ (q # p => n \notin created[q])
      BY <2>0 DEF QualifyTypes, ListIsKnown
    <3>5. ListIsKnown'
      <4> SUFFICES ASSUME NEW q \in PointsAtWork
                   PROVE  /\ \A m \in created'[q] : owner'[m] = q
                          /\ ~strayed'[q] => \A m \in PointNames : owner'[m] = q => m \in created'[q]
                          /\ pcQualify'[q] = "done" => created'[q] = {}
                          /\ pcQualify'[q] = "dead" => strayed'[q]
        BY DEF ListIsKnown
      <4> HIDE DEF n, PointsAtWork, PointNames
      <4>1. CASE q = p
        BY <1>n, <2>0, <2>2, <3>1, <3>3, <3>4, <4>1 DEF ListIsKnown
      <4>2. CASE q # p
        BY <1>n, <2>0, <2>2, <3>3, <3>4, <4>2 DEF ListIsKnown
      <4>3. QED
        BY <4>1, <4>2
    <3>6. Qualify!OwnersRemove
      <4> SUFFICES ASSUME NEW m \in PointNames, owner[m] # owner'[m], owner[m] # Qualify!Nobody
                   PROVE  /\ pcQualify[owner[m]] = "remove"
                          /\ m \in created[owner[m]] /\ m \notin created'[owner[m]]
        BY DEF Qualify!OwnersRemove, Qualify!Names
      <4> HIDE DEF n, PointsAtWork, PointNames
      <4>1. m = n
        BY <3>3
      <4>2. QED
        BY <2>0, <3>1, <3>3, <4>1
    <3>7. QED
      BY <3>2, <3>5, <3>6
  <2>3. QED
    BY <1>8, <2>1, <2>2 DEF Qualify!Remove
<1>9. QED
  BY <1>2, <1>3, <1>k, <1>5, <1>6, <1>7, <1>8 DEF Qualify!Next, Qualify!Step

LEMMA QualifySteps == [ToolsNext]_everything => [Qualify!Next]_(Qualify!vars)
  BY DEF ToolsNext, everything, Qualify!vars, Qualify!point, qualifyVars,
     OthersOfRun, OthersOfStack, OthersOfSeatMap, OthersOfRelease, OthersOfInputs, OthersOfSmoke,
     OthersOfPools, OthersOfActivity, OthersOfProtocol, OthersOfAccount, OthersOfFixture, OthersOfStartup

\* A point leaves nothing behind when its commands were obeyed, and takes away only its own.
LEMMA PointsCleanUp == ToolsSpec => []Qualify!NothingIsLeft /\ Qualify!NothingForeignIsRemoved
<1> DEFINE Lists == QualifyTypes /\ ListIsKnown
<1>1. ToolsInit => Lists
  BY DEF ToolsInit, Qualify!Init, QualifyTypes, ListIsKnown, PointsAtWork, PointNames, Qualify!Names,
     Qualify!Nobody
<1>2. Lists /\ [ToolsNext]_everything => Lists' /\ [Qualify!OwnersRemove]_(Qualify!vars)
  BY PointSteps, QualifySteps
<1>3. Lists => Qualify!NothingIsLeft
  BY DEF ListIsKnown, PointsAtWork, Qualify!NothingIsLeft, Qualify!Over, Qualify!Names, PointNames
<1> HIDE DEF Lists
<1>4. QED
  BY <1>1, <1>2, <1>3, PTL DEF ToolsSpec, Qualify!NothingForeignIsRemoved

-----------------------------------------------------------------------------
(* What a smoke campaign returns.                                          *)

SmokeRecords == [job : Nat, run : Nat, passed : BOOLEAN]
SmokeRuns == [job : Nat, targets : Nat, check : BOOLEAN]

SmokeTypes ==
    /\ records \in Seq(SmokeRecords) /\ checkpoint \in Seq(SmokeRecords)
    /\ evidence \in Seq(SmokeRuns)
    /\ using \in Nat /\ targets \in Nat /\ passed \in BOOLEAN

\* The records tell of a run of every job up to theirs.
TellOfRuns(written) ==
    \A i \in 1 .. Len(written) : written[i].run \in 1 .. Len(evidence) /\ evidence[written[i].run].job = i

\* A campaign at work has passed what is recorded, on the targets it has read; only the last of
\* the records that were written may be of a failure; and the run of a case is the newest.
RecordsTell ==
    /\ TellOfRuns(checkpoint) /\ \A i \in 1 .. Len(checkpoint) - 1 : checkpoint[i].passed
    /\ pcSmoke # "off" =>
          /\ TellOfRuns(records)
          /\ \A i \in 1 .. Len(records) : records[i].passed /\ evidence[records[i].run].targets = using
    /\ pcSmoke \in CaseRuns => /\ Len(evidence) > 0
                               /\ evidence[Len(evidence)].job = Len(records) + 1
                               /\ evidence[Len(evidence)].targets = using

\* What a campaign takes over are the first records, which have passed.
LEMMA TakenOverHasPassed ==
    ASSUME SmokeTypes, RecordsTell
    PROVE  LET taken == Smoke!PassedPrefix(checkpoint)
           IN /\ taken \in Seq(SmokeRecords) /\ Len(taken) <= Len(checkpoint)
              /\ \A i \in 1 .. Len(taken) : taken[i] = checkpoint[i] /\ taken[i].passed
<1> DEFINE Suits(k) == /\ \A i \in 1 .. k : checkpoint[i].passed
                       /\ k = Len(checkpoint) \/ ~checkpoint[k + 1].passed
           n == CHOOSE k \in 0 .. Len(checkpoint) : Suits(k)
           taken == Smoke!PassedPrefix(checkpoint)
<1>1. Len(checkpoint) \in Nat
  BY DEF SmokeTypes
<1>2. \E k \in 0 .. Len(checkpoint) : Suits(k)
  <2>1. CASE Len(checkpoint) = 0 \/ checkpoint[Len(checkpoint)].passed
    <3>1. Suits(Len(checkpoint))
      BY <1>1, <2>1 DEF RecordsTell
    <3>2. QED
      BY <1>1, <3>1
  <2>2. CASE Len(checkpoint) # 0 /\ ~checkpoint[Len(checkpoint)].passed
    <3>1. Len(checkpoint) - 1 \in 0 .. Len(checkpoint) /\ Len(checkpoint) - 1 + 1 = Len(checkpoint)
      BY <1>1, <2>2
    <3>2. Suits(Len(checkpoint) - 1)
      BY <2>2, <3>1 DEF RecordsTell
    <3>3. QED
      BY <3>1, <3>2
  <2>3. QED
    BY <2>1, <2>2
<1>3. n \in 0 .. Len(checkpoint) /\ Suits(n)
  BY <1>2
<1>4. taken = SubSeq(checkpoint, 1, n)
  BY DEF Smoke!PassedPrefix
<1>5. \A i \in 1 .. n : checkpoint[i].passed
  BY <1>3
<1> HIDE DEF n, Suits, taken
<1>6. taken \in Seq(SmokeRecords) /\ Len(taken) = n /\ \A i \in 1 .. n : taken[i] = checkpoint[i]
  <2>1. \A i \in 1 .. n : checkpoint[i] \in SmokeRecords
    BY <1>1, <1>3 DEF SmokeTypes
  <2>2. /\ SubSeq(checkpoint, 1, n) \in Seq(SmokeRecords)
        /\ Len(SubSeq(checkpoint, 1, n)) = IF 1 <= n THEN n - 1 + 1 ELSE 0
        /\ \A i \in 1 .. n - 1 + 1 : SubSeq(checkpoint, 1, n)[i] = checkpoint[1 + i - 1]
    BY <1>3, <2>1, SubSeqProperties
  <2>3. QED
    BY <1>3, <1>4, <2>2
<1>7. Len(taken) <= Len(checkpoint) /\ \A i \in 1 .. Len(taken) : taken[i] = checkpoint[i] /\ taken[i].passed
  BY <1>1, <1>3, <1>5, <1>6
<1>8. QED
  BY <1>6, <1>7 DEF taken

\* What the check of a run says is no part of what the records tell.
LEMMA ChecksMayChange ==
    ASSUME SmokeTypes, NEW r \in 1 .. Len(evidence), NEW says \in BOOLEAN,
           evidence' = [evidence EXCEPT ![r].check = says]
    PROVE  /\ evidence' \in Seq(SmokeRuns) /\ Len(evidence') = Len(evidence)
           /\ \A q \in 1 .. Len(evidence) : /\ evidence'[q].job = evidence[q].job
                                            /\ evidence'[q].targets = evidence[q].targets
<1> DEFINE one == [evidence[r] EXCEPT !.check = says]
<1>1. evidence[r] \in SmokeRuns /\ DOMAIN evidence = 1 .. Len(evidence) /\ Len(evidence) \in Nat
  BY DEF SmokeTypes
<1>2. one \in SmokeRuns /\ one.job = evidence[r].job /\ one.targets = evidence[r].targets
  BY <1>1 DEF SmokeRuns
<1>3. evidence' = [evidence EXCEPT ![r] = one]
  OBVIOUS
<1> HIDE DEF one
<1>4. evidence' \in Seq(SmokeRuns) /\ Len(evidence') = Len(evidence)
  <2>1. evidence \in Seq(SmokeRuns) /\ one \in SmokeRuns
    BY <1>2 DEF SmokeTypes
  <2>2. [evidence EXCEPT ![r] = one] \in Seq(SmokeRuns) /\ Len([evidence EXCEPT ![r] = one]) = Len(evidence)
    BY <2>1, ExceptSeq
  <2>3. QED
    BY <1>3, <2>2
<1>5. \A q \in 1 .. Len(evidence) : evidence'[q] = IF q = r THEN one ELSE evidence[q]
  BY <1>1, <1>3
<1>6. QED
  BY <1>2, <1>4, <1>5

LEMMA RecordsKeepTelling ==
    SmokeTypes /\ RecordsTell /\ [Smoke!Next]_(Smoke!vars) => SmokeTypes' /\ RecordsTell'
<1> SUFFICES ASSUME SmokeTypes, RecordsTell, [Smoke!Next]_(Smoke!vars) PROVE SmokeTypes' /\ RecordsTell'
  OBVIOUS
<1> USE DEF Smoke!process, Smoke!system, Smoke!files, Smoke!bounds, Smoke!Others
\* Steps that add no record and no run: of a run, only what its check says may change.
<1>1. ASSUME UNCHANGED <<records, checkpoint, using>>, targets' \in Nat, passed' \in BOOLEAN,
             evidence' \in Seq(SmokeRuns), Len(evidence') = Len(evidence),
             \A r \in 1 .. Len(evidence) : /\ evidence'[r].job = evidence[r].job
                                           /\ evidence'[r].targets = evidence[r].targets,
             pcSmoke' # "off" => pcSmoke # "off",
             pcSmoke' \in CaseRuns => pcSmoke \in CaseRuns
      PROVE  SmokeTypes' /\ RecordsTell'
  <2>1. SmokeTypes'
    BY <1>1 DEF SmokeTypes
  <2>2. Len(evidence) \in Nat /\ (Len(evidence) > 0 => Len(evidence) \in 1 .. Len(evidence))
    BY DEF SmokeTypes
  <2>3. RecordsTell'
    BY <1>1, <2>2 DEF RecordsTell, TellOfRuns
  <2>4. QED
    BY <2>1, <2>3
<1>2. ASSUME UNCHANGED <<records, checkpoint, using, evidence>>, targets' \in Nat, passed' \in BOOLEAN,
             pcSmoke' # "off" => pcSmoke # "off",
             pcSmoke' \in CaseRuns => pcSmoke \in CaseRuns
      PROVE  SmokeTypes' /\ RecordsTell'
  BY <1>1, <1>2 DEF SmokeTypes
\* Outside of the runner, and where it ends.
<1>3. CASE Smoke!Request \/ Smoke!GeneratorEnds \/ Smoke!Crash \/ Smoke!EditTargets \/ Smoke!Deadline
           \/ UNCHANGED Smoke!vars
  <2>1. /\ UNCHANGED <<records, checkpoint, using, evidence, passed>>
        /\ targets' \in {targets, targets + 1} /\ pcSmoke' \in {pcSmoke, "off"}
    BY <1>3 DEF Smoke!Request, Smoke!GeneratorEnds, Smoke!Crash, Smoke!EditTargets, Smoke!Deadline, Smoke!vars
  <2>2. QED
    BY <1>2, <2>1 DEF SmokeTypes, CaseRuns
<1>4. ASSUME NEW step \in Smoke!Fallible, Smoke!Fails(step) PROVE SmokeTypes' /\ RecordsTell'
  <2>1. UNCHANGED <<records, checkpoint, using, evidence, passed, targets>> /\ pcSmoke' = "off"
    BY <1>4 DEF Smoke!Fails, Smoke!Raise
  <2>2. QED
    BY <1>2, <2>1 DEF SmokeTypes, CaseRuns
<1>5. CASE Smoke!LoseEvidence
  <2>1. PICK r \in Smoke!Runs : evidence' = [evidence EXCEPT ![r].check = FALSE]
    BY <1>5 DEF Smoke!LoseEvidence
  <2>2. /\ evidence' \in Seq(SmokeRuns) /\ Len(evidence') = Len(evidence)
        /\ \A q \in 1 .. Len(evidence) : /\ evidence'[q].job = evidence[q].job
                                         /\ evidence'[q].targets = evidence[q].targets
    BY <2>1, ChecksMayChange DEF Smoke!Runs
  <2>3. UNCHANGED <<records, checkpoint, using, passed, targets, pcSmoke>>
    BY <1>5 DEF Smoke!LoseEvidence
  <2>4. QED
    BY <1>1, <2>2, <2>3 DEF SmokeTypes
\* A process begins.
<1>6. CASE Smoke!Prepare \/ Smoke!Campaign
  <2>1. /\ records' = <<>> /\ using' = targets /\ pcSmoke' \in {"export", "next"} /\ passed' = FALSE
        /\ UNCHANGED <<checkpoint, evidence, targets>>
    BY <1>6 DEF Smoke!Prepare, Smoke!Campaign, Smoke!Begin
  <2>2. SmokeTypes'
    <3>1. records' \in Seq(SmokeRecords)
      BY <2>1, EmptySeq
    <3>2. QED
      BY <2>1, <3>1 DEF SmokeTypes
  <2>3. Len(records') = 0
    BY <2>1
  <2>4. TellOfRuns(records)' /\ \A i \in 1 .. Len(records') : records'[i].passed /\ evidence'[records'[i].run].targets = using'
    BY <2>3 DEF TellOfRuns
  <2>5. QED
    BY <2>1, <2>2, <2>4 DEF RecordsTell, TellOfRuns, CaseRuns
<1>7. CASE Smoke!Resume
  <2> DEFINE taken == Smoke!PassedPrefix(checkpoint)
  <2>1. /\ records' = taken /\ using' = targets /\ pcSmoke' = "next" /\ passed' = FALSE
        /\ UNCHANGED <<checkpoint, evidence, targets>>
        /\ \A i \in 1 .. Len(taken) : evidence[checkpoint[i].run].targets = targets
    BY <1>7 DEF Smoke!Resume, Smoke!Begin, Smoke!Trusted
  <2>2. /\ taken \in Seq(SmokeRecords) /\ Len(taken) <= Len(checkpoint)
        /\ \A i \in 1 .. Len(taken) : taken[i] = checkpoint[i] /\ taken[i].passed
    BY TakenOverHasPassed
  <2> HIDE DEF taken
  <2>3. SmokeTypes'
    BY <2>1, <2>2 DEF SmokeTypes
  <2>4. \A i \in 1 .. Len(taken) : i \in 1 .. Len(checkpoint)
    BY <2>2 DEF SmokeTypes
  <2>5. RecordsTell'
    BY <2>1, <2>2, <2>4 DEF RecordsTell, TellOfRuns, CaseRuns
  <2>6. QED
    BY <2>3, <2>5
\* The steps of a process until a case begins.
<1>8. CASE Smoke!Check \/ Smoke!StopClients \/ Smoke!Restore \/ Smoke!Flush \/ Smoke!StartClients
  <2>1. /\ UNCHANGED <<records, checkpoint, using, evidence, passed, targets>>
        /\ pcSmoke # "off" /\ (pcSmoke' \in CaseRuns => pcSmoke \in CaseRuns)
    BY <1>8 DEF Smoke!Check, Smoke!StopClients, Smoke!Restore, Smoke!Flush, Smoke!StartClients, Smoke!Goto,
       Smoke!Raise, CaseRuns
  <2>2. QED
    BY <1>2, <2>1 DEF SmokeTypes
<1>9. CASE Smoke!Export \/ Smoke!Exported \/ Smoke!Invariants \/ Smoke!Dump \/ Smoke!Hash
  <2>1. /\ UNCHANGED <<records, checkpoint, using, evidence, passed, targets>>
        /\ pcSmoke # "off" /\ (pcSmoke' \in CaseRuns => pcSmoke \in CaseRuns)
    BY <1>9 DEF Smoke!Export, Smoke!Exported, Smoke!Invariants, Smoke!Dump, Smoke!Hash, Smoke!Goto,
       Smoke!Raise, CaseRuns
  <2>2. QED
    BY <1>2, <2>1 DEF SmokeTypes
<1>10. CASE Smoke!NextJob
  <2>1. /\ UNCHANGED <<records, checkpoint, using, evidence, targets>> /\ passed' = FALSE
        /\ pcSmoke = "next" /\ pcSmoke' \in {"off", "check"}
    BY <1>10 DEF Smoke!NextJob
  <2>2. QED
    BY <1>2, <2>1 DEF SmokeTypes, CaseRuns
\* A case.
<1>11. CASE Smoke!BeginCase
  <2> DEFINE one == [job |-> Len(records) + 1, targets |-> using, check |-> FALSE]
  <2>1. /\ evidence' = Append(evidence, one) /\ pcSmoke = "ready" /\ pcSmoke' = "watch"
        /\ UNCHANGED <<records, checkpoint, using, passed, targets>>
    BY <1>11 DEF Smoke!BeginCase, Smoke!NewEvidence, Smoke!Goto
  <2>2. one \in SmokeRuns /\ one.job = Len(records) + 1 /\ one.targets = using
    BY DEF SmokeTypes, SmokeRuns
  <2> HIDE DEF one
  <2>3. /\ evidence' \in Seq(SmokeRuns) /\ Len(evidence') = Len(evidence) + 1 /\ Len(evidence) \in Nat
        /\ \A r \in 1 .. Len(evidence) : evidence'[r] = evidence[r]
        /\ evidence'[Len(evidence) + 1] = one
    BY <2>1, <2>2, AppendProperties DEF SmokeTypes
  <2>4. SmokeTypes'
    BY <2>1, <2>3 DEF SmokeTypes
  <2>5. RecordsTell'
    BY <2>1, <2>2, <2>3 DEF RecordsTell, TellOfRuns
  <2>6. QED
    BY <2>4, <2>5
<1>12. CASE Smoke!CaseEnds
  <2>1. /\ UNCHANGED <<records, checkpoint, using, evidence, targets>> /\ passed' \in BOOLEAN
        /\ pcSmoke = "watch" /\ pcSmoke' = "judge"
    BY <1>12 DEF Smoke!CaseEnds
  <2>2. QED
    BY <1>2, <2>1 DEF SmokeTypes, CaseRuns
<1>13. CASE Smoke!Judge
  <2>1. /\ UNCHANGED <<records, checkpoint, using, targets>> /\ passed' \in BOOLEAN
        /\ pcSmoke = "judge" /\ pcSmoke' = "record"
        /\ evidence' = [evidence EXCEPT ![Len(evidence)].check = passed']
    BY <1>13 DEF Smoke!Judge, SmokeTypes
  <2>2. Len(evidence) \in 1 .. Len(evidence)
    BY <2>1 DEF RecordsTell, CaseRuns, SmokeTypes
  <2>3. /\ evidence' \in Seq(SmokeRuns) /\ Len(evidence') = Len(evidence)
        /\ \A q \in 1 .. Len(evidence) : /\ evidence'[q].job = evidence[q].job
                                         /\ evidence'[q].targets = evidence[q].targets
    BY <2>1, <2>2, ChecksMayChange
  <2>4. QED
    BY <1>1, <2>1, <2>3 DEF SmokeTypes, CaseRuns
<1>14. CASE Smoke!Record
  <2> DEFINE one == [job |-> Len(records) + 1, run |-> Len(evidence), passed |-> passed]
  <2>1. /\ records' = Append(records, one) /\ checkpoint' = records'
        /\ pcSmoke = "record" /\ pcSmoke' = IF passed THEN "next" ELSE "off"
        /\ UNCHANGED <<using, passed, evidence, targets>>
    BY <1>14 DEF Smoke!Record
  <2>2. one \in SmokeRecords /\ one.run = Len(evidence) /\ one.passed = passed
    BY DEF SmokeTypes, SmokeRecords
  <2> HIDE DEF one
  <2>3. /\ records' \in Seq(SmokeRecords) /\ Len(records') = Len(records) + 1 /\ Len(records) \in Nat
        /\ \A i \in 1 .. Len(records) : records'[i] = records[i]
        /\ records'[Len(records) + 1] = one
    BY <2>1, <2>2, AppendProperties DEF SmokeTypes
  <2>4. SmokeTypes'
    BY <2>1, <2>3 DEF SmokeTypes
  <2>5. /\ Len(evidence) \in 1 .. Len(evidence) /\ evidence[Len(evidence)].job = Len(records) + 1
        /\ evidence[Len(evidence)].targets = using
        /\ TellOfRuns(records)
        /\ \A i \in 1 .. Len(records) : records[i].passed /\ evidence[records[i].run].targets = using
    BY <2>1 DEF RecordsTell, CaseRuns, SmokeTypes
  <2>6. /\ TellOfRuns(records)'
        /\ \A i \in 1 .. Len(records') : /\ evidence'[records'[i].run].targets = using'
                                         /\ passed \/ i \in 1 .. Len(records') - 1 => records'[i].passed
    <3> SUFFICES ASSUME NEW i \in 1 .. Len(records')
                 PROVE  /\ records'[i].run \in 1 .. Len(evidence') /\ evidence'[records'[i].run].job = i
                        /\ evidence'[records'[i].run].targets = using'
                        /\ passed \/ i \in 1 .. Len(records') - 1 => records'[i].passed
      BY DEF TellOfRuns
    <3>1. CASE i = Len(records) + 1
      BY <2>1, <2>2, <2>3, <2>5, <3>1
    <3>2. CASE i \in 1 .. Len(records)
      BY <2>1, <2>3, <2>5, <3>2 DEF TellOfRuns
    <3>3. QED
      BY <2>3, <3>1, <3>2
  <2>7. RecordsTell'
    BY <2>1, <2>6 DEF RecordsTell, TellOfRuns, CaseRuns
  <2>8. QED
    BY <2>4, <2>7
<1>15. QED
  BY <1>3, <1>4, <1>5, <1>6, <1>7, <1>8, <1>9, <1>10, <1>11, <1>12, <1>13, <1>14 DEF Smoke!Next, Smoke!Step

\* A campaign returns 0 only at its end, and then all its records are of passed runs of its jobs.
LEMMA CampaignsReturnWhole ==
    ASSUME SmokeTypes, RecordsTell, [Smoke!Next]_(Smoke!vars)
    PROVE  Smoke!ReturnsWhole
<1> SUFFICES ASSUME ~finishedSmoke, finishedSmoke'
             PROVE  /\ Len(records) = Len(ToolJobs) /\ \A i \in 1 .. Len(ToolJobs) : records[i].passed
                    /\ \A i \in 1 .. Len(ToolJobs) :
                         /\ evidence[records[i].run].job = i /\ evidence[records[i].run].targets = using
                         /\ \A j \in 1 .. Len(ToolJobs) : i # j => records[j].run # records[i].run
  BY DEF Smoke!ReturnsWhole
<1>1. Smoke!NextJob
  <2> USE DEF Smoke!Others
  <2>1. ~(Smoke!Request \/ Smoke!GeneratorEnds \/ Smoke!Crash \/ Smoke!EditTargets \/ Smoke!LoseEvidence
          \/ Smoke!Deadline \/ \E step \in Smoke!Fallible : Smoke!Fails(step))
    BY DEF Smoke!Request, Smoke!GeneratorEnds, Smoke!Crash, Smoke!EditTargets, Smoke!LoseEvidence,
       Smoke!Deadline, Smoke!Fails
  <2>2. ~(Smoke!Prepare \/ Smoke!Campaign \/ Smoke!Resume)
    BY DEF Smoke!Prepare, Smoke!Campaign, Smoke!Resume, Smoke!Begin
  <2>3. ~(Smoke!Check \/ Smoke!StopClients \/ Smoke!Restore \/ Smoke!Flush \/ Smoke!StartClients
          \/ Smoke!Export \/ Smoke!Exported \/ Smoke!Invariants \/ Smoke!Dump \/ Smoke!Hash)
    BY DEF Smoke!Check, Smoke!StopClients, Smoke!Restore, Smoke!Flush, Smoke!StartClients, Smoke!Export,
       Smoke!Exported, Smoke!Invariants, Smoke!Dump, Smoke!Hash
  <2>4. ~(Smoke!BeginCase \/ Smoke!CaseEnds \/ Smoke!Judge \/ Smoke!Record)
    BY DEF Smoke!BeginCase, Smoke!CaseEnds, Smoke!Judge, Smoke!Record
  <2>5. QED
    BY <2>1, <2>2, <2>3, <2>4 DEF Smoke!Next, Smoke!Step, Smoke!vars
<1>2. Len(records) = Len(ToolJobs) /\ pcSmoke = "next"
  BY <1>1 DEF Smoke!NextJob
<1>3. /\ TellOfRuns(records)
      /\ \A i \in 1 .. Len(records) : records[i].passed /\ evidence[records[i].run].targets = using
  BY <1>2 DEF RecordsTell
<1>4. \A i \in 1 .. Len(ToolJobs) : evidence[records[i].run].job = i
  BY <1>2, <1>3 DEF TellOfRuns
<1>5. QED
  BY <1>2, <1>3, <1>4

LEMMA CampaignsAreWhole == ToolsSpec => WholeCampaign
<1> DEFINE Tell == SmokeTypes /\ RecordsTell
<1>1. ToolsInit => Tell
  <2> SUFFICES ASSUME Smoke!Init PROVE Tell
    BY DEF ToolsInit
  <2>1. /\ records = <<>> /\ checkpoint = <<>> /\ evidence = <<>> /\ pcSmoke = "off"
        /\ using = 1 /\ targets = 1 /\ passed = FALSE
    BY DEF Smoke!Init
  <2>2. Len(checkpoint) = 0
    BY <2>1
  <2>3. RecordsTell
    BY <2>1, <2>2 DEF RecordsTell, TellOfRuns, CaseRuns
  <2>4. SmokeTypes
    <3>1. records \in Seq(SmokeRecords) /\ checkpoint \in Seq(SmokeRecords) /\ evidence \in Seq(SmokeRuns)
      BY <2>1, EmptySeq
    <3>2. QED
      BY <2>1, <3>1 DEF SmokeTypes
  <2>5. QED
    BY <2>3, <2>4
<1>2. Tell /\ [ToolsNext]_everything => Tell' /\ [Smoke!ReturnsWhole]_(Smoke!vars)
  BY RecordsKeepTelling, CampaignsReturnWhole, SmokeSteps
<1> HIDE DEF Tell
<1>3. QED
  BY <1>1, <1>2, PTL DEF ToolsSpec, WholeCampaign, Smoke!WholeCampaign

-----------------------------------------------------------------------------
(* All of them.                                                            *)

\* Every case of a smoke campaign begins on the prepared data, every burst of the fixed protocol
\* on a free seat, every module of tests with Redis running, and a timed load over background
\* users with every one of them warmed (run_phase14.py, Environment.reset; protocol.py, burst;
\* phase14_regression.py, main; phase14_startup.py).
THEOREM CaseStartsCleanCorrect == ToolsSpec => []CaseStartsClean
<1>1. /\ Smoke!CaseStartsClean
      /\ Protocol!BurstFindsItsSeat /\ Protocol!PassedOnce /\ Protocol!LoadIsOfOneTrial
      /\ Fixture!ModulesFindRedis /\ Fixture!PassedSuiteIsWhole
      /\ Startup!WarmBeforeLoad /\ Startup!TroubleIsItsOwn
      => CaseStartsClean
  BY DEF CaseStartsClean
<1>2. QED
  BY <1>1, SmokeCasesStartClean, LoadReachesTheStackOnce, SuitesAreWhole, LoadFindsUsersWarmed, PTL

\* What passes met its thresholds on its own data, alone, and was neither stopped nor damaged,
\* left the stack as it found it, and is counted exactly, whatever fails before and after it
\* (run_k6.py, main; run_phase14.py, verdict; phase14_verify.py; phase18 protocol.py and
\* phase18_ab_gate.py; phase14_regression.py, main).
THEOREM PassedRunIsTrustworthyCorrect == ToolsSpec => []PassedRunIsTrustworthy
<1>1. /\ PassedMeansClean
      /\ Stack!PassedRunIsTrustworthy /\ Stack!PassedRunRestoresTheStack
      /\ Account!CountedIsStored
      /\ Protocol!BurstFindsItsSeat /\ Protocol!PassedOnce /\ Protocol!LoadIsOfOneTrial
      /\ Fixture!ModulesFindRedis /\ Fixture!PassedSuiteIsWhole
      => PassedRunIsTrustworthy
  BY DEF PassedRunIsTrustworthy
<1>2. QED
  BY <1>1, PassedRunsAreClean, StackRunsAreTrue, ReconciledIsCounted, LoadReachesTheStackOnce,
     SuitesAreWhole, PTL

\* Every run loads the stack that its workload and plan declare and keeps its own evidence, the
\* window of a passed seat-map run holds its load and no other, and the swap gate opens on a host
\* that earned it (run_baseline.py; run_login_experiment.py; calibrate_seat_map.py;
\* characterize_seat_map_capacity.py; phase14_stop_approved_projects.py).
THEOREM MeasuredAsDeclaredCorrect == ToolsSpec => []MeasuredAsDeclared
<1>1. /\ Stack!MeasuredOnDeclaredStack /\ Stack!EvidenceIsOfItsRun
      /\ SeatMap!WindowIsTheLoads
      /\ Release!GateIsEarned
      => MeasuredAsDeclared
  BY DEF MeasuredAsDeclared
<1>2. QED
  BY <1>1, StackRunsAreTrue, WindowsAreOfTheirLoads, GatesAreEarned, PTL

\* A smoke campaign that returns 0 has run every job, on its targets and in runs of their own that
\* passed, also when it was resumed after crashes, changed targets and lost evidence
\* (run_phase14.py, campaign).
THEOREM WholeCampaignCorrect == ToolsSpec => WholeCampaign
  BY CampaignsAreWhole

\* However the work of a tool fails, it takes away what it created and nothing else: a seat-map run
\* stops its generator before it goes on or ends (the except of calibrate_seat_map.py and of
\* characterize_seat_map_capacity.py), but for a run that is interrupted or whose generator docker
\* does not stop; a qualification point its containers and its network (the finally of phase19
\* protocol/calibrate.py) and a failure run the backend whose payments fail (the finally of
\* run_failure, phase14_regression.py), unless they are killed or one of these commands fails.
THEOREM ToolsCleanUpCorrect == ToolsSpec => ToolsCleanUp
  BY LoadStopsWithItsTool, PointsCleanUp, OneBackendWorks, PTL DEF ToolsCleanUp
=============================================================================
