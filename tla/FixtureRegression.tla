------------------------- MODULE FixtureRegression -------------------------
(***************************************************************************)
(* The integration tests of the backend, run on the stack of phase 14      *)
(* (src/performance/scripts/phase14_regression.py). The tests stop and     *)
(* start Redis themselves, through a fixture that must not delete its      *)
(* container: the replacement one of them asks for becomes a stop and a    *)
(* start. A second command replaces the backend by one whose payments fail.*)
(***************************************************************************)
EXTENDS Naturals, Sequences

CONSTANTS
    Suite,        \* per module its tests: "plain", "outage" or "restart"
    MaxCommands,  \* bound on the commands
    MaxFaults     \* bound on the calls and tests that fail

ConstantsAssumption ==
    /\ Suite \in Seq(Seq({"plain", "outage", "restart"}) \ {<<>>}) \ {<<>>}
    /\ MaxCommands \in Nat /\ MaxFaults \in Nat

VARIABLES
    command,   \* "suite", "metrics", "failure"
    pc,        \* "off", or the step of the command
    module,    \* the module that runs
    test,      \* its test
    todo,      \* the calls the test still has to make of the fixture
    careful,   \* the test is inside of a try whose finally starts Redis
    good,      \* no test of the module has failed
    status,    \* what the command has come to: "none", "0", "1", "raised"
    redis,     \* "up", "stopped"
    stopped,   \* the fixture has taken kill for stop
    backend,   \* "up", "stopped"
    forced,    \* the backend whose payments fail: "none", "up", "stopped"
    busy,      \* a request is in flight
    broken,    \* history: a command has raised, or was killed
    modules,   \* per module of this command, whether it was successful
    commands, faults

place == <<module, test, todo, careful, good>>
stack == <<redis, stopped, backend, forced>>
vars == <<command, pc, place, status, stack, busy, broken, modules, commands, faults>>

Init ==
    /\ command = "suite" /\ pc = "off" /\ module = 0 /\ test = 0 /\ todo = <<>>
    /\ careful = FALSE /\ good = TRUE /\ status = "none"
    /\ redis = "up" /\ stopped = FALSE
    /\ backend = "up" /\ forced = "none"
    /\ busy = FALSE /\ broken = FALSE /\ modules = <<>>
    /\ commands = 0 /\ faults = 0

Fault == faults < MaxFaults /\ faults' = faults + 1
NoFault == UNCHANGED faults

(* An exception ends the command; so does what it returns.                 *)
Raise == pc' = "off" /\ status' = "raised" /\ broken' = TRUE
Return(code) == pc' = "off" /\ status' = code /\ UNCHANGED broken
Goto(next) == pc' = next /\ UNCHANGED <<status, broken>>

-----------------------------------------------------------------------------
(* main(): the stack is reset, which stops and starts the backend, but not *)
(* one that it does not know of.                                           *)

Begin ==
    /\ pc = "off" /\ commands < MaxCommands
    /\ commands' = commands + 1
    /\ command' \in {"suite", "metrics", "failure"}
    /\ pc' = IF command' = "failure" THEN "stop" ELSE "reset"
    /\ status' = "none" /\ modules' = <<>>
    /\ UNCHANGED <<place, stack, busy, broken, faults>>

Reset ==
    /\ pc = "reset"
    /\ \/ /\ redis' = "up" /\ backend' = "up" /\ stopped' = FALSE
          /\ NoFault /\ Goto("module")
          /\ module' = 0 /\ test' = 0 /\ todo' = <<>> /\ careful' = FALSE /\ good' = TRUE
       \/ /\ Fault /\ Raise
          /\ redis' \in {redis, "up"} /\ backend' = "stopped" /\ stopped' = FALSE
          /\ UNCHANGED place
    /\ UNCHANGED <<command, forced, busy, modules, commands>>

(* What a test asks of the fixture. test_redis_outage_... starts Redis in  *)
(* a finally, test_redis_restart_... does not (backend/tests/              *)
(* seat_hold_integration_test.py).                                         *)
Calls(kind) == CASE kind = "outage" -> <<"stop", "start">>
                 [] kind = "restart" -> <<"kill", "rm", "up", "start">>
                 [] OTHER -> <<>>

NextModule ==
    /\ pc = "module" /\ module < Len(Suite)
    /\ module' = module + 1 /\ test' = 1 /\ good' = TRUE /\ careful' = FALSE
    /\ todo' = Calls(Suite[module'][1])
    /\ Goto("test") /\ NoFault
    /\ UNCHANGED <<command, stack, busy, modules, commands>>

(* RedisFixture.__call__: what docker compose is asked, what becomes of    *)
(* Redis, and of the fixture's own memory.                                 *)
Call(c) ==
    CASE c = "kill" -> redis' = "stopped" /\ stopped' = TRUE
      [] c = "rm" -> stopped /\ UNCHANGED <<redis, stopped>>
      [] c = "up" -> stopped /\ redis' = "up" /\ stopped' = FALSE
      [] c = "start" -> redis' = "up" /\ UNCHANGED stopped
      [] c = "stop" -> redis' = "stopped" /\ UNCHANGED stopped

(* A call that fails: up has forgotten the kill by then.                   *)
CallFails(c) ==
    /\ stopped' = IF c = "up" THEN FALSE ELSE stopped
    /\ redis' \in {redis, IF c \in {"kill", "stop"} THEN "stopped" ELSE redis}

Ask ==
    /\ pc = "test" /\ todo # <<>>
    /\ Call(Head(todo))
    /\ todo' = Tail(todo) /\ careful' = (Head(todo) = "stop")
    /\ UNCHANGED <<command, pc, module, test, good, status, backend, forced, busy, broken, modules, commands, faults>>

(* A call or an assertion of the test fails: only a finally is still done. *)
AskFails ==
    /\ pc = "test" /\ todo # <<>> /\ Fault
    /\ CallFails(Head(todo))
    /\ good' = FALSE /\ todo' = <<>> /\ careful' = FALSE
    /\ UNCHANGED <<command, pc, module, test, status, backend, forced, busy, broken, modules, commands>>

TestFails ==
    /\ pc = "test" /\ Fault
    /\ good' = FALSE
    /\ IF careful THEN UNCHANGED todo ELSE todo' = <<>>
    /\ UNCHANGED <<command, pc, module, test, careful, status, stack, busy, broken, modules, commands>>

NextTest ==
    /\ pc = "test" /\ todo = <<>> /\ test < Len(Suite[module])
    /\ test' = test + 1 /\ todo' = Calls(Suite[module][test'])
    /\ UNCHANGED <<command, pc, module, careful, good, status, stack, busy, broken, modules, commands, faults>>

(* regressions.json is written, and the first module that is not           *)
(* successful is the last.                                                 *)
Successful == good

ModuleEnds ==
    /\ pc = "test" /\ todo = <<>> /\ test = Len(Suite[module])
    /\ modules' = Append(modules, good)
    /\ IF Successful THEN Goto("module") ELSE Return("1")
    /\ UNCHANGED <<command, place, stack, busy, commands, faults>>

(* correctness.json is written, whatever it says; live metrics must show   *)
(* that nothing is in flight any more.                                     *)
SuiteEnds ==
    /\ pc = "module" /\ module = Len(Suite)
    /\ IF command = "metrics" /\ busy THEN Return("1") ELSE Return("0")
    /\ UNCHANGED <<command, place, stack, busy, modules, commands, faults>>

Traffic ==
    /\ \/ pc = "test" /\ busy' = ~busy
       \/ pc = "module" /\ busy /\ busy' = FALSE
    /\ UNCHANGED <<command, pc, place, status, stack, broken, modules, commands, faults>>

-----------------------------------------------------------------------------
(* run_failure(): the backend is stopped before the try, and what its      *)
(* finally does first may keep it from starting the backend again.         *)

StopBackend ==
    /\ pc = "stop"
    /\ \/ backend' = "stopped" /\ Goto("force") /\ NoFault
       \/ backend' \in {backend, "stopped"} /\ Raise /\ Fault
    /\ UNCHANGED <<command, place, redis, stopped, forced, busy, modules, commands>>

(* up --wait may fail after the container has started.                     *)
Force ==
    /\ pc = "force"
    /\ \/ forced' = "up" /\ NoFault /\ status' \in {"0", "1"}
       \/ forced' \in {forced, "up"} /\ Fault /\ status' = "raised"
    /\ pc' = "stop forced"
    /\ UNCHANGED <<command, place, redis, stopped, backend, busy, broken, modules, commands>>

StopForced ==
    /\ pc = "stop forced"
    /\ \/ forced' = (IF forced = "none" THEN "none" ELSE "stopped") /\ Goto("start") /\ NoFault
       \/ UNCHANGED forced /\ Raise /\ Fault
    /\ UNCHANGED <<command, place, redis, stopped, backend, busy, modules, commands>>

StartBackend ==
    /\ pc = "start"
    /\ \/ /\ backend' = "up" /\ NoFault
          /\ IF status = "raised" THEN Raise ELSE Return(status)
       \/ UNCHANGED backend /\ Raise /\ Fault
    /\ UNCHANGED <<command, place, redis, stopped, forced, busy, modules, commands>>

(* A signal ends the process: no finally is run, no more is written.       *)
Killed ==
    /\ pc # "off"
    /\ Raise
    /\ UNCHANGED <<command, place, stack, busy, modules, commands, faults>>

Main == Reset \/ NextModule \/ Ask \/ AskFails \/ TestFails \/ NextTest \/ ModuleEnds \/ SuiteEnds
Failure == StopBackend \/ Force \/ StopForced \/ StartBackend

Next == Begin \/ Main \/ Failure \/ Traffic \/ Killed

Spec == Init /\ [][Next]_vars

-----------------------------------------------------------------------------
(* Every module finds Redis running, though the tests of others have       *)
(* stopped it and may have failed before they started it again, and the    *)
(* fixture does not remember a kill of theirs (RedisFixture, main).        *)
ModulesFindRedis ==
    pc = "test" /\ test = 1 /\ todo = Calls(Suite[module][1]) /\ good =>
        redis = "up" /\ ~stopped

(* As long as no command broke off or was killed, one backend works on the *)
(* database at a time, and a command that has returned leaves the usual one*)
(* (run_failure).                                                          *)
OneBackend ==
    ~broken =>
        /\ ~(backend = "up" /\ forced = "up")
        /\ pc = "off" => backend = "up"

(* A suite that returns 0 had nothing but successful modules, all of them, *)
(* and left Redis running (main).                                          *)
PassedSuiteIsWhole ==
    status = "0" /\ command # "failure" =>
        modules = [m \in 1..Len(Suite) |-> TRUE] /\ redis = "up"
=============================================================================
