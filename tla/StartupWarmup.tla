--------------------------- MODULE StartupWarmup ---------------------------
(***************************************************************************)
(* The pages of the background users are opened once, by a generator of    *)
(* its own, before the timed load of the cases L1 and L2 begins            *)
(* (src/performance/scripts/phase14_startup.py, warm_background). A sampler*)
(* looks at the containers while that generator runs (phase14_sampling.py, *)
(* Sampler), a guard judges what it sees, and what was delivered is        *)
(* compared with the plan before the load is released.                     *)
(***************************************************************************)
EXTENDS Naturals

CONSTANTS
    Identities,   \* the background users
    MaxFaults     \* bound on the commands that fail

ConstantsAssumption == Identities # {} /\ MaxFaults \in Nat

(* The generator of the startup, and one an earlier run has left.          *)
Generators == {"own", "old"}

VARIABLES
    dual,      \* the generator is on the other host
    pc,        \* "launch", "watch", "stop", "inspect", "wait", "judge", "passed", "failed"
    k6,        \* per generator its container: "none", "running", "exited", "oom"
    compose,   \* docker compose run: "none", "running", "exited"
    good,      \* its exit code is 0
    warmed,    \* the identities whose page was opened
    refused,   \* a request of a page failed
    seen,      \* the generators a sample saw running
    errors,    \* the errors: "guard", "oom", "deadline"
    overdue,   \* the hour has passed
    raised,    \* an exception is on its way through the finally
    ran,       \* history: the generators that ran since the startup began
    absent,    \* history: it was to be stopped before it was there, or that failed
    faults

generator == <<k6, compose, good, warmed, refused, ran>>
watching == <<seen, errors, raised, absent>>
vars == <<dual, pc, generator, watching, overdue, faults>>

Init ==
    /\ dual \in BOOLEAN /\ pc = "launch"
    /\ \E s \in {"none", "running", "oom"} : k6 = [own |-> "none", old |-> s]
    /\ compose = "none" /\ good = FALSE
    /\ warmed = {} /\ refused = FALSE
    /\ seen = {} /\ errors = {} /\ overdue = FALSE /\ raised = FALSE
    /\ ran = {g \in Generators : k6[g] = "running"} /\ absent = FALSE
    /\ faults = 0

Fault == faults < MaxFaults /\ faults' = faults + 1
NoFault == UNCHANGED faults

-----------------------------------------------------------------------------
(* The generator: compose creates the container some time after it was     *)
(* asked to, whether or not anybody waits for it still.                    *)

Create ==
    /\ compose = "running" /\ k6["own"] = "none"
    /\ k6' = [k6 EXCEPT !["own"] = "running"] /\ ran' = ran \union {"own"}
    /\ UNCHANGED <<dual, pc, compose, good, warmed, refused, watching, overdue, faults>>

(* One iteration: the page of an identity, with requests that may fail.    *)
Open(i) ==
    /\ k6["own"] = "running" /\ i \notin warmed
    /\ warmed' = warmed \union {i} /\ refused' \in {refused, TRUE}
    /\ UNCHANGED <<dual, pc, k6, compose, good, ran, watching, overdue, faults>>

(* k6 ends, after all of its iterations or not; it may be killed.          *)
Exit(g) ==
    /\ k6[g] = "running"
    /\ \E how \in {"exited", "oom"} : k6' = [k6 EXCEPT ![g] = how]
    /\ UNCHANGED <<dual, pc, compose, good, warmed, refused, ran, watching, overdue, faults>>

(* compose ends with its container, or without one.                        *)
ComposeExits ==
    /\ compose = "running" /\ k6["own"] # "running"
    /\ k6["own"] = "none" => faults < MaxFaults
    /\ compose' = "exited"
    /\ good' \in {FALSE, k6["own"] = "exited"}
    /\ faults' = IF k6["own"] = "none" THEN faults + 1 ELSE faults
    /\ UNCHANGED <<dual, pc, k6, warmed, refused, ran, watching, overdue>>

HourPasses ==
    /\ pc = "watch" /\ overdue' = TRUE
    /\ UNCHANGED <<dual, pc, generator, watching, faults>>

-----------------------------------------------------------------------------
(* warm_background().                                                      *)

Launch ==
    /\ pc = "launch"
    /\ \/ compose' = "running" /\ pc' = "watch" /\ NoFault
       \/ Fault /\ pc' = "failed" /\ UNCHANGED compose
    /\ UNCHANGED <<dual, k6, good, warmed, refused, ran, watching, overdue>>

Ended ==
    /\ pc = "watch" /\ compose = "exited"
    /\ pc' = "stop"
    /\ UNCHANGED <<dual, generator, watching, overdue, faults>>

(* The containers of this run: those of the stack, and every generator that*)
(* some sample has seen running; those of earlier runs do not count.       *)
Current == seen \union {g \in Generators : k6[g] = "running"}
OutOfMemory == \E g \in Current : k6[g] = "oom"

(* Whatever the guard has against a sample ends the loop, or the hour does.*)
Noticed(guard) ==
    guard \union {e \in {"oom"} : OutOfMemory} \union {e \in {"deadline"} : overdue}

Sample ==
    /\ pc = "watch" /\ compose = "running"
    /\ \/ /\ seen' = Current
          /\ \E guard \in {{}, {"guard"}} : errors' = errors \union Noticed(guard)
          /\ pc' = IF errors' = {} THEN "watch" ELSE "stop"
          /\ UNCHANGED raised /\ NoFault
       \/ Fault /\ raised' = TRUE /\ pc' = "stop" /\ UNCHANGED <<seen, errors>>
    /\ UNCHANGED <<dual, generator, absent, overdue>>

Stopped == IF k6["own"] = "running" THEN [k6 EXCEPT !["own"] = "exited"] ELSE k6
Raise == pc' = "failed" /\ UNCHANGED <<seen, errors, raised>>
Goto(next) == pc' = next /\ UNCHANGED <<seen, errors, raised>>

(* The finally. On the other host the generator is stopped by its name, if *)
(* a container has that name yet.                                          *)
StopGenerators ==
    /\ pc = "stop"
    /\ \/ /\ IF dual THEN k6' = Stopped /\ absent' = (k6["own"] = "none" /\ compose = "running")
                     ELSE UNCHANGED <<k6, absent>>
          /\ Goto("inspect") /\ NoFault
       \/ dual /\ Fault /\ Raise /\ absent' = TRUE /\ UNCHANGED k6
    /\ UNCHANGED <<dual, compose, good, warmed, refused, ran, overdue>>

(* compose still runs: the container is inspected and stopped, on the host *)
(* of the system under test, which raises where the generator is elsewhere.*)
Inspect ==
    /\ pc = "inspect"
    /\ \/ compose = "exited" /\ Goto("wait") /\ UNCHANGED <<k6, absent>> /\ NoFault
       \/ /\ compose = "running" /\ ~dual /\ k6["own"] # "none"
          /\ k6' = Stopped /\ Goto("wait") /\ UNCHANGED absent /\ NoFault
       \/ /\ compose = "running" /\ (dual \/ k6["own"] = "none")
          /\ Raise /\ absent' = (absent \/ k6["own"] = "none") /\ UNCHANGED k6 /\ NoFault
       \/ compose = "running" /\ Fault /\ Raise /\ absent' = TRUE /\ UNCHANGED k6
    /\ UNCHANGED <<dual, compose, good, warmed, refused, ran, overdue>>

(* proc.wait(timeout=30): then an exception of the loop goes on.           *)
Wait ==
    /\ pc = "wait"
    /\ \/ compose = "exited" /\ (IF raised THEN Raise ELSE Goto("judge"))
       \/ compose = "running" /\ Raise
    /\ UNCHANGED <<dual, generator, absent, overdue, faults>>

(* The exit code, the raw points against the plan, and every result.       *)
Delivered == warmed = Identities
Faultless == errors = {} /\ good /\ Delivered /\ ~refused

Judge ==
    /\ pc = "judge"
    /\ pc' = IF Faultless THEN "passed" ELSE "failed"
    /\ UNCHANGED <<dual, generator, watching, overdue, faults>>

Over == pc \in {"passed", "failed"}
Startup == Launch \/ Ended \/ Sample \/ StopGenerators \/ Inspect \/ Wait \/ Judge

Next ==
    \/ Startup \/ Create \/ ComposeExits \/ HourPasses
    \/ \E i \in Identities : Open(i)
    \/ \E g \in Generators : Exit(g)

Spec == Init /\ [][Next]_vars /\ WF_vars(Startup) /\ WF_vars(HourPasses)

-----------------------------------------------------------------------------
(* The timed load begins after every identity was warmed, without an error,*)
(* and after the generator of the startup has ended (warm_background).     *)
WarmBeforeLoad ==
    pc = "passed" =>
        /\ warmed = Identities /\ ~refused
        /\ k6["own"] = "exited" /\ compose = "exited"

(* A container that was killed for want of memory is held against the      *)
(* startup only when it ran during it (scoped_containers); a generator is  *)
(* left running only when it was not there to be stopped, or that failed   *)
(* (the finally of warm_background).                                       *)
TroubleIsItsOwn ==
    /\ "oom" \in errors => \E g \in ran : k6[g] = "oom"
    /\ Over /\ k6["own"] = "running" => absent
=============================================================================
