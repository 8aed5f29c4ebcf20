------------------------- MODULE QualificationPoint -------------------------
(***************************************************************************)
(* One qualification point of the load generator (src/performance/         *)
(* experiments/phase19-global-polling-mixed-load/protocol/calibrate.py):   *)
(* it creates a network, a stub and a k6 container, samples the generator  *)
(* until it exits, a resource gate trips or the deadline passes, saves the *)
(* logs and removes what it has created.  The names are made from the      *)
(* number of virtual users, so two points of that number, started at once, *)
(* meet each other's resources.                                            *)
(***************************************************************************)
EXTENDS Naturals, FiniteSets

CONSTANTS
    Points,     \* the processes that qualify the same number of users
    MaxFaults   \* bound on failed commands, resource stops and bad exits

Nobody == "nobody"

ConstantsAssumption == Nobody \notin Points /\ MaxFaults \in Nat

Names == {"network", "stub", "k6"}

VARIABLES
    pc,         \* of a point
    created,    \* the names in its list created
    stop,       \* its stop reason is set
    exitCode,   \* of the generator it saw end: "none", "ok", "bad"
    overdue,    \* its deadline has passed
    valid,      \* its result: "none", "valid", "invalid"; "none" without a result.json
    owner,      \* who created the resource of a name, or Nobody
    k6,         \* the generator: "none", "running", "ok", "bad"
    faults,
    strayed     \* history: a command of the point failed where that loses a resource, or it was killed

point == <<pc, created, stop, exitCode, overdue, valid, strayed>>
vars == <<point, owner, k6, faults>>

Init ==
    /\ pc = [p \in Points |-> "network"]
    /\ created = [p \in Points |-> {}]
    /\ stop = [p \in Points |-> FALSE]
    /\ exitCode = [p \in Points |-> "none"]
    /\ overdue = [p \in Points |-> FALSE]
    /\ valid = [p \in Points |-> "none"]
    /\ owner = [n \in Names |-> Nobody]
    /\ k6 = "none" /\ faults = 0
    /\ strayed = [p \in Points |-> FALSE]

Fault == faults < MaxFaults /\ faults' = faults + 1

Over(p) == pc[p] \in {"done", "dead"}

Goto(p, next) == pc' = [pc EXCEPT ![p] = next]

After(n) == CASE n = "network" -> "stub" [] n = "stub" -> "k6" [] n = "k6" -> "watch"

(* Any exception of the body sets the stop reason and leads to the end.    *)
Raise(p) == Goto(p, "logs") /\ stop' = [stop EXCEPT ![p] = TRUE]

Exists(p, n) ==
    /\ owner' = [owner EXCEPT ![n] = p]
    /\ k6' = IF n = "k6" THEN "running" ELSE k6

(* The resource is created, and then noted in the list; docker refuses a   *)
(* name that exists, and a command that took too long may have been obeyed.*)
Create(p) ==
    /\ pc[p] \in Names
    /\ LET n == pc[p] IN
       IF owner[n] # Nobody
       THEN Raise(p) /\ UNCHANGED <<created, owner, k6, faults, strayed>>
       ELSE \/ /\ Exists(p, n)
               /\ created' = [created EXCEPT ![p] = @ \union {n}]
               /\ Goto(p, After(n))
               /\ UNCHANGED <<stop, faults, strayed>>
            \/ /\ Fault /\ Raise(p)
               /\ \/ Exists(p, n) /\ strayed' = [strayed EXCEPT ![p] = TRUE]
                  \/ UNCHANGED <<owner, k6, strayed>>
               /\ UNCHANGED created
    /\ UNCHANGED <<exitCode, overdue, valid>>

(* The generator ends by itself, well or badly.                            *)
Exit ==
    /\ k6 = "running"
    /\ \/ k6' = "ok" /\ UNCHANGED faults
       \/ Fault /\ k6' = "bad"
    /\ UNCHANGED <<point, owner>>

Deadline(p) ==
    /\ pc[p] = "watch" /\ ~overdue[p]
    /\ overdue' = [overdue EXCEPT ![p] = TRUE]
    /\ UNCHANGED <<pc, created, stop, exitCode, valid, strayed, owner, k6, faults>>

(* A turn of the loop: the generator has ended, its resources or the       *)
(* deadline stop it, or docker fails.                                      *)
Ended(p) ==
    /\ k6 # "running"
    /\ Goto(p, "logs")
    /\ exitCode' = [exitCode EXCEPT ![p] = k6]
    /\ UNCHANGED <<stop, k6, faults>>

Stopped(p) ==
    /\ k6 = "running"
    /\ \/ overdue[p] /\ UNCHANGED faults
       \/ Fault
    /\ k6' = "bad"
    /\ Raise(p) /\ UNCHANGED exitCode

Failed(p) ==
    /\ Fault /\ Raise(p)
    /\ UNCHANGED <<exitCode, k6>>

Watch(p) ==
    /\ pc[p] = "watch"
    /\ Ended(p) \/ Stopped(p) \/ Failed(p)
    /\ UNCHANGED <<created, overdue, valid, strayed, owner>>

(* The end: a log that cannot be read, or a resource that cannot be        *)
(* removed, raises out of it, and what is left to remove stays.            *)
Abandon(p) ==
    /\ Goto(p, "dead")
    /\ strayed' = [strayed EXCEPT ![p] = TRUE]

(* A signal ends the process without its finally, or in the middle of it.  *)
Killed(p) ==
    /\ ~Over(p)
    /\ Abandon(p)
    /\ UNCHANGED <<created, stop, exitCode, overdue, valid, owner, k6, faults>>

Logs(p) ==
    /\ pc[p] = "logs"
    /\ \/ Goto(p, "remove") /\ UNCHANGED <<faults, strayed>>
       \/ created[p] \ {"network"} # {} /\ Fault /\ Abandon(p)
    /\ UNCHANGED <<created, stop, exitCode, overdue, valid, owner, k6>>

(* The list is emptied from its end.                                       *)
Last(p) == CHOOSE n \in created[p] : After(n) \notin created[p]

(* A network with a container in it cannot be removed.                     *)
Refused(n) == n = "network" /\ (owner["stub"] # Nobody \/ owner["k6"] # Nobody)

Remove(p) ==
    /\ pc[p] = "remove" /\ created[p] # {}
    /\ LET n == Last(p) IN
       IF Refused(n) THEN Abandon(p) /\ UNCHANGED <<created, owner, k6, faults>>
       ELSE \/ /\ owner' = [owner EXCEPT ![n] = Nobody]
               /\ k6' = IF n = "k6" THEN "none" ELSE k6
               /\ created' = [created EXCEPT ![p] = @ \ {n}]
               /\ UNCHANGED <<pc, faults, strayed>>
            \/ Fault /\ Abandon(p) /\ UNCHANGED <<created, owner, k6>>
    /\ UNCHANGED <<stop, exitCode, overdue, valid>>

(* Samples and the summary that are missing, dropped or unfinished         *)
(* iterations invalidate a point that ended by itself.                     *)
Result(p) ==
    /\ pc[p] = "remove" /\ created[p] = {}
    /\ Goto(p, "done")
    /\ \/ /\ valid' = [valid EXCEPT ![p] = IF ~stop[p] /\ exitCode[p] = "ok" THEN "valid" ELSE "invalid"]
          /\ UNCHANGED faults
       \/ Fault /\ valid' = [valid EXCEPT ![p] = "invalid"]
    /\ UNCHANGED <<created, stop, exitCode, overdue, strayed, owner, k6>>

Step(p) == Create(p) \/ Watch(p) \/ Logs(p) \/ Remove(p) \/ Result(p)

Next == Exit \/ \E p \in Points : Step(p) \/ Deadline(p) \/ Killed(p)

(* docker's commands return or time out, and time passes; the generator    *)
(* may never exit.                                                         *)
Fairness == \A p \in Points : WF_vars(Step(p)) /\ WF_vars(Deadline(p))

Spec == Init /\ [][Next]_vars /\ Fairness

-----------------------------------------------------------------------------
(* A point that has ended leaves nothing behind, unless a command of its   *)
(* own failed after docker had obeyed it, or in the end itself, or the     *)
(* process was killed (the finally of main, calibrate.py).                 *)
NothingIsLeft ==
    \A p \in Points : Over(p) /\ ~strayed[p] => \A n \in Names : owner[n] # p

(* A resource is only ever removed by the point that created it, in its   *)
(* end and from its list: a second point of the same number of users, which*)
(* is refused the names, takes nothing away from the first ("cleanup":     *)
(* only point-owned containers and network removed, calibrate.py:145).     *)
OwnersRemove ==
    \A n \in Names : owner[n] # owner'[n] /\ owner[n] # Nobody =>
         /\ pc[owner[n]] = "remove"
         /\ n \in created[owner[n]] /\ n \notin created'[owner[n]]

NothingForeignIsRemoved ==
    [][OwnersRemove]_vars
=============================================================================
