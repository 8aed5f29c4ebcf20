---------------------------- MODULE PollingPoint ----------------------------
(***************************************************************************)
(* A load point of the global polling experiment (src/performance/         *)
(* experiments/phase19-global-polling-mixed-load/protocol): measure.py     *)
(* starts a k6 container on a private stack, samples resources and watches *)
(* it, while a thread observes the stack and, in an open point, another    *)
(* thread follows one seat (propagation.py): it holds, abandons, confirms  *)
(* and cancels, and reads the availability of the seat's zone until what   *)
(* it did is visible.  What stops the point, and what it cleans up, decide *)
(* whether its result is valid.                                            *)
(*                                                                         *)
(* The stack is what the point can see of it: the inventory is projected   *)
(* late, holds run out, and the read model may be rebuilt.                 *)
(***************************************************************************)
EXTENDS Naturals, Sequences

CONSTANTS
    Modes,      \* the modes of the points: "open", with the probe, and "hotspot"
    MaxPoints,  \* bound on the points
    MaxFaults,  \* bound on lost answers, rebuilds, failed commands and crashes
    MaxLapses   \* bound on the holds that run out

ConstantsAssumption ==
    /\ Modes \subseteq {"open", "hotspot"}
    /\ MaxPoints \in Nat /\ MaxFaults \in Nat /\ MaxLapses \in Nat

VARIABLES
    pc,         \* the main thread of measure.py
    mode,
    reason,     \* the point was stopped, or something of it was missing
    container,  \* the generator: "none", "running", "exited"
    exit,       \* of the generator: "none", "ok", "failed", "killed"
    clean,      \* no error, no dropped and no unfinished iteration
    missed,     \* observer_errors: an observation of the stack has failed
    stopProbe,  \* propagation_stop
    probe,      \* the thread of propagation.py
    seat,       \* the probe's seat in the stack
    view,       \* what the probe's reads have shown
    unprojected,\* the load's changes of inventory wait in the outbox
    sound,      \* verify.sql counts nothing
    holder,     \* a hold on the hotspot lives
    verified,   \* the stack was verified after the load
    rebuilt,    \* the read model has another generation than at the start
    result,     \* of the last point: "none", "valid", "invalid"
    left,       \* history: what the valid point left behind
    points, faults, lapses,
    died        \* history: a point ended before its probe

point == <<pc, mode, reason, exit, clean, verified, result, left, died>>
threads == <<missed, stopProbe>>
stack == <<unprojected, sound, holder, rebuilt>>
bounds == <<points, faults, lapses>>
vars == <<point, container, threads, probe, seat, view, stack, bounds>>

NoProbe == [at |-> "off", flow |-> "abandon", checkout |-> FALSE, order |-> FALSE,
            failed |-> FALSE, untrue |-> FALSE, unanswered |-> FALSE]
FreeSeat == [hold |-> FALSE, spent |-> FALSE, order |-> FALSE, formal |-> "AVAILABLE", queue |-> <<>>]
FirstView == [status |-> "AVAILABLE", changed |-> FALSE, unread |-> FALSE,
              reset |-> FALSE]

Init ==
    /\ pc = "idle" /\ mode = "open" /\ reason = FALSE
    /\ container = "none" /\ exit = "none" /\ clean = TRUE
    /\ missed = FALSE /\ stopProbe = FALSE
    /\ probe = NoProbe /\ seat = FreeSeat /\ view = FirstView
    /\ unprojected = FALSE /\ sound = TRUE /\ holder = FALSE /\ rebuilt = FALSE
    /\ verified = FALSE /\ result = "none" /\ left = FALSE
    /\ points = 0 /\ faults = 0 /\ lapses = 0 /\ died = FALSE

Fault == faults < MaxFaults /\ faults' = faults + 1

Goto(next) == pc' = next /\ UNCHANGED <<mode, exit, clean, left, died>>

-----------------------------------------------------------------------------
(* The stack.                                                              *)

Display == IF seat.formal = "AVAILABLE" /\ seat.hold THEN "HELD" ELSE seat.formal

(* A hold taken or given up is announced while the seat is on sale.        *)
Announced == view' = [view EXCEPT !.unread = @ \/ seat.formal = "AVAILABLE"]

(* The projection of a change is always announced.                         *)
Project ==
    \/ /\ seat.queue # <<>>
       /\ seat' = [seat EXCEPT !.formal = Head(seat.queue), !.queue = Tail(@)]
       /\ view' = [view EXCEPT !.unread = TRUE]
       /\ UNCHANGED unprojected
    \/ unprojected /\ unprojected' = FALSE /\ UNCHANGED <<seat, view>>

ProjectChange ==
    /\ Project
    /\ UNCHANGED <<point, container, threads, probe, sound, holder, rebuilt, bounds>>

(* A confirmed checkout gives its hold up when its clean-up comes round.   *)
HoldIsCleanedUp ==
    /\ seat.hold /\ seat.spent
    /\ seat' = [seat EXCEPT !.hold = FALSE]
    /\ Announced
    /\ UNCHANGED <<point, container, threads, probe, stack, bounds>>

HoldsLapse ==
    /\ lapses < MaxLapses
    /\ lapses' = lapses + 1
    /\ \/ seat.hold /\ seat' = [seat EXCEPT !.hold = FALSE] /\ Announced
          /\ UNCHANGED holder
       \/ holder /\ holder' = FALSE /\ UNCHANGED <<seat, view>>
    /\ UNCHANGED <<point, container, threads, probe, unprojected, sound, rebuilt,
                   points, faults>>

(* A new generation carries what the inventory says, and the holds.        *)
Rebuild ==
    /\ Fault
    /\ rebuilt' = TRUE /\ unprojected' = FALSE
    /\ seat' = [seat EXCEPT !.queue = <<>>,
                            !.formal = IF seat.order THEN "HELD" ELSE "AVAILABLE"]
    /\ view' = [view EXCEPT !.reset = TRUE]
    /\ UNCHANGED <<point, container, threads, probe, sound, holder, points, lapses>>

(* The load: changes of inventory, the one winner of a hotspot, an error,  *)
(* and an invariant that does not survive it.                              *)
LoadActs ==
    /\ container = "running"
    /\ \/ unprojected' = TRUE /\ UNCHANGED <<sound, holder, clean>>
       \/ mode = "hotspot" /\ ~holder /\ holder' = TRUE
          /\ UNCHANGED <<unprojected, sound, clean>>
       \/ clean' = FALSE /\ sound' \in {sound, FALSE}
          /\ UNCHANGED <<unprojected, holder>>
    /\ UNCHANGED <<pc, mode, reason, exit, verified, result, left, died, container,
                   threads, probe, seat, view, rebuilt, bounds>>

(* k6 ends by itself, by a threshold, or for want of memory.               *)
GeneratorExits ==
    /\ container = "running"
    /\ container' = "exited"
    /\ exit' \in (IF clean THEN {"ok"} ELSE {"ok", "failed"}) \cup {"killed"}
    /\ UNCHANGED <<pc, mode, reason, clean, verified, result, left, died, threads,
                   probe, seat, view, stack, bounds>>

-----------------------------------------------------------------------------
(* The probe (propagation.py, collect).                                    *)

ProbeRuns == probe.at \notin {"off", "ended"}

ProbeKeeps == UNCHANGED <<point, container, threads, stack, points, lapses>>

(* A read follows the cursor: what it shows of the seat, and whether the   *)
(* answer names the seat.  A snapshot names no change.                     *)
AfterRead == [status |-> IF view.unread \/ view.reset THEN Display ELSE view.status,
              changed |-> view.unread /\ ~view.reset, unread |-> FALSE, reset |-> FALSE]

Writes == {"holdIt", "abandonIt", "confirmIt", "cancelIt"}
Waits == {"seeHold", "seeAbandon", "seeConfirm", "seeCancel"}

Target == IF probe.at \in {"seeHold", "seeConfirm"} THEN "HELD" ELSE "AVAILABLE"

Mutant_AnySighting == view'.status = Target

Sighted == /\ view'.status = Target
           /\ probe.at = "seeConfirm" => view'.changed

(* What a sighting is taken for: the write before it shows.                *)
IsTrue == CASE probe.at = "seeHold" -> seat.hold
            [] probe.at = "seeAbandon" -> ~seat.hold
            [] probe.at = "seeConfirm" -> seat.formal = "HELD"
            [] probe.at = "seeCancel" -> seat.formal = "AVAILABLE" /\ seat.queue = <<>>

AfterWait == CASE probe.at = "seeHold" -> "dwell"
               [] probe.at = "seeAbandon" -> "holdIt"
               [] probe.at = "seeConfirm" -> "dwell"
               [] probe.at = "seeCancel" -> "ended"

Flow == IF probe.at = "seeAbandon" THEN "confirm" ELSE probe.flow

(* wait_for: reads until the target shows; 30 s without it are a sample    *)
(* that does not match, and the flow goes on; a read that raises ends it:  *)
(* no answer, a degraded one, another zone's or a cursor that went back.   *)
WaitFor ==
    /\ probe.at \in Waits /\ ~stopProbe
    /\ \/ /\ view' = AfterRead
          /\ IF Sighted
             THEN probe' = [probe EXCEPT !.at = AfterWait, !.flow = Flow,
                                         !.untrue = @ \/ ~IsTrue]
             ELSE UNCHANGED probe
       \/ /\ UNCHANGED view
          /\ probe' = [probe EXCEPT !.at = AfterWait, !.flow = Flow, !.failed = TRUE]
       \/ /\ UNCHANGED view
          /\ probe' = [probe EXCEPT !.at = "cleanup", !.failed = TRUE]
    /\ UNCHANGED <<seat, faults>> /\ ProbeKeeps

AfterDwell == IF probe.order THEN "cancelIt"
              ELSE IF probe.flow = "abandon" THEN "abandonIt" ELSE "confirmIt"

(* dwell: reads for ten seconds; fewer than two, or one that raises, fail. *)
Dwell ==
    /\ probe.at = "dwell" /\ ~stopProbe
    /\ view' = AfterRead
    /\ \/ probe' = [probe EXCEPT !.at = AfterDwell]
       \/ probe' = [probe EXCEPT !.at = "cleanup", !.failed = TRUE]
    /\ UNCHANGED <<seat, faults>> /\ ProbeKeeps

(* The resource gate stops the probe at its next read, or flow.            *)
ProbeIsStopped ==
    /\ probe.at \in Waits \cup {"dwell", "holdIt"} /\ stopProbe
    /\ probe' = [probe EXCEPT !.at = "cleanup", !.failed = TRUE]
    /\ UNCHANGED <<seat, view, faults>> /\ ProbeKeeps

(* What a write does to the seat, if the stack accepts it.                 *)
Accepted(write) == CASE write = "holdIt" -> ~seat.hold /\ ~seat.order
                     [] write = "abandonIt" -> ~seat.order
                     [] write = "confirmIt" -> seat.hold
                     [] write = "cancelIt" -> seat.order

Applied(write) ==
    CASE write = "holdIt" -> [seat EXCEPT !.hold = TRUE, !.spent = FALSE]
      [] write = "abandonIt" -> [seat EXCEPT !.hold = FALSE]
      [] write = "confirmIt" -> [seat EXCEPT !.order = TRUE, !.spent = TRUE,
                                             !.queue = Append(@, "HELD")]
      [] write = "cancelIt" -> [seat EXCEPT !.order = FALSE,
                                            !.queue = Append(@, "AVAILABLE")]

(* The change of a hold is announced with it, that of an order only when   *)
(* it is projected.                                                        *)
Effect(write) ==
    /\ seat' = Applied(write)
    /\ IF write \in {"holdIt", "abandonIt"} /\ seat' # seat THEN Announced
       ELSE UNCHANGED view

(* active_checkout and active_order, when the answer has come.             *)
Noted(write) ==
    [probe EXCEPT
        !.checkout = CASE write = "holdIt" -> TRUE
                       [] write \in {"abandonIt", "confirmIt"} -> FALSE
                       [] OTHER -> @,
        !.order = CASE write = "confirmIt" -> TRUE [] write = "cancelIt" -> FALSE
                    [] OTHER -> @,
        !.at = CASE write = "holdIt" -> "seeHold" [] write = "abandonIt" -> "seeAbandon"
                 [] write = "confirmIt" -> "seeConfirm" [] OTHER -> "seeCancel"]

Write ==
    /\ probe.at \in Writes
    /\ probe.at = "holdIt" => ~stopProbe
    /\ \/ /\ Accepted(probe.at) /\ Effect(probe.at)
          /\ probe' = Noted(probe.at) /\ UNCHANGED faults
       \/ /\ ~Accepted(probe.at)
          /\ probe' = [probe EXCEPT !.at = "cleanup", !.failed = TRUE]
          /\ UNCHANGED <<seat, view, faults>>
       \/ /\ Fault
          /\ \/ Accepted(probe.at) /\ Effect(probe.at)
             \/ UNCHANGED <<seat, view>>
          /\ probe' = [probe EXCEPT !.at = "cleanup", !.failed = TRUE,
                                    !.unanswered = TRUE]
    /\ ProbeKeeps

CleanedUp ==
    CASE probe.checkout -> [probe EXCEPT !.checkout = FALSE]
      [] ~probe.checkout /\ probe.order -> [probe EXCEPT !.order = FALSE]
      [] OTHER -> [probe EXCEPT !.at = "ended"]

Mutant_NothingActive == stopProbe \/ ~(probe.checkout \/ probe.order)

NothingActive == ~(probe.checkout \/ probe.order)

(* finally: what is known to be active is given up, stopped or not; one    *)
(* attempt each, whose failure fails the probe.                            *)
CleanUp ==
    /\ probe.at = "cleanup"
    /\ \/ /\ NothingActive
          /\ probe' = [probe EXCEPT !.at = "ended"]
          /\ UNCHANGED <<seat, view, faults>>
       \/ /\ ~NothingActive
          /\ LET write == IF probe.checkout THEN "abandonIt" ELSE "cancelIt"
             IN IF Accepted(write) THEN Effect(write) ELSE UNCHANGED <<seat, view>>
          /\ probe' = CleanedUp
          /\ UNCHANGED faults
       \/ /\ ~NothingActive
          /\ Fault
          /\ probe' = [CleanedUp EXCEPT !.unanswered = TRUE]
          /\ UNCHANGED <<seat, view>>
    /\ ProbeKeeps

ProbeStep == WaitFor \/ Dwell \/ ProbeIsStopped \/ Write \/ CleanUp

-----------------------------------------------------------------------------
(* The thread that observes the stack, every three seconds, until it is    *)
(* joined; an error is a missed observation.                               *)

ObservationFails ==
    /\ pc \in {"watch", "join", "joining"}
    /\ Fault
    /\ missed' = TRUE
    /\ UNCHANGED <<point, container, stopProbe, probe, seat, view, stack, points,
                   lapses>>

-----------------------------------------------------------------------------
(* The main thread.                                                        *)

(* A point begins where the last one ended.  Its generator has a name of   *)
(* its own, whatever an earlier one left running.                          *)
StartPoint ==
    /\ pc = "idle" /\ points < MaxPoints
    /\ points' = points + 1
    /\ mode' \in Modes
    /\ pc' = "before"
    /\ reason' = FALSE /\ exit' = "none" /\ clean' = TRUE /\ missed' = FALSE
    /\ stopProbe' = FALSE /\ rebuilt' = FALSE /\ container' = "none"
    /\ result' = "none" /\ left' = FALSE /\ verified' = FALSE
    /\ probe' = [NoProbe EXCEPT !.unanswered = probe.unanswered]
    /\ UNCHANGED <<died, seat, view, unprojected, sound, holder, faults, lapses>>

(* The process ends, and its threads with it.                              *)
Ends ==
    /\ pc' = "idle"
    /\ died' = (died \/ ProbeRuns)
    /\ probe' = [probe EXCEPT !.at = IF ProbeRuns THEN "off" ELSE @]

Drained == ~unprojected /\ seat.queue = <<>>

(* Stack.verify: the outbox is drained within 30 s, the invariants hold,   *)
(* and the read model shows what the database says: a hold is a mismatch.  *)
Verifies == Drained /\ sound /\ ~holder /\ Display = seat.formal

(* A stack that does not verify is refused.                                *)
VerifyBefore ==
    /\ pc = "before"
    /\ IF Verifies THEN pc' = "launch" /\ UNCHANGED <<probe, died>> ELSE Ends
    /\ UNCHANGED <<mode, exit, clean, left, reason, verified, result,
                   container, threads, seat, view, stack, bounds>>

(* docker run; the probe of an open point starts with a snapshot.          *)
Launch ==
    /\ pc = "launch"
    /\ container' = "running"
    /\ probe' = IF mode = "open" THEN [probe EXCEPT !.at = "holdIt"] ELSE probe
    /\ view' = [FirstView EXCEPT !.status = Display]
    /\ Goto("watch")
    /\ UNCHANGED <<reason, verified, result, threads, seat, stack, bounds>>

(* The loop ends when the generator has, and the probe; a generator that   *)
(* was killed for want of memory ends it at once.                          *)
Watch ==
    /\ pc = "watch"
    /\ container = "exited"
    /\ exit = "killed" \/ ~ProbeRuns
    /\ reason' = (exit = "killed")
    /\ Goto("join")
    /\ UNCHANGED <<verified, result, container, threads, probe, seat, view, stack,
                   bounds>>

(* docker stop.                                                            *)
Stopped ==
    /\ reason' = TRUE
    /\ container' = "exited"
    /\ exit' = IF container = "running" THEN "failed" ELSE exit
    /\ pc' = "join"
    /\ UNCHANGED <<mode, clean, left, died, verified, result, threads, probe, seat,
                   view, stack, bounds>>

Mutant_StopGenerator == pc = "watch" /\ container = "running" /\ Stopped

(* A resource gate, or the wall-clock deadline, which is the probe's too.  *)
StopAtGate == pc = "watch" /\ Stopped

(* A sample or an inspection raises.                                       *)
WatchFails ==
    /\ pc = "watch"
    /\ Fault
    /\ reason' = TRUE
    /\ Goto("join")
    /\ UNCHANGED <<verified, result, container, threads, probe, seat, view, stack,
                   points, lapses>>

(* finally: the probe is told to stop if the point was.                    *)
TellProbe ==
    /\ pc = "join"
    /\ stopProbe' = (stopProbe \/ reason)
    /\ Goto("joining")
    /\ UNCHANGED <<reason, verified, result, container, missed, probe, seat, view,
                   stack, bounds>>

(* A probe that has not ended after 60 s is a reason of its own.           *)
JoinProbe ==
    /\ pc = "joining"
    /\ reason' = (reason \/ ProbeRuns)
    /\ Goto("remove")
    /\ UNCHANGED <<verified, result, container, threads, probe, seat, view, stack,
                   bounds>>

(* docker rm -f; when it fails the point ends here, without a result.      *)
RemoveGenerator ==
    /\ pc = "remove"
    /\ \/ /\ container' = "none"
          /\ Goto(IF mode = "hotspot" THEN "cleanup" ELSE "after")
          /\ UNCHANGED <<probe, faults>>
       \/ /\ Fault /\ UNCHANGED container
          /\ Ends /\ UNCHANGED <<mode, exit, clean, left>>
    /\ UNCHANGED <<reason, verified, result, threads, seat, view, stack, points,
                   lapses>>

(* The checkouts of the hotspot that are still SELECTING are abandoned.    *)
AbandonHotspot ==
    /\ pc = "cleanup"
    /\ holder' = FALSE
    /\ Goto("after")
    /\ UNCHANGED <<reason, verified, result, container, threads, probe, seat, view,
                   unprojected, sound, rebuilt, bounds>>

(* The counters of inventory before and after the point: what was changed  *)
(* was projected, in the generations it began with.                        *)
InventoryAgrees == Drained /\ ~rebuilt

VerifyAfter ==
    /\ pc = "after"
    /\ verified' = (Verifies /\ InventoryAgrees)
    /\ Goto("write")
    /\ UNCHANGED <<reason, result, container, threads, probe, seat, view, stack,
                   bounds>>

(* The load's own account: as many iterations of each kind as planned, all *)
(* of them completed, none with an error.                                  *)
Accounted == clean

(* result['valid']: the generator, the observations, the verifications and *)
(* the probe.                                                              *)
Valid ==
    /\ exit = "ok" /\ ~reason /\ ~missed /\ Accounted /\ verified
    /\ mode = "open" => probe.at = "ended" /\ ~probe.failed

(* What a point may have left when its result is written.                  *)
Remains ==
    \/ container # "none" \/ holder \/ ~Drained
    \/ mode = "open" /\ (ProbeRuns \/ seat.hold \/ seat.order)

WriteResult ==
    /\ pc = "write"
    /\ result' = IF Valid THEN "valid" ELSE "invalid"
    /\ left' = Remains
    /\ Ends
    /\ UNCHANGED <<mode, exit, clean, reason, verified, container, threads,
                   seat, view, stack, bounds>>

(* The process dies: its container and what it has written stay.           *)
Crash ==
    /\ pc \notin {"idle", "before"}
    /\ Fault
    /\ Ends
    /\ UNCHANGED <<mode, reason, exit, clean, verified, result, left, container,
                   threads, seat, view, stack, points, lapses>>

MainStep ==
    \/ VerifyBefore \/ Launch \/ Watch \/ StopAtGate \/ TellProbe \/ JoinProbe
    \/ RemoveGenerator \/ AbandonHotspot \/ VerifyAfter \/ WriteResult

StackStep ==
    ProjectChange \/ HoldIsCleanedUp \/ HoldsLapse \/ Rebuild \/ LoadActs
    \/ GeneratorExits

Finished == pc = "idle" /\ points = MaxPoints /\ UNCHANGED vars

Next ==
    \/ Finished \/ StartPoint \/ MainStep \/ WatchFails
    \/ ProbeStep \/ ObservationFails \/ StackStep \/ Crash

(* The commands of the main thread return, and its loop has a deadline.    *)
(* Neither the generator nor the probe need ever end.                      *)
Fairness == WF_vars(MainStep)

Spec == Init /\ [][Next]_vars /\ Fairness

-----------------------------------------------------------------------------
(* Properties.                                                             *)

(* A probe that ends without a failure has measured what it says: each     *)
(* time it took the seat to show a write, the write showed; a confirmation *)
(* in particular was projected, although the seat looked held before.      *)
SamplesAreTrue == probe.at = "ended" /\ ~probe.failed => ~probe.untrue

(* Whatever ends the probe - a stop, a refusal, a hold that has run out -  *)
(* once it has ended nothing it did is left on the seat, unless an answer  *)
(* of the stack was lost, or an earlier point ended before its probe.      *)
ProbeCleansUp ==
    probe.at = "ended" /\ ~probe.unanswered /\ ~died =>
        ~(seat.hold /\ ~seat.spent) /\ ~seat.order

(* A point whose result is valid has left no generator, probe, hold, order *)
(* or unprojected change to the next one.                                  *)
ValidPointLeavesNothing == result = "valid" => ~left

(* So neither the probe nor a point hands anything on (propagation.py and  *)
(* measure.py, their finally).                                             *)
NothingIsHandedOn == ProbeCleansUp /\ ValidPointLeavesNothing

(* Every point ends, though its generator or its probe may hang.           *)
PointEnds == pc # "idle" ~> pc = "idle"
=============================================================================
