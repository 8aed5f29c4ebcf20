-------------------------- MODULE ResourceRelease --------------------------
(***************************************************************************)
(* src/performance/scripts/phase14_stop_approved_projects.py makes room    *)
(* for a load test on a shared host: it stops the containers of three      *)
(* projects, shows that nothing else has changed, waits until the host is  *)
(* idle and watches two windows in which no page may be swapped.  Only     *)
(* then may load run.  Whoever else uses the host goes on using it, and an *)
(* observation that ended early is resumed from the saved inventory.       *)
(***************************************************************************)
EXTENDS Naturals, Sequences

CONSTANTS
    WindowSamples, \* samples of a window
    IdleSamples,   \* idle samples, one after the other, that settle the host
    SettleSamples, \* samples that fit into the settling deadline
    MaxForeign,    \* bound on what others do to their containers and volumes
    MaxSwaps,      \* bound on the pages that are swapped
    MaxAttempts    \* bound on the starts of the script

ConstantsAssumption ==
    /\ WindowSamples \in Nat \ {0} /\ IdleSamples \in Nat \ {0} /\ SettleSamples \in Nat
    /\ MaxForeign \in Nat /\ MaxSwaps \in Nat /\ MaxAttempts \in Nat

VARIABLES
    pc,         \* the script: "off", "select", "stop", "audit", "settle", "windows"
    selected,   \* the chosen containers: how many of their states others have changed, and running
    others,     \* how often the other containers have changed
    volumes,    \* the volumes of the selected containers are all there
    sampler,    \* the container that host() is read in runs
    swaps,      \* pages swapped since the beginning
    saved,      \* containers-before.json and volumes-before.json: the state of others, or none
    known,      \* the inventory of the script that runs
    idle, waited, \* the last samples that were idle; samples of the settling
    samples,    \* the swap counters of both windows
    gate,       \* gate.json: "none", "passed", "failed"
    foreign, attempts,
    auditedAt,  \* history: others when the last audit succeeded
    between,    \* history: a page was swapped since the first sample
    earned      \* history: auditedAt and between when gate.json was written

script == <<pc, known, idle, waited, samples>>
host == <<selected, others, volumes, sampler, swaps>>
history == <<auditedAt, between, earned>>
vars == <<script, host, saved, gate, foreign, attempts, history>>

None == [others |-> 0, known |-> FALSE]

Init ==
    /\ pc = "off" /\ known = None /\ idle = 0 /\ waited = 0 /\ samples = <<>>
    /\ selected = TRUE /\ others = 0 /\ volumes = TRUE /\ sampler = TRUE /\ swaps = 0
    /\ saved = None /\ gate = "none"
    /\ foreign = 0 /\ attempts = 0
    /\ auditedAt = 0 /\ between = FALSE
    /\ earned = [others |-> 0, swapped |-> FALSE]

-----------------------------------------------------------------------------
(* The host and its other users.                                           *)

Foreign == foreign < MaxForeign /\ foreign' = foreign + 1

(* A container is started, stopped, created or removed; its StartedAt is   *)
(* part of what is compared, so that it never looks as it did before.      *)
OthersChange ==
    /\ Foreign
    /\ others' = others + 1
    /\ \/ UNCHANGED sampler
       \/ sampler /\ sampler' = FALSE
    /\ UNCHANGED <<script, selected, volumes, swaps, saved, gate, attempts, history>>

SelectedIsStarted ==
    /\ Foreign /\ ~selected
    /\ selected' = TRUE
    /\ UNCHANGED <<script, others, volumes, sampler, swaps, saved, gate, attempts, history>>

VolumeIsRemoved ==
    /\ Foreign /\ volumes
    /\ volumes' = FALSE
    /\ UNCHANGED <<script, selected, others, sampler, swaps, saved, gate, attempts, history>>

Swap ==
    /\ swaps < MaxSwaps
    /\ swaps' = swaps + 1
    /\ between' = TRUE
    /\ UNCHANGED <<script, selected, others, volumes, sampler, saved, gate, foreign, attempts,
                   auditedAt, earned>>

-----------------------------------------------------------------------------
(* The script.  What raises ends it; a command that fails, the operator or *)
(* the host may end it too, between any two steps.                         *)

Begin ==
    /\ pc = "off" /\ attempts < MaxAttempts
    /\ attempts' = attempts + 1
    /\ idle' = 0 /\ waited' = 0 /\ samples' = <<>>

(* run() writes into a directory of its own, so nothing of an earlier run  *)
(* is in it; resume_observation() reads what the run saved.                *)
Run ==
    /\ Begin
    /\ pc' = "select" /\ known' = None
    /\ saved' = None /\ gate' = "none"
    /\ UNCHANGED <<host, foreign, history>>

Resume ==
    /\ Begin
    /\ saved.known
    /\ pc' = "audit" /\ known' = saved
    /\ UNCHANGED <<host, saved, gate, foreign, history>>

Stay == UNCHANGED <<host, foreign, attempts>>

Die ==
    /\ pc # "off"
    /\ pc' = "off"
    /\ UNCHANGED <<known, idle, waited, samples, host, saved, gate, foreign, attempts, history>>

(* The inventory, saved before anything is stopped.  A volume that is gone *)
(* cannot be inspected.                                                    *)
Select ==
    /\ pc = "select" /\ sampler /\ volumes
    /\ known' = [others |-> others, known |-> TRUE]
    /\ saved' = [others |-> others, known |-> TRUE]
    /\ pc' = "stop"
    /\ UNCHANGED <<idle, waited, samples, gate, history>> /\ Stay

(* The chosen containers are read again by their ids, and those that run   *)
(* are stopped.                                                            *)
Stop ==
    /\ pc = "stop"
    /\ selected' = FALSE
    /\ pc' = "audit"
    /\ UNCHANGED <<known, idle, waited, samples, others, volumes, sampler, swaps,
                   saved, gate, foreign, attempts, history>>

AsBefore == ~selected /\ volumes /\ others = known.others

(* The audit after the stop, or the revalidation of a resumed observation. *)
Audit ==
    /\ pc = "audit"
    /\ IF AsBefore /\ sampler THEN pc' = "settle" /\ auditedAt' = others
                              ELSE pc' = "off" /\ UNCHANGED auditedAt
    /\ UNCHANGED <<known, idle, waited, samples, saved, gate, between, earned>> /\ Stay

Settle ==
    /\ pc = "settle" /\ sampler
    /\ waited < SettleSamples
    /\ waited' = waited + 1
    /\ \/ idle' = idle + 1
       \/ idle' = 0
    /\ pc' = IF idle' = IdleSamples THEN "windows" ELSE "settle"
    /\ UNCHANGED <<known, samples, saved, gate, history>> /\ Stay

NotIdle ==
    /\ pc = "settle" /\ waited = SettleSamples
    /\ pc' = "off"
    /\ UNCHANGED <<known, idle, waited, samples, saved, gate, history>> /\ Stay

(* A sample of the two windows, which follow one another.                  *)
Sample ==
    /\ pc = "windows" /\ sampler /\ Len(samples) + 1 < 2 * WindowSamples
    /\ samples' = Append(samples, swaps)
    /\ between' = (between /\ samples # <<>>)
    /\ UNCHANGED <<pc, known, idle, waited, saved, gate, auditedAt, earned>> /\ Stay

(* swap_stable(), of each window and of both together.                     *)
Stable(seen, from, to) == \A i \in from..to : seen[i] = seen[from]
Mutant_StablePerWindow(seen) ==
    /\ Stable(seen, 1, WindowSamples)
    /\ Stable(seen, WindowSamples + 1, 2 * WindowSamples)

AllStable(seen) ==
    /\ Stable(seen, 1, WindowSamples)
    /\ Stable(seen, WindowSamples + 1, 2 * WindowSamples)
    /\ Stable(seen, 1, 2 * WindowSamples)

(* The last sample decides.                                                *)
Decide ==
    /\ pc = "windows" /\ sampler /\ Len(samples) + 1 = 2 * WindowSamples
    /\ samples' = Append(samples, swaps)
    /\ gate' = IF AllStable(samples') THEN "passed" ELSE "failed"
    /\ earned' = [others |-> auditedAt, swapped |-> between]
    /\ pc' = "off"
    /\ UNCHANGED <<known, idle, waited, saved, auditedAt, between>> /\ Stay

Main == Select \/ Stop \/ Audit \/ Settle \/ NotIdle \/ Sample \/ Decide

Next ==
    \/ OthersChange \/ SelectedIsStarted \/ VolumeIsRemoved \/ Swap
    \/ Run \/ Resume \/ Die
    \/ Main

Spec == Init /\ [][Next]_vars

-----------------------------------------------------------------------------
(* An open gate was earned: no page was swapped from the first sample of   *)
(* the first window to the last of the second, the moment between the      *)
(* windows included (phase14_stop_approved_projects.py:111), and nobody's  *)
(* container but the approved ones was touched between the saved inventory *)
(* and the last audit, also when the run was ended in between and its      *)
(* observation resumed (phase14_stop_approved_projects.py:81, 131).        *)
GateIsEarned ==
    gate = "passed" => /\ ~earned.swapped
                       /\ saved.known /\ earned.others = saved.others
=============================================================================
