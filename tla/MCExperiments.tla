---------------------------- MODULE MCExperiments ----------------------------
(***************************************************************************)
(* Instances of the two kinds of load experiments: the campaign on two     *)
(* hosts, with two commits and a change of evidence or a crash, and the    *)
(* points of the polling experiment.  A behaviour is that of one of them,  *)
(* and the other stays in its initial state.                               *)
(***************************************************************************)
EXTENDS LoadCampaign

CONSTANTS
    Modes, MaxPoints, MaxFaults, MaxLapses  \* of the points

VARIABLES
    experiment, \* the one this behaviour is of
    step, mode, reason, container, exit, clean, missed, stopProbe, probe, seat, view,
    unprojected, sound, holder, verified, rebuilt, result, remains, points, faults,
    lapses, died

Point == INSTANCE PollingPoint WITH
    pc <- step, left <- remains

ASSUME PointsAreValid == Point!ConstantsAssumption

pointVars == <<step, mode, reason, container, exit, clean, missed, stopProbe, probe, seat,
    view, unprojected, sound, holder, verified, rebuilt, result, remains, points, faults,
    lapses, died>>

everything == <<experiment, vars, pointVars>>

ExperimentsInit ==
    /\ experiment \in {"campaign", "point"}
    /\ Init /\ Point!Init
    /\ experiment = "point" => policy = "formal"

ExperimentsNext ==
    \/ /\ experiment = "campaign" /\ Next /\ UNCHANGED <<experiment, pointVars>>
       /\ crashes' + Cardinality(changed') <= 1
    \/ /\ experiment = "point" /\ Point!Next /\ UNCHANGED <<experiment, vars>>
       /\ faults' + lapses' <= 1

(* The fairness of PollingPoint.                                           *)
ExperimentsFairness ==
    WF_everything(experiment = "point" /\ Point!MainStep /\ UNCHANGED <<experiment, vars>>)

ExperimentsSpec == ExperimentsInit /\ [][ExperimentsNext]_everything /\ ExperimentsFairness

-----------------------------------------------------------------------------
(* A probe has measured what it says (propagation.py).                     *)
SamplesAreTrue == Point!SamplesAreTrue

(* Neither the probe nor a valid point hands anything on to the next one   *)
(* (propagation.py and measure.py, their finally).                         *)
NothingIsHandedOn == Point!NothingIsHandedOn

(* Every point ends, though its generator or its probe may hang            *)
(* (measure.py).                                                           *)
PointEnds == step # "idle" ~> step = "idle"
=============================================================================
