--------------------------- MODULE FixedProtocol ---------------------------
(***************************************************************************)
(* The frozen A/B protocol of phase 18 (experiments/                       *)
(* phase18-admission-overload/protocol/protocol.py) and the gate that      *)
(* compares its evidence with the baseline (scripts/phase18_ab_gate.py).   *)
(* The protocol is five commands over one directory of evidence and over   *)
(* containers of fixed names, which it never removes. Each may be run      *)
(* again, after a failure too: every file is overwritten by whoever writes *)
(* it next, and only docker refuses a name for the second time.            *)
(***************************************************************************)
EXTENDS Naturals

CONSTANTS
    Scripts,     \* versions of the protocol's scripts
    Frozen,      \* the version the baseline was measured with
    MaxTrials,   \* bound on the measurements
    MaxEdits     \* bound on the changes to the scripts, and to a saved file

ConstantsAssumption ==
    /\ Frozen \in Scripts
    /\ MaxTrials \in Nat /\ MaxEdits \in Nat

VARIABLES
    scripts,   \* the version in the directory of the protocol
    clean,     \* git status of the system under test is empty
    source,    \* source.json: 0, or the version setup() has recorded
    stack,     \* the containers: "none", "partial", "ready", "up", "stopped"
    k6,        \* the container of k6 exists
    seat,      \* the seat of the burst: "free", "held"
    pc,        \* the step of measure(), "idle" between the commands
    trial,     \* the measurement that runs, or ran last
    whole,     \* its try block came to its end
    sampler,   \* its thread runs
    errors,    \* the thread has noted an error
    files,     \* per file of evidence: the trial that wrote it, 0: none, and whether it is good
    manifest,  \* the files by their hashes and the source of manifest.json; source 0: none
    passed,    \* history: the measurements that printed "Complete protocol passed."
    compared,  \* history: the gate has passed
    edits

Evidence == {"reads", "browser", "k6", "burst", "verifier", "samples"}
Nothing == [trial |-> 0, good |-> FALSE]

world == <<scripts, clean, edits>>
measuring == <<pc, trial, whole, sampler, errors, passed>>
vars == <<world, source, stack, k6, seat, measuring, files, manifest, compared>>

Init ==
    /\ scripts = Frozen /\ clean = TRUE /\ edits = 0
    /\ source = 0 /\ stack = "none" /\ k6 = FALSE /\ seat = "free"
    /\ pc = "idle" /\ trial = 0 /\ whole = FALSE /\ sampler = FALSE /\ errors = FALSE
    /\ passed = {} /\ compared = FALSE
    /\ files = [f \in Evidence |-> Nothing]
    /\ manifest = [files |-> files, source |-> 0]

-----------------------------------------------------------------------------
(* Outside of the protocol: somebody works on the repository, or on the    *)
(* evidence.                                                               *)

Edit ==
    /\ edits < MaxEdits /\ edits' = edits + 1
    /\ \/ \E v \in Scripts \ {scripts} : scripts' = v
          /\ UNCHANGED <<clean, files>>
       \/ \E f \in Evidence : files[f] # Nothing /\ files' = [files EXCEPT ![f].good = FALSE]
          /\ UNCHANGED <<scripts, clean>>
       \/ clean' = ~clean /\ UNCHANGED <<scripts, files>>
    /\ UNCHANGED <<source, stack, k6, seat, measuring, manifest, compared>>

-----------------------------------------------------------------------------
(* setup(): source.json is written first; then the networks and the        *)
(* containers are created, which fails where they exist.                   *)
Setup ==
    /\ pc = "idle" /\ clean
    /\ source' = scripts
    /\ IF stack = "none" THEN stack' \in {"partial", "ready"} ELSE UNCHANGED stack
    /\ UNCHANGED <<world, k6, seat, measuring, files, manifest, compared>>

Start ==
    /\ pc = "idle" /\ stack = "ready"
    /\ stack' \in {"partial", "up"}
    /\ UNCHANGED <<world, source, k6, seat, measuring, files, manifest, compared>>

Stop ==
    /\ pc = "idle" /\ stack = "up"
    /\ stack' = "stopped"
    /\ UNCHANGED <<world, source, k6, seat, measuring, files, manifest, compared>>

-----------------------------------------------------------------------------
(* measure(): the thread that samples the resources is started before the  *)
(* try block whose finally ends it.                                        *)

Unchanged == clean /\ source = scripts

(* measurement-start.json is saved in between; where that fails the process*)
(* waits for its own thread, for ever.                                     *)
Begin ==
    /\ pc = "idle" /\ trial < MaxTrials /\ Unchanged
    /\ trial' = trial + 1 /\ whole' = FALSE
    /\ sampler' = TRUE /\ errors' = FALSE
    /\ pc' \in {"reads", "hung"}
    /\ UNCHANGED <<world, source, stack, k6, seat, files, manifest, compared, passed>>

SamplingFails ==
    /\ sampler /\ errors' = TRUE
    /\ UNCHANGED <<world, source, stack, k6, seat, pc, trial, whole, sampler, passed, files, manifest, compared>>

Goto(next) == pc' = next /\ UNCHANGED <<trial, whole, sampler, errors, passed>>

(* A file is written by this trial, or left as it is.                      *)
Written(f, good) == files' = [files EXCEPT ![f] = [trial |-> trial, good |-> good]]
WrittenOrNot(f, good) == Written(f, good) \/ UNCHANGED files

(* An assertion, or any call, raises: nothing of the rest is done.         *)
Raise == Goto("join")
Rest == UNCHANGED <<world, source, stack, manifest, compared>>

(* reads.json is saved after the last of its assertions.                   *)
Reads ==
    /\ pc = "reads"
    /\ \/ stack = "up" /\ Written("reads", TRUE) /\ Goto("browser")
       \/ Raise /\ UNCHANGED files
    /\ UNCHANGED <<k6, seat>> /\ Rest

(* browser.mjs writes its file in a finally.                               *)
Browser ==
    /\ pc = "browser"
    /\ \/ Written("browser", TRUE) /\ Goto("k6")
       \/ Raise /\ WrittenOrNot("browser", FALSE)
    /\ UNCHANGED <<k6, seat>> /\ Rest

(* docker refuses the name of a container that exists; its summary stays.  *)
Refused == k6

K6 ==
    /\ pc = "k6"
    /\ IF Refused THEN Raise /\ UNCHANGED <<files, k6>>
       ELSE /\ k6' = TRUE
            /\ \/ Written("k6", TRUE) /\ Goto("burst")
               \/ Raise /\ WrittenOrNot("k6", FALSE)
    /\ UNCHANGED seat /\ Rest

(* Eight users reserve one seat. The rows are saved before the assertion   *)
(* that one of them won and seven were refused; logins come before.        *)
Burst ==
    /\ pc = "burst"
    /\ \/ seat = "free" /\ Written("burst", TRUE) /\ seat' = "held" /\ Goto("verify")
       \/ Raise /\ \/ Written("burst", FALSE) /\ seat' = "held"
                   \/ UNCHANGED files /\ seat' \in {seat, "held"}
    /\ UNCHANGED k6 /\ Rest

Verify ==
    /\ pc = "verify"
    /\ \/ Written("verifier", TRUE) /\ Goto("final")
       \/ Raise /\ WrittenOrNot("verifier", FALSE)
    /\ UNCHANGED <<k6, seat>> /\ Rest

Final ==
    /\ pc = "final"
    /\ \/ pc' = "join" /\ whole' = TRUE /\ UNCHANGED <<trial, sampler, errors, passed>>
       \/ Raise
    /\ UNCHANGED <<k6, seat, files>> /\ Rest

(* The finally: the thread is joined, what it has seen is saved, of a trial*)
(* that ended early too few samples to be good; then the logs are saved,   *)
(* which may fail, and errors are asserted away.                           *)
Join ==
    /\ pc = "join"
    /\ sampler' = FALSE
    /\ \E enough \in {whole, TRUE} : Written("samples", enough /\ ~errors)
    /\ \E saved \in BOOLEAN :
          passed' = IF whole /\ saved /\ ~errors THEN passed \union {trial} ELSE passed
    /\ pc' = "idle"
    /\ UNCHANGED <<k6, seat, trial, whole, errors>> /\ Rest

-----------------------------------------------------------------------------
(* manifest(): it asks PostgreSQL for its version and inspects every       *)
(* container, that of k6 as well, but does not ask whether measure()       *)
(* passed.                                                                 *)
Manifest ==
    /\ pc = "idle" /\ source # 0 /\ stack = "up" /\ k6
    /\ manifest' = [files |-> files, source |-> source]
    /\ UNCHANGED <<world, source, stack, k6, seat, measuring, files, compared>>

(* phase18_ab_gate.py, compare(): the scripts are the baseline's, every    *)
(* file has the hash that the manifest gives, and what it says is good.    *)
GateOpens ==
    /\ manifest.source = Frozen /\ scripts = Frozen
    /\ manifest.files = files
    /\ \A f \in Evidence : files[f].good

Compare ==
    /\ pc = "idle" /\ ~compared /\ GateOpens
    /\ compared' = TRUE
    /\ UNCHANGED <<world, source, stack, k6, seat, measuring, files, manifest>>

Measure == Reads \/ Browser \/ K6 \/ Burst \/ Verify \/ Final \/ Join

Next == Edit \/ Setup \/ Start \/ Stop \/ Begin \/ SamplingFails \/ Measure \/ Manifest \/ Compare

Spec == Init /\ [][Next]_vars

-----------------------------------------------------------------------------
(* The eight users of a burst find their seat free, however often the      *)
(* protocol was begun before (protocol.py, burst).                         *)
BurstFindsItsSeat == pc = "burst" => seat = "free"

(* What the gate accepts of the load is of one measurement: k6, the burst  *)
(* that follows it and the verifier over what they left                    *)
(* (phase18_ab_gate.py, compare).                                          *)
LoadIsOfOneTrial ==
    compared =>
        /\ manifest.files["k6"].trial = manifest.files["burst"].trial
        /\ manifest.files["burst"].trial = manifest.files["verifier"].trial

(* A measurement that passed is the only one whose load reached the stack, *)
(* and nobody samples when no measurement runs (protocol.py, measure).     *)
PassedOnce ==
    /\ \A n \in passed : files["k6"].trial = n /\ files["burst"].trial = n
    /\ sampler <=> pc # "idle"
=============================================================================
