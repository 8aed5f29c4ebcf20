--------------------------- MODULE WorkloadPools ---------------------------
(***************************************************************************)
(* The pools of a run of scripts/run_k6.py: before anything is written,    *)
(* run_k6 plans how many iterations k6 will start and refuses a run whose  *)
(* users or seats do not suffice; the workloads under src/performance/k6   *)
(* then take from the generated files by the number of the iteration, and  *)
(* each takes a user and a seat that nobody took before, for otherwise the *)
(* run would measure conflicts of its own making.                          *)
(*                                                                         *)
(* A workload has one flow, or, when it is mixed, several that k6 runs as  *)
(* scenarios of their own, each of which numbers its iterations itself.    *)
(***************************************************************************)
EXTENDS Naturals, FiniteSets, Functions

CONSTANT Runs  \* the arguments that run_k6 is called with

Grouped == {"formal-seat-contention", "temporary-hold-contention"}
Waves == {"formal-hot-seat-wave", "temporary-hold-hot-wave"}
Pays == {"payment-start", "payment-lifecycle"}
Single == Pays \union {"checkout", "login"}
Mixed == {"synthetic-mixed-read", "synthetic-mixed-transactional"}
Workloads == Grouped \union Waves \union Single \union Mixed \union {"auth-read"}
RunModes == {"smoke", "steady", "soak", "discovery", "spike", "wave"}

Flows(a) ==
    CASE a.workload = "synthetic-mixed-read" -> {"public", "auth", "seat-map"}
      [] a.workload = "synthetic-mixed-transactional" -> {"checkout", "payment"}
      [] OTHER -> {"main"}

(* rate (--rate, --group-rate), start and target are per flow, 0 where the *)
(* argument is missing; the durations are in seconds; contenders is also   *)
(* --wave-contenders; cold is --auth-mode.                                 *)
ConstantsAssumption ==
    \A a \in Runs :
        /\ a.workload \in Workloads /\ a.mode \in RunModes /\ a.cold \in BOOLEAN
        /\ {a.rate, a.start, a.target} \subseteq [Flows(a) -> Nat]
        /\ {a.vus, a.contenders, a.sessions, a.seats, a.authPool} \subseteq Nat
        /\ {a.duration, a.base, a.ramp, a.hold, a.recovery, a.down} \subseteq Nat

VARIABLES
    args,    \* the arguments of the run
    phase,   \* "planned", "refused", "running"
    started  \* the iterations of a flow that k6 has started

vars == <<args, phase, started>>

Larger(m, n) == IF m >= n THEN m ELSE n
Total(f) == SumFunction(f)

-----------------------------------------------------------------------------
(* The plan: iterations and the headroom for starts at the boundary.       *)

Constant == {"steady", "soak"}
Ramping == {"discovery", "spike"}

(* The seconds that a mode lasts; a spike without a --hold-duration holds  *)
(* for five seconds, a discovery does not hold.                            *)
SpikeHold(a) == IF a.hold = 0 THEN 5 ELSE a.hold
Seconds(a) == CASE a.mode \in Constant -> a.duration
                [] a.mode = "spike" -> a.base + a.ramp + SpikeHold(a) + a.recovery + a.down
                [] OTHER -> a.ramp + a.hold

PlannedIterationsBase(a) ==
    CASE a.mode = "smoke" -> 3
      [] a.mode = "wave" -> a.contenders
      [] a.mode \in Constant -> Total(a.rate) * a.duration
      [] OTHER -> Total(a.target) * Seconds(a)

Mutant_NoHeadroom(a) == 0

Headroom(a) ==
    CASE a.mode \in {"smoke", "wave"} -> 0
      [] a.mode \in Constant -> Larger(a.vus, Total(a.rate))
      [] OTHER -> Larger(a.vus, Total(a.target))

PoolRequired(a) == PlannedIterationsBase(a) + Headroom(a)

(* A mixed transactional run gives each of its flows a part of the pools.  *)
FlowRequired(a, flow) ==
    LET rate == IF a.mode = "spike" THEN a.target[flow] ELSE a.rate[flow]
    IN rate * Seconds(a) + Larger(a.vus, rate)

MixedRequired(a) == FlowRequired(a, "payment") + FlowRequired(a, "checkout")

-----------------------------------------------------------------------------
(* What is refused.                                                        *)

RatesGiven(a) ==
    /\ a.mode \in Constant => \A f \in Flows(a) : a.rate[f] > 0
    /\ a.mode \in Ramping =>
          \A f \in Flows(a) : a.target[f] > 0 /\ (IF a.workload \in Mixed THEN a.rate[f] ELSE a.start[f]) > 0

ModeFits(a) ==
    /\ (a.mode = "wave") <=> (a.workload \in Waves)
    /\ a.workload = "login" => a.mode # "soak"
    /\ a.workload = "synthetic-mixed-read" => a.mode \in {"steady", "spike", "soak"}
    /\ a.workload = "synthetic-mixed-transactional" => a.mode \in {"steady", "spike"}

PoolsSuffice(a) ==
    /\ a.workload \in Waves =>
          a.contenders \in {100, 500, 1000} /\ a.contenders <= a.sessions /\ a.seats >= 1
    /\ a.workload = "auth-read" =>
          /\ a.authPool \in 1..a.sessions
          /\ a.cold => PoolRequired(a) <= a.sessions
    /\ a.workload \in Grouped =>
          a.contenders \in 2..20 /\ a.contenders <= a.sessions /\ PoolRequired(a) <= a.seats
    /\ a.workload = "temporary-hold-contention" => PoolRequired(a) * a.contenders <= a.sessions
    /\ a.workload \in Single => PoolRequired(a) <= a.sessions
    /\ a.workload \in Single \ {"login"} => PoolRequired(a) <= a.seats
    /\ a.workload = "synthetic-mixed-transactional" =>
          MixedRequired(a) <= a.sessions /\ MixedRequired(a) <= a.seats

Validated(a) ==
    /\ a.mode \in Constant \union Ramping => a.vus > 0
    /\ ModeFits(a) /\ RatesGiven(a) /\ PoolsSuffice(a)

-----------------------------------------------------------------------------
(* k6: the iterations that a scenario can start, twice the area under its  *)
(* rate halved and rounded up, and one more at the boundary.               *)

First(a, flow) == IF a.workload \in Mixed THEN a.rate[flow] ELSE a.start[flow]

TwiceArea(a, flow) ==
    LET s == First(a, flow)
        r == a.target[flow]
    IN CASE a.mode \in Constant -> 2 * a.rate[flow] * a.duration
         [] a.mode = "discovery" -> (s + r) * a.ramp + 2 * r * a.hold
         [] OTHER -> 2 * s * a.base + (s + r) * a.ramp + 2 * r * SpikeHold(a)
                     + (r + s) * a.recovery + s * a.down

MaxStarts(a, flow) ==
    CASE a.mode = "smoke" -> 3
      [] a.mode = "wave" -> a.contenders
      [] OTHER -> (TwiceArea(a, flow) + 1) \div 2 + 1

(* A pool is given by what it lists and how much of that there is.         *)
Orders(a) == IF a.workload \in Mixed THEN FlowRequired(a, "payment") ELSE PoolRequired(a)
CheckoutOffset(a) == FlowRequired(a, "payment")

Contenders(a) == 0..(a.contenders - 1)

(* The users and the seats that an iteration of a workload takes.          *)
Takes(users, seats) == [users |-> users, seats |-> seats]

FormalSeatContention(a, i) == Takes({(i * a.contenders + c) % a.sessions : c \in Contenders(a)}, {i})
TemporaryHoldContention(a, i) == Takes({i * a.contenders + c : c \in Contenders(a)}, {i})
HotSeatWave(i) == Takes({i}, {0})
AuthRead(a, i) == Takes({IF a.cold THEN i ELSE i % a.authPool}, {})
Login(i) == Takes({i}, {})
Checkout(i) == Takes({i}, {i})
Payment(i) == Takes({i}, {i})
MixedRead(a, flow, i) == Takes(IF flow = "auth" THEN {i % a.sessions} ELSE {}, {})
MixedTransactional(a, flow, i) ==
    IF flow = "checkout" THEN Takes({CheckoutOffset(a) + i}, {CheckoutOffset(a) + i}) ELSE Payment(i)

Use(a, flow, i) ==
    CASE a.workload = "formal-seat-contention" -> FormalSeatContention(a, i)
      [] a.workload = "temporary-hold-contention" -> TemporaryHoldContention(a, i)
      [] a.workload \in Waves -> HotSeatWave(i)
      [] a.workload = "auth-read" -> AuthRead(a, i)
      [] a.workload = "login" -> Login(i)
      [] a.workload = "checkout" -> Checkout(i)
      [] a.workload \in Pays -> Payment(i)
      [] a.workload = "synthetic-mixed-read" -> MixedRead(a, flow, i)
      [] OTHER -> MixedTransactional(a, flow, i)

(* What an iteration throws "pool exhausted" at.                           *)
Exhausted(a, flow, i) ==
    \/ \E u \in Use(a, flow, i).users : u >= a.sessions
    \/ \E s \in Use(a, flow, i).seats : s >= a.seats
    \/ (a.workload \in Pays \/ flow = "payment") /\ i >= Orders(a)

-----------------------------------------------------------------------------
Init ==
    /\ args \in Runs
    /\ phase = "planned"
    /\ started = [f \in Flows(args) |-> 0]

Validate ==
    /\ phase = "planned"
    /\ phase' = IF Validated(args) THEN "running" ELSE "refused"
    /\ UNCHANGED <<args, started>>

Iterate(flow) ==
    /\ phase = "running" /\ started[flow] < MaxStarts(args, flow)
    /\ started' = [started EXCEPT ![flow] = @ + 1]
    /\ UNCHANGED <<args, phase>>

Next == Validate \/ \E flow \in Flows(args) : Iterate(flow)

Spec == Init /\ [][Next]_vars

-----------------------------------------------------------------------------
(* Workloads whose iterations may not share a user: a login is limited per *)
(* user, a checkout supersedes the one before, a cold session is cold once.*)
OneUser(a) == a.workload \notin {"formal-seat-contention", "synthetic-mixed-read"}
              /\ (a.workload = "auth-read" => a.cold)
OneSeat(a) == a.workload \notin Waves

(* run_k6 looks at the target of a ramp only: one that begins above its    *)
(* target starts more iterations than are planned.                         *)
Ascending(a) == a.mode \in Ramping => \A f \in Flows(a) : First(a, f) <= a.target[f]

(* In a run that was not refused no iteration finds its pool exhausted,    *)
(* and none takes a user or a seat that another took, neither one of its   *)
(* own flow nor one of the flow beside it; and the contenders for a seat   *)
(* are different users (run_k6.py validate_args, mixed_transactional_plan  *)
(* and the indices of the k6 workloads).                                   *)
PoolsAreOneShot ==
    phase = "running" /\ Ascending(args) =>
        \A f, g \in Flows(args) : \A i \in 0..(started[f] - 1) :
            LET j == started[g] - 1
                mine == Use(args, f, i)
                latest == Use(args, g, j)
            IN /\ ~Exhausted(args, f, i)
               /\ args.workload \in Grouped => Cardinality(mine.users) = args.contenders
               /\ j >= 0 /\ (f # g \/ i # j) =>
                     /\ OneUser(args) => mine.users \cap latest.users = {}
                     /\ OneSeat(args) => mine.seats \cap latest.seats = {}
=============================================================================
