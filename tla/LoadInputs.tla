----------------------------- MODULE LoadInputs -----------------------------
(***************************************************************************)
(* What a load test is fed with.  src/performance/scripts/phase14_model.py *)
(* validates the frozen targets and hands out users and seats by index,    *)
(* src/performance/data/generate_dataset.py fills the database and exports *)
(* the files the generator reads, run_phase14.py plans a case, and the k6  *)
(* scripts turn the number of an iteration into a user, a session and its  *)
(* seats.  These four agree by arithmetic only: nothing checks at run time *)
(* that two journeys do not meet on a seat or that a seat was generated.   *)
(*                                                                         *)
(* A user is its zero-based index; a session is its event and its number,  *)
(* a seat the session and its number in it.                                *)
(***************************************************************************)
EXTENDS Integers, FiniteSets, Sequences

CONSTANTS
    Inputs,      \* the targets and profiles that are tried
    SeatsPerRow, \* of the layout made from targets (50)
    UserSlice,   \* users of a slice of the smoke mode (200)
    SeatSlice,   \* seats of a slice of the smoke mode (250)
    Cases        \* the cases that are planned

ConstantsAssumption ==
    SeatsPerRow \in Nat \ {0} /\ UserSlice \in Nat \ {0} /\ SeatSlice \in Nat \ {0}

VARIABLES
    stage,   \* "given", "refused", "loaded", "exported", "planned"
    t,       \* the targets, or for an ordinary dataset the profile
    dataset, \* the database and the exported files
    spec     \* the case

vars == <<stage, t, dataset, spec>>

Nothing == <<>>

(* The slices in the order of the targets, which the smoke mode numbers.   *)
UserSlices == <<"main", "calibration", "control", "payment", "expiry", "background",
                "backgroundHold", "backgroundOrder", "login">>
SeatSlices == <<"main", "payment", "expiry", "backgroundHold", "backgroundOrder", "control">>

Size(slice) == slice[2] - slice[1]
Ceil(a, b) == (a + b - 1) \div b
Last(s) == s[Len(s)]
Members(s) == {s[i] : i \in 1..Len(s)}

-----------------------------------------------------------------------------
(* phase14_model.py: the targets.                                          *)

(* _intervals(): proper slices below the limit that do not overlap.        *)
Intervals(slices, names, limit) ==
    /\ \A n \in names : 0 <= slices[n][1] /\ slices[n][1] < slices[n][2] /\ slices[n][2] <= limit
    /\ \A m, n \in names : m # n => slices[m][2] <= slices[n][1] \/ slices[n][2] <= slices[m][1]

Shares == {"browse", "hold", "order"}

Sessions(x) == x.events * x.sessionsPerEvent

ValidStage(x, stages, i) ==
    LET n == stages[i].users IN
    /\ n > (IF i = 1 THEN 0 ELSE stages[i - 1].users)
    /\ stages[i].ramp > 0 /\ stages[i].hold > 0
    /\ \A k \in Shares : (n * x.share[k]) % 100 = 0
    /\ n <= Size(x.slices["main"])

ValidTargets(x) ==
    /\ x.share["browse"] + x.share["hold"] + x.share["order"] = 100
    /\ x.activeAuthSessions + x.loginUsers <= x.registeredUsers
    /\ Intervals(x.slices, Members(UserSlices), x.registeredUsers)
    /\ Intervals(x.slices, Members(UserSlices) \ {"login"}, x.activeAuthSessions)
    /\ x.slices["login"][1] >= x.activeAuthSessions
    /\ Intervals(x.seatSlices, Members(SeatSlices), Sessions(x) * x.seatsPerSession)
    /\ x.hotspot.users = x.hotspot.seats * x.hotspot.contenders
    /\ \A r \in 1..Len(x.rounds) : \A i \in 1..Len(x.rounds[r]) : ValidStage(x, x.rounds[r], i)

(* load_targets() in the smoke mode: fewer users, the last stage of each   *)
(* round, and slices of one size in the order of the targets.              *)
SmokeSlice(x, name) ==
    LET i == CHOOSE j \in 1..Len(UserSlices) : UserSlices[j] = name
        first == (i - 1) * UserSlice
    IN CASE name = "main" -> <<0, x.smoke.users>>
         [] name = "calibration" -> <<first, first + x.smoke.authSamples>>
         [] name = "login" -> <<x.smoke.activeAuthSessions,
                                x.smoke.activeAuthSessions + x.smoke.loginUsers>>
         [] OTHER -> <<first, first + UserSlice>>

Smoke(x) ==
    [x EXCEPT
       !.mode = "smoke",
       !.registeredUsers = x.smoke.registeredUsers,
       !.activeAuthSessions = x.smoke.activeAuthSessions,
       !.loginUsers = x.smoke.loginUsers,
       !.seatsPerSession = x.smoke.seatsPerSession,
       !.refresh = x.smoke.refresh,
       !.rounds = [r \in 1..Len(x.rounds) |->
                     <<[users |-> x.smoke.users, ramp |-> x.smoke.ramp, hold |-> x.smoke.hold]>>],
       !.burst = x.smoke.users,
       !.hotspot = [users |-> x.smoke.users, seats |-> x.smoke.hotspotSeats,
                    contenders |-> x.hotspot.contenders],
       !.expiryOrders = x.smoke.users,
       !.slices = [n \in Members(UserSlices) |-> SmokeSlice(x, n)],
       !.seatSlices = [n \in Members(SeatSlices) |->
                         LET i == CHOOSE j \in 1..Len(SeatSlices) : SeatSlices[j] = n
                         IN <<(i - 1) * SeatSlice, i * SeatSlice>>]]

(* group(): blocks of 20 users, rotated by the seed.                       *)
Group(i, x) ==
    LET bucket == ((i + x.seed) % 20) * 5
    IN IF bucket < x.share["browse"] THEN "browse"
       ELSE IF bucket < x.share["browse"] + x.share["hold"] THEN "hold" ELSE "order"

(* seat(): neighbouring indices are in different sessions.                 *)
Seat(i, x, count) ==
    LET session == i % count
    IN <<session \div x.sessionsPerEvent + 1, (session % x.sessionsPerEvent) + 1, i \div count + 1>>

HotspotSeat(i, x, count, single) ==
    LET seat == IF single THEN 0 ELSE i \div x.hotspot.contenders
        spread == IF ~single /\ x.mode = "smoke" /\ x.hotspot.seats < count
                  THEN count \div x.hotspot.seats ELSE 1
    IN Seat(seat * spread, x, count)

(* online_plan(): a ramp and a hold of every stage.                        *)
OnlinePlan(x, round) ==
    LET stages == x.rounds[round]
        Before(i) == IF i = 1 THEN 0 ELSE stages[i - 1].users
        Phase(i, ramp) ==
            LET from == IF ramp THEN Before(i) ELSE stages[i].users
                seconds == IF ramp THEN stages[i].ramp ELSE stages[i].hold
            IN [from |-> from, users |-> stages[i].users,
                seconds |-> seconds, enters |-> stages[i].users - from]
    IN [k \in 1..2 * Len(stages) |-> Phase((k + 1) \div 2, k % 2 = 1)]

-----------------------------------------------------------------------------
(* generate_dataset.py: the profile, the database, the exported files.     *)

FirstRow(zones) ==
    LET first[i \in 1..Len(zones) + 1] == IF i = 1 THEN 1 ELSE first[i - 1] + zones[i - 1].rows
    IN first

ValidProfile(p) ==
    /\ p.events > 0 /\ p.sessionsPerEvent > 0
    /\ p.registeredUsers > 0 /\ p.activeAuthSessions > 0
    /\ p.activeAuthSessions <= p.registeredUsers
    /\ p.rows > 0 /\ p.seatsPerRow > 0
    /\ p.zones # <<>>
    /\ \A i, j \in 1..Len(p.zones) : i # j => p.zones[i].name # p.zones[j].name
    /\ \A i \in 1..Len(p.zones) : p.zones[i].rows > 0 /\ p.zones[i].price >= 0
    /\ FirstRow(p.zones)[Len(p.zones) + 1] - 1 = p.rows

(* zone_case(): the first zone whose rows include the row.                 *)
ZoneCase(zones, row) ==
    LET Includes(i) == FirstRow(zones)[i] <= row /\ row <= FirstRow(zones)[i] + zones[i].rows - 1
        hits == {i \in 1..Len(zones) : Includes(i)}
    IN IF hits = {} THEN "null" ELSE zones[CHOOSE i \in hits : \A j \in hits : i <= j].name

Position(p, seat) == [row |-> (seat - 1) \div p.seatsPerRow + 1,
                      number |-> ((seat - 1) % p.seatsPerRow) + 1]

(* build_generation_sql(): the rows it inserts.                            *)
Database(p) ==
    [seats |-> (1..p.events) \X (1..p.sessionsPerEvent) \X (1..p.rows * p.seatsPerRow),
     places |-> {[row |-> Position(p, s).row, number |-> Position(p, s).number,
                  zone |-> ZoneCase(p.zones, Position(p, s).row)] : s \in 1..p.rows * p.seatsPerRow},
     users |-> 1..p.registeredUsers,
     authenticated |-> 1..p.activeAuthSessions]

(* The profile that load_profile() and export_phase14() make of targets.   *)
Profile(x) ==
    [events |-> x.events, sessionsPerEvent |-> x.sessionsPerEvent,
     registeredUsers |-> x.registeredUsers, activeAuthSessions |-> x.activeAuthSessions,
     rows |-> x.seatsPerSession \div SeatsPerRow, seatsPerRow |-> SeatsPerRow,
     zones |-> <<[name |-> "STANDARD", rows |-> x.seatsPerSession \div SeatsPerRow, price |-> 68000]>>]

(* export_phase14(): workload-seats.json.                                  *)
ExportedSeats(p) ==
    LET sessions == Sessions(p)
        Row(i) == LET session == i % sessions
                  IN <<session \div p.sessionsPerEvent + 1, (session % p.sessionsPerEvent) + 1,
                       i \div sessions + 1>>
    IN [i \in 1..sessions * p.rows * p.seatsPerRow |-> Row(i - 1)]

(* load_workload_seats(): of an ordinary dataset, in the order of the ids. *)
LoadedSeats(p) ==
    LET seats == p.rows * p.seatsPerRow
        Row(i) == <<(i \div seats) \div p.sessionsPerEvent + 1,
                    ((i \div seats) % p.sessionsPerEvent) + 1, (i % seats) + 1>>
    IN [i \in 1..Sessions(p) * seats |-> Row(i - 1)]

(* build_dataset_manifest(): the targets of the hot and of the             *)
(* low-conflict workloads.                                                 *)
LowConflict(p) ==
    LET count == IF Sessions(p) < 4 THEN Sessions(p) ELSE 4
    IN [i \in 1..count |-> <<(i - 1) \div p.sessionsPerEvent + 1, ((i - 1) % p.sessionsPerEvent) + 1>>]

-----------------------------------------------------------------------------
(* run_phase14.py: a case.                                                 *)

Arrival(count, offset, users) == [count |-> count, offset |-> offset, users |-> users]

OnlineSeconds(x, round) ==
    LET plan == OnlinePlan(x, round)
        elapsed[k \in 0..Len(plan)] == IF k = 0 THEN 0 ELSE elapsed[k - 1] + plan[k].seconds
    IN elapsed[Len(plan)]

(* U1 keeps a virtual user per user; U2 lets them enter one after another. *)
Online(x, round) == [users |-> Last(OnlinePlan(x, round)).users]

Enters(x, round) ==
    LET plan == OnlinePlan(x, round)
        ramps == {k \in 1..Len(plan) : plan[k].enters # 0}
    IN [k \in ramps |-> Arrival(plan[k].enters, plan[k].from, 0)]

(* background(): the full target, when both models have passed it.         *)
Background(x, seconds) ==
    LET first == x.rounds[1][1]
        users == Last(x.rounds[1]).users
        Started(share) == Ceil(first.users * x.share[share] * seconds, first.ramp * 100)
    IN [background |-> Arrival(Ceil(users * 2 * seconds, x.refresh[1] + x.refresh[2]), 0, users),
        backgroundHold |-> Arrival(Started("hold"), 0, users),
        backgroundOrder |-> Arrival(Started("order"), 0, users)]

(* A case: the arrivals of its scenarios.  The refreshes of U2 and the     *)
(* control probes only read.                                               *)
BuildSpec(x, c) ==
    LET round == IF c.case \in {"U1", "U2"} THEN c.round ELSE 1
        seconds == CASE c.case \in {"U1", "U2"} -> OnlineSeconds(x, round)
                     [] c.case = "L1" -> x.loginSeconds
                     [] OTHER -> x.windowSeconds
    IN [case |-> c.case, round |-> round, sessionCount |-> c.sessionCount,
        main |-> CASE c.case = "U2" -> Enters(x, round)
                   [] c.case = "J1" -> <<Arrival(x.burst, 0, 0)>>
                   [] c.case \in {"H1", "H2", "H3"} -> <<Arrival(x.hotspot.users, 0, 0)>>
                   [] OTHER -> Nothing,
        online |-> IF c.case = "U1" THEN Online(x, round).users ELSE 0,
        background |-> IF c.case = "L1" THEN Background(x, seconds) ELSE Nothing,
        login |-> IF c.case = "L1" THEN x.loginUsers ELSE 0,
        payment |-> IF c.case \in {"U1", "U2", "J1", "L1"} THEN x.paymentRate * seconds ELSE 0]

(* startup_plan(): the users whose page start is expected.                 *)
StartupUsers(s) ==
    LET sum[k \in SUBSET DOMAIN s.main] ==
            IF k = {} THEN 0
            ELSE LET any == CHOOSE e \in k : TRUE IN s.main[any].count + sum[k \ {any}]
    IN CASE s.case = "U1" -> s.online
         [] s.case \in {"U2", "J1"} -> sum[DOMAIN s.main]
         [] OTHER -> 0

(* background_initialization(): how many identities of a background slice  *)
(* load the page before the timed load.                                    *)
WarmedCount(name, arrival) ==
    IF name = "background" /\ arrival.users < arrival.count THEN arrival.users ELSE arrival.count

-----------------------------------------------------------------------------
(* k6: phase14-flow.js.  guard_delivery() lets an executor start a few     *)
(* iterations more than were planned.                                      *)

Guard == 1

(* nextIndex(): what an iteration past the planned count does is nothing.  *)
Mutant_UncappedIndices(arrival) == {i + arrival.offset : i \in 0..arrival.count - 1 + Guard}

NextIndices(arrival) ==
    {i + arrival.offset : i \in {j \in 0..arrival.count - 1 + Guard : j < arrival.count}}

(* boundedIndex(): a user or a seat of a slice, or an exception.           *)
InSlice(slice, i) == i >= 0 /\ slice[1] + i < slice[2]
Identity(x, name, i) == x.slices[name][1] + i

Slot(x, name, i) ==
    IF name = "main"
    THEN (i % Sessions(x)) + (i \div Sessions(x)) * Sessions(x) * x.maxSeats
    ELSE i

Target(x, name, i) == Seat(x.seatSlices[name][1] + Slot(x, name, i), x, Sessions(x))

(* The seats purchase() holds: a hold with the page takes up to maxSeats   *)
(* neighbours, and then one more or one less; any other takes one.         *)
HeldSeats(x, seat, i, kind, withPage) ==
    LET chosen == (i % x.maxSeats) + 1
        count == IF kind = "hold" /\ withPage
                 THEN IF chosen = x.maxSeats THEN chosen ELSE chosen + 1
                 ELSE 1
    IN IF kind = "browse" THEN {} ELSE {<<seat[1], seat[2], seat[3] + j>> : j \in 0..count - 1}

Journey(x, name, i, kind, withPage) ==
    [user |-> Identity(x, name, i), slice |-> name, index |-> i, kind |-> kind,
     seats |-> HeldSeats(x, Target(x, name, i), i, kind, withPage)]

MainIndices(s) ==
    IF s.online > 0 THEN 0..s.online - 1 ELSE UNION {NextIndices(s.main[k]) : k \in DOMAIN s.main}

(* online(), enter() and burst().                                          *)
MainJourneys(x, s) ==
    IF s.case \in {"U1", "U2"} THEN {Journey(x, "main", i, Group(i, x), TRUE) : i \in MainIndices(s)}
    ELSE IF s.case = "J1" THEN {Journey(x, "main", i, "order", TRUE) : i \in MainIndices(s)}
    ELSE {}

(* backgroundHold(), backgroundOrder() and payment().                      *)
SideJourneys(x, s) ==
    {Journey(x, "payment", i, "order", FALSE) : i \in 0..s.payment - 1}
    \union UNION {{Journey(x, n, i, IF n = "backgroundHold" THEN "hold" ELSE "order", FALSE) :
                   i \in NextIndices(s.background[n])} :
                   n \in DOMAIN s.background \ {"background"}}

Journeys(x, s) == MainJourneys(x, s) \union SideJourneys(x, s)

(* The hold the runner itself keeps for the control probe.                 *)
Sentinel(x) == Target(x, "control", 0)

(* hotspot(): who contends for a seat.                                     *)
Contenders(x, s, seat) ==
    {i \in MainIndices(s) : HotspotSeat(i, x, s.sessionCount, s.case = "H3") = seat}

ContendedSeats(x, s) ==
    {HotspotSeat(i, x, s.sessionCount, s.case = "H3") : i \in MainIndices(s)}

(* The identities the background uses: refresh() begins again after the    *)
(* last user.                                                              *)
TimedIndices(name, arrival) ==
    {IF name = "background" THEN i % arrival.users ELSE i : i \in NextIndices(arrival)}

(* expiry_fixture() of phase14_verify.py.                                  *)
ExpiryRows(x) == [i \in 0..x.expiryOrders - 1 |->
                    [user |-> Identity(x, "expiry", i), seat |-> Target(x, "expiry", i)]]

(* user_scope() of phase14_verify.py: the numbers of a slice's users.      *)
UserScope(slice) == slice[1] + 1..slice[2]
UserNumber(i) == i + 1

-----------------------------------------------------------------------------
Init ==
    /\ t \in Inputs
    /\ stage = "given" /\ dataset = Nothing /\ spec = Nothing

(* load_targets(): the targets are valid as they are written, and in the   *)
(* smoke mode once more as they are used.                                  *)
LoadTargets ==
    /\ stage = "given" /\ t.mode = "formal"
    /\ IF ~ValidTargets(t) THEN stage' = "refused" /\ t' = t
       ELSE \/ stage' = "loaded" /\ t' = t
            \/ t' = Smoke(t) /\ stage' = IF ValidTargets(t') THEN "loaded" ELSE "refused"
    /\ UNCHANGED <<dataset, spec>>

(* export_phase14(), and the restore of what it exported.                  *)
Export ==
    /\ stage = "loaded"
    /\ IF ValidProfile(Profile(t))
       THEN /\ stage' = "exported"
            /\ dataset' = [rows |-> Database(Profile(t)), seats |-> ExportedSeats(Profile(t))]
       ELSE stage' = "refused" /\ UNCHANGED dataset
    /\ UNCHANGED <<t, spec>>

(* An ordinary dataset.                                                    *)
Generate ==
    /\ stage = "given" /\ t.mode = "profile"
    /\ IF ValidProfile(t)
       THEN /\ stage' = "exported"
            /\ dataset' = [rows |-> Database(t), seats |-> LoadedSeats(t)]
       ELSE stage' = "refused" /\ UNCHANGED dataset
    /\ UNCHANGED <<t, spec>>

(* build_spec() refuses a case whose payments do not fit their slice.      *)
Plan(c) ==
    /\ stage = "exported" /\ t.mode # "profile"
    /\ c.case \in {"U1", "U2"} => c.round \in 1..Len(t.rounds)
    /\ LET s == BuildSpec(t, c) IN
       IF s.payment <= Size(t.slices["payment"])
       THEN stage' = "planned" /\ spec' = s
       ELSE stage' = "refused" /\ UNCHANGED spec
    /\ UNCHANGED <<t, dataset>>

Next == LoadTargets \/ Export \/ Generate \/ \E c \in Cases : Plan(c)

Spec == Init /\ [][Next]_vars

-----------------------------------------------------------------------------
(* The files list every seat of the database once, each place of the hall  *)
(* is in exactly one zone and no zone is empty, and what the workloads are *)
(* pointed at was generated (generate_dataset.py:180, 549, 800).           *)
ExportIsTheDataset ==
    stage = "exported" =>
        LET rows == dataset.rows IN
        /\ Members(dataset.seats) = rows.seats /\ Len(dataset.seats) = Cardinality(rows.seats)
        /\ \A place \in rows.places : place.zone # "null"
        /\ Cardinality({<<place.row, place.number>> : place \in rows.places}) * Sessions(t)
             = Cardinality(rows.seats)
        /\ t.mode = "profile" =>
             /\ \A i \in 1..Len(t.zones) :
                  Cardinality({place \in rows.places : place.zone = t.zones[i].name})
                    = t.zones[i].rows * t.seatsPerRow
             /\ \A i \in 1..Len(LowConflict(t)) :
                  LowConflict(t)[i] \o <<1>> \in rows.seats
        /\ t.mode # "profile" =>
             \A i \in 1..Len(dataset.seats) : dataset.seats[i] = Seat(i - 1, t, Sessions(t))

(* Two journeys of a case never meet: each has a user of its own, with a   *)
(* session, and seats of its own that were generated, though a hold takes  *)
(* up to maxSeats neighbours of the seat it was given; none touches the    *)
(* sentinel, and the expiry fixture takes each user and seat once.  The    *)
(* scope in which the verification counts a slice's orders holds exactly   *)
(* that slice's users (phase14-flow.js:45, phase14_verify.py:13, 86).      *)
WritersNeverMeet ==
    stage = "planned" =>
        LET all == Journeys(t, spec) IN
        /\ \A j \in all :
             /\ InSlice(t.slices[j.slice], j.index)
             /\ j.user + 1 \in dataset.rows.authenticated
             /\ j.seats \subseteq dataset.rows.seats \ {Sentinel(t)}
             /\ \A n \in Members(UserSlices) :
                  UserNumber(j.user) \in UserScope(t.slices[n]) <=> n = j.slice
        /\ \A i, j \in all : i # j => i.user # j.user /\ i.seats \intersect j.seats = {}
        /\ LET rows == ExpiryRows(t) IN
           \A i, j \in DOMAIN rows : i # j =>
             /\ rows[i].seat # rows[j].seat /\ rows[i].seat \in dataset.rows.seats
             /\ rows[i].user # rows[j].user /\ rows[i].user + 1 \in dataset.rows.authenticated

(* Every planned user is delivered once, with exactly the planned shares   *)
(* of browsing, holding and ordering after every stage, and the page       *)
(* starts the evidence expects; the identities of the background are those *)
(* that were warmed, and a login finds a user without a session            *)
(* (phase14_model.py:90, run_phase14.py:112, phase14_startup.py:20).       *)
PlannedIsDelivered ==
    stage = "planned" =>
        /\ spec.case \in {"U1", "U2"} =>
             LET stages == t.rounds[spec.round] IN
             /\ MainIndices(spec) = 0..Last(stages).users - 1
             /\ \A k \in 1..Len(stages) : \A g \in Shares :
                  100 * Cardinality({i \in MainIndices(spec) : i < stages[k].users /\ Group(i, t) = g})
                    = stages[k].users * t.share[g]
        /\ spec.case \in {"U1", "U2", "J1"} =>
             StartupUsers(spec) = Cardinality(MainJourneys(t, spec))
        /\ \A n \in DOMAIN spec.background :
             TimedIndices(n, spec.background[n]) = 0..WarmedCount(n, spec.background[n]) - 1
        /\ \A i \in 0..spec.login - 1 :
             LET user == Identity(t, "login", i) IN
             user + 1 \in dataset.rows.users \ dataset.rows.authenticated

(* Every contended seat of a hotspot has exactly contendersPerSeat         *)
(* contenders, or all of them in H3; the seats are in as many sessions as  *)
(* the case asks for and there are seats, and the verification's count of  *)
(* winners is the number of seats (phase14_verify.py:50).                  *)
HotspotIsExact ==
    stage = "planned" /\ spec.case \in {"H1", "H2", "H3"} =>
        LET seats == ContendedSeats(t, spec)
            winners == IF spec.case = "H3" THEN 1 ELSE t.hotspot.seats
        IN /\ seats \subseteq dataset.rows.seats \ {Sentinel(t)}
           /\ Cardinality(seats) = winners
           /\ \A seat \in seats :
                Cardinality(Contenders(t, spec, seat))
                  = IF spec.case = "H3" THEN t.hotspot.users ELSE t.hotspot.contenders
           /\ spec.case # "H3" =>
                Cardinality({<<seat[1], seat[2]>> : seat \in seats})
                  = IF spec.sessionCount < winners THEN spec.sessionCount ELSE winners
=============================================================================
