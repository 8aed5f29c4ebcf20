# Verification of the high-concurrency ticketing system

TLA+ models of `src/backend` (C++20 on Drogon, PostgreSQL, Redis, an external payment
channel), where the order of events decides whether a customer gets a seat once, pays once
and is never sold what somebody else has, and of the tools of `src/performance`, where it
decides whether a load test has measured what it says and leaves nothing behind.

    tlc -workers 2 -config Orders_safety.cfg MCTicketOrders.tla     # check a run
    tlapm TicketOrdersProofs.tla                                    # check the proofs

## 1. The system

### Components, their state and their operations

| component | state | operations |
|---|---|---|
| Reservation (`ReservationService`) | `reservations`, `reservation_session_seats`, `session_seats`, `orders` | create under an idempotency key; replay |
| Order lifecycle (`OrderLifecycleService`, `OrderExpiryService`, `OrderExpiryWorker`) | `orders`, `reservations`, `session_seats`, `payment_attempts` | cancel, expire, complete a payment |
| Payment (`PaymentService`) | `payment_attempts` | start, reuse, time out an attempt; call the channel |
| Refund (`RefundService`, `RefundLifecycleService`) | `refunds` and all of the above | ask for a refund; record its end |
| Payment reconciliation (`PaymentReconciliationService`, worker, Stripe webhooks) | leases and `next_reconcile_at`, `provider_events` | poll and retry the channel, deliver its answers |
| Payment providers (`StripePaymentProvider`, `SimulationPaymentProvider`) | the channel's objects | create, retrieve, map states |
| Checkout session (`CheckoutSessionService`) | `checkout_sessions`, `checkout_session_seats` | create, replace seats, abandon, confirm, reconcile on read |
| Seat holds (`SeatHoldService`) | Redis keys `seat-hold:*` = `checkoutSessionId|revision` with a TTL | prepare, ensure, abort, finalize, release (Lua) |
| Availability read model | Redis hashes and streams, `seat_availability_outbox` | project, rebuild, read, expire |
| Admission and overload control (`admission/`) | policies and their versions in PostgreSQL, waiting room and schedule in Redis, copies and permits in each instance | change a policy, refresh, tick, pause; join, leave, heartbeat, pass; acquire, release |
| Authentication (`AuthSessionService`, `AuthSessionCache`) | `user_sessions`, records in Redis, questions under way | authenticate strictly or for reading, touch, log out |
| Events, sessions, venues, administration | `events`, `sessions`, `session_seats` | draft, publish, read |
| Seat maps, notifications, metrics, HTTP, frontend | derived | read |

The load tools (`src/performance`) are processes of their own:

| component | state | operations |
|---|---|---|
| Two-host load test (`run_phase14.py`, `phase14_core.py`, `phase14_initialization.py`, `phase14_dual*.py`) | generators, records of the run, reasons to stop | restore, arm, release, watch, stop, judge |
| Campaigns (`phase14_campaign.py`, `phase14_memory.py`) | ledgers, checkpoints, qualification and its evidence | calibrate, rehearse, qualify, run, resume, observe memory |
| Smoke campaign (`run_phase14.py`) | database, snapshot, records | prepare, reset, execute, resume |
| Measured runs (`run_k6.py`, `run_baseline.py`, `run_login_experiment.py`, `reset_environment.py`) | the stack's containers, data, files, evidence | reset, generate, warm, measure, disturb, put back |
| Pools and inputs (`run_k6.py`, `generate_dataset.py`, `phase14_model.py`, `k6/`) | users and seats by index | plan, refuse, take |
| Journeys (`phase14-flow.js`, `phase14_verify.py`) | counts, rows | send, count, compare |
| Samplers (`phase14_pg_stream.py`, `phase14_topology.py`) | a command, its pipe and its lines | ask, give up, close |
| Warm-up (`phase14_startup.py`), failure regression (`phase14_regression.py`), release of host resources (`phase14_stop_approved_projects.py`) | a generator, a fixture, a host | start, watch, put back |
| Seat-map runs (`calibrate_seat_map.py`, `characterize_seat_map_capacity.py`, `diagnose_seat_map.py`) | counters before and after | probe, wait, load, subtract |
| Fixed protocol (phase 18 `protocol.py`, `phase18_ab_gate.py`) | files of one directory | set up, measure, verify, compare |
| Polling point (phase 19 `measure.py`, `propagation.py`, `calibrate.py`) | a probe of one seat, a generator, gates | hold, confirm, cancel, observe, stop, clean up |

### How they interact

A customer selects seats in a **checkout session**. Each change locks the checkout row,
writes **holds** to Redis, commits the selection to PostgreSQL and then cleans Redis up.
Confirming freezes the selection under a server-made key, creates the **reservation** and
its **order** in one transaction under that key, and writes the result into the checkout
row in another. The order is then paid, cancelled, expired or refunded by transactions
that all lock the order row first; the **channel** charges and refunds in its own time, and
its answers arrive by timers, webhooks, polling and the reconciliation worker, repeatedly
and late. Seats belong to an order through `reservation_session_seats`; a seat points back
(`current_reservation_id`) only while it is HELD. Redis holds and the read model never
decide a sale: only the row locks of PostgreSQL do.

Before any of this a request is **authenticated**: the cache of the sessions answers readers,
PostgreSQL the requests that change something, and readers of one session share a question.
Where an event has a policy, the **waiting room** lets users through: each instance copies
the policies from PostgreSQL, projects them to Redis, and runs the scheduler; all of
them share the queues, and change them only by one Lua script.

The load tools drive the backend from outside: they start containers and psql or k6 as
child processes, restore the database from a snapshot, and judge what the generators have
written. They share nothing with the backend but its API, its containers and its tables.

### What is hard

- Every HTTP handler is a chain of asynchronous callbacks, so two handlers interleave
  between any two transactions, and the process may die there.
- A commit may be reported as failed although it took place, and Redis may run a script
  whose answer never arrives.
- The channel answers late, repeatedly, and may contradict what the order has become.
- PostgreSQL and Redis are changed without a common transaction; compensations run late.
- The clock decides three races: payment period, processing grace, end of sales.
- Instances of the backend act on copies of a policy that others have changed since, and the
  queues they share may be lost with Redis at any moment.
- A tool may be interrupted or die between any two commands, a command may be obeyed although
  it failed, and a generator goes on without the tool that started it.

`PROJECT.json` lists each hazard at its line, with the properties that would notice it.

### What makes each component correct

- *Reservation, order, payment, refund*: a seat has one owner; an order is paid by one
  attempt; a charge is accepted or owed back; sold seats come back only by refund; closed
  orders stay closed; the grace period is honoured; everything that has expired or has been
  charged is settled in the end.
- *Checkout*: an answer "confirmed" is true; outcomes are final; a key stands for one
  request and creates at most one reservation; no reservation is lost to its checkout.
- *Holds*: what Redis has confirmed stays held until the TTL; nothing leaks; nobody touches
  another checkout's hold.
- *Reconciliation*: one worker at a time works on an object; no event is lost.
- *Read model*: it never goes back to an older version and catches up with the inventory.
- *Admission*: nobody is overtaken, a place is good only for the generation and mode it was
  taken in, limits are never exceeded, permits come back, and whoever waits is let in.
- *Authentication*: a request is allowed on a session that was valid, and every request that
  joined a question is answered with it.
- *Load tools*: no load is uncoordinated; a tool that fails stops its load, unless it is
  interrupted or docker does not stop it; what passes was measured, whole, on the stack and data
  it declares; what was disturbed is put back; every tool ends.

## 2. The modules

| module | models | instantiated by |
|---|---|---|
| `SeatSales` | abstract: what the backend promises about the seats of a session | refined by `TicketOrders` |
| `TicketOrders` | reservation, order, payment, refund transactions, the clock and the channel | `MCTicketOrders`, `MCProgress` |
| `CheckoutConfirm` | checkout sessions and the confirm chain over an abstract inventory | `MCCheckout`, `MCCheckoutConfirm` |
| `SeatHolds` | checkout handlers against Redis holds | `MCCheckout`, `MCSeatHolds` |
| `PaymentReconciliation` | attempts and refunds against the channel: leases, webhooks, crashes | `MCPaymentReconciliation`, `MCProgress` |
| `AvailabilityReadModel` | the seat map in Redis: outbox, projection, rebuild, sweeps, clients that follow it | `MCAvailabilityReadModel` |
| `AuthSessions` | sessions, their cache, joined reads and the bulkhead | `MCAccess` |
| `WaitingRoom` | policies, their projection, the queues and the scheduler | `MCAccess` |
| `LoadRun` | one execution of the two-host load test | `MCTools` |
| `LoadCampaign` | qualification and campaigns over such executions | `MCExperiments` |
| `PollingPoint` | a load point of the polling experiment, with its probe | `MCExperiments` |
| `PerformanceStack` | plans of measured runs on the isolated stack | `MCTools` |
| `SeatMapRun` | seat-map runs between two readings of counters | `MCTools` |
| `QualificationPoint` | points that qualify a generator under the same names | `MCTools` |
| `ResourceRelease` | making room on a shared host | `MCTools` |
| `LoadInputs` | the files, plans and slices a load test is fed with | `MCTools` |
| `WorkloadPools` | the pools of a run, and what its iterations take | `MCTools` |
| `SmokeCampaign` | the local smoke campaign | `MCTools` |
| `ActivitySampler` | questions to one long-lived command | `MCTools` |
| `FixedProtocol` | the frozen A/B protocol and its gate | `MCTools` |
| `JourneyAccounting` | counts of the journeys against rows | `MCTools` |
| `FixtureRegression` | the integration tests on a stack they stop and start | `MCTools` |
| `StartupWarmup` | the warming of background users before a timed load | `MCTools` |
| `TicketOrdersProofs` | types, seat ledger, one owner, `TicketOrders` implements `SeatSales`; locked reads, money, action properties | |
| `ReconciliationProofs` | the safety and action properties of `PaymentReconciliation` | |
| `WaitingRoomProofs` | places and leases: their namespace, losses, order and capacity | (`MCAccess` instantiates it) |
| `AccessProofs` | who is let through, joined reads, permits; `MCAccess` as a whole | |
| `CheckoutProofs` | confirmations are true, created once and kept; holds stay and none leaks; `MCCheckout` as a whole | |
| `AvailabilityProofs` | no change lost, counters, deltas, no way back | |
| `ExperimentsProofs` | campaigns are sound and whole, points measure what they say and hand nothing on | (`MCExperiments` instantiates them) |
| `ToolsProofs` | runs, samplers, plans, cases and reports of the load tools: `MCTools` as a whole | |

The `MC` modules give the constants values. `MCCheckout`, `MCProgress`, `MCExperiments`,
`MCAccess` and `MCTools` put systems that share no state side by side: a variable chosen in
the initial state says whose behaviour this is, and the others stay in their initial states.
So one run checks several small systems; each of them is the whole specification of its
module, under the bounds given with the run. Fairness of several of them shares a condition
where only one of them can be at work.

Definitions named `Mutant_...` stand before the definition they distort. Each is a
plausible bug; substituting it must break the property it is paired with, which shows that
the property has something to say about the code. They are not part of any specification.

### TicketOrders

One variable per column that a decision reads (the declarations name the columns).
Reservation and order are inserted by one transaction and are never separated, so an order
id names both.

All lifecycle transactions of an order are serialised by its row lock, so each is two steps:
`Begin...` takes the lock and captures what the code reads at that moment (`deadline_passed`
of the order, the answer that was delivered, the request's kind) in `tx[o]`; a `Commit...`
action evaluates the remaining guards and makes all writes visible. What may change between
the two is what does not need this lock: clocks, the channel, other orders and the
creation of reservations. `Rollback` is any end that writes nothing: early returns, SQL
errors, a crash. Early returns that would find nothing to do are not started.

| code | action |
|---|---|
| `ReservationService::create` | `CreateReservation` (`Fresh`, `OnSale`, the final gate) |
| `PaymentService::startPayment` | `BeginPay`, `CommitNewAttempt`, `CommitTimeOut`, `OpenPayment` |
| `OrderLifecycleService::cancel` / `OrderExpiryService` | `BeginCancel`, `CommitCancel` / `BeginExpire`, `CommitExpire` |
| `OrderLifecycleService::completePayment`, `completeProviderPayment` | `BeginCallback`, `CommitAccept`, `CommitAnswer` |
| `RefundService::request` | `BeginAsk`, `CommitAsk` |
| `RefundLifecycleService::complete` | `BeginRefund`, `CommitRefund`, `CommitReturn` |
| clock | `OrderExpires`, `GraceEnds`, `SessionStarts` |
| channel | `CustomerPays`, `ChannelRefunds` |

The service checks that log an invariant failure are guards here (`Intact`, `SoleOwner`);
that they never fail is a property (`LifecycleChecksHold`).

`DeclineIsFinal` says whether the channel may still charge an intent whose card was
declined. Stripe may; the code assumes not. The safety run, the proofs and `orders_decline`
drop the code's assumption; the liveness run makes it, as such a charge never settles.

### CheckoutConfirm

Confirm handlers are records in `req` that walk through `lookup`, `insert`, `reserve`,
`finalize`, `reset` or `close` to an answer. Each step is one transaction on the checkout
row or one part of `ReservationService`. The rest of the world (`OtherBuys`, `OrderCloses`,
`SalesEnd`) takes and frees seats as `TicketOrders` may. `Die` stands for every technical
failure and leaves the row as it is. `seatsReturn`, chosen
once, says whether taken seats ever become free again; two properties hold only if not.

### SeatHolds

A handler locks the row (`Locked`) from its first step to the end of its transaction and
then goes on without the lock (`finalize`, `abortLate`, `release`). The Lua scripts are
atomic steps written as sets of keys they delete (`Aborts`, `Finalizes`, `Own`) or as the
next keyspace (`Prepared`, `Ensured`). `secured` is a history variable: the seats for which
Redis has answered Applied and which the checkout has kept selected since. `failing`,
chosen once, is empty or `Faults`: the services that fail now and then.

### PaymentReconciliation

`TicketOrders` lets the channel's answer arrive at any time; this module shows how it gets
there. A row is `payment_attempts` or `refunds`: open (PROCESSING, TIMED_OUT) or final, with
its schedule (`next_reconcile_at`: none, later, due), its lease (`holder`, and `over` once
`reconciliation_lease_until` has passed) and whether it knows its channel object. Schedules
fall due and leases run out by steps of their own, in any order.

| code | action |
|---|---|
| `PaymentService::startPayment`, then `startProvider` | `CreateAttempt`, `StartProvider` |
| `RefundService::request` | `RequestRefund` |
| `StripeWebhookController` | `ReceiveWebhook` |
| `processInbox` | `ProcessInbox` (`Batch`, `Woken`) |
| `claimPayments`, `claimRefunds` | `ClaimPayments`, `ClaimRefunds`, `ClaimFails` |
| `StripePaymentProvider` | `ChannelAnswers`, `CallFails`, `ChannelSettles` |
| `recordProviderPayment`, the non-terminal update in `processRefund` | `RecordOpen` |
| `completeProviderPayment`, `RefundLifecycleService::complete` | `CompletePayment`, `CompleteRefund` |
| `handleProviderResult`, `releaseLease`, the failure update in `processRefund` | `RecordFailure` |
| a failed statement, a dead process | `RecordingFails`, `Crash` |

A round of the worker is the sequence `ProcessInbox`, `ClaimPayments`, `ClaimRefunds`, its
calls, `EndRound`; the calls of one round, of other rounds and of POST pay handlers are
records in `calls` and interleave freely. A call that fails may have been carried out by the
channel. Each round has a fresh token in the code; here the process stands for it, which
says the same because no call of an earlier round of that process is left when the next one
begins (a round ends with its last call, a crash takes its calls with it). Which orders
accept a success is decided in `TicketOrders`; here `CompletePayment` may owe it back or not.

### AvailabilityReadModel

The seat map of a session is derived twice: from `session_seats` through the triggers of
migration 010 and `seat_availability_outbox`, and from the seat holds, whose scripts carry
their own synchronization. `inventory`, `queued` and `lease` are the PostgreSQL side, `model`
(the derived keys with their stream), `raw` (the hold keys) and `lock` the Redis side, `todo`
and `answer` the round of a worker, `poll` the requests, and `sync` what a client knows: its
generation, its cursor and its view of each seat (`ZoneAvailabilityState` in the frontend).

| code | action |
|---|---|
| `session_seats` triggers | `ChangeStatus` |
| `SeatAvailabilityProjectionWorker::run` | `Claim`, `LeaseRunsOut` |
| `apply.lua`, `finishEvent` | `Apply`, `Finish`; without an answer `Leave`, `WorkerCrashes` |
| `hold.lua` around the scripts of `SeatHoldService` | `HoldScript`, `HoldElapses` |
| `Request::acquire`, `wait` | `Acquire`, `GiveUp`, `LockExpires` |
| `Request::initialize`, `init.lua` | `Load`, `Publish` |
| `expire.lua`, `read.lua` | `Expire`, `Read` |
| `error`, `fallback`, `unlock` | `Fails`, `Degraded` |
| Redis loses keys | `Flush`, `Damage` |

The rebuild is where the two sides may part: the inventory read in `Load` is published in
`Publish`, and a change in between must not be thrown away by a worker that finds no model
(`Deferred`) nor overwritten by an initializer whose lock has run out. A request that is told
to wait changes nothing, so `Acquire` may be its first step or its tenth. A hold and its entry
in the model run out in one instant: Redis has both to the millisecond.

### AuthSessions

A request walks from `new` through the GET of its cached record (`get`), the permit of a
reader that asks for others (`permit`), the statements `isActive`, `findActiveByTokenHash`
and `touch`, to an answer; a logout then goes on to `revoke`. `pending` is the map of
`authenticateReadOnly` from a session to the callbacks that wait for one answer, `leads` the
requests that ask for them. Writes to Redis are sent without waiting (`sends`): Redis executes
them in any order, or never gets them. What is executed late is therefore later than
anything that has happened since.

| code | action |
|---|---|
| `AuthSessionService::authenticate`, `authenticateReadOnly` | `Get`, `ReadHit`, `ReadJoins`, `ReadLeads` |
| `Bulkhead::acquire`, the destructor of `Permit` | `Acquire`, `Release` |
| `validateCachedRecord`, `findActiveByTokenHash`, `touch` | `Validate`, `Load`, `Touch`, `Unavailable` |
| `finishRecord`, `completed` | `FinishRecord`, `Tell` |
| `AuthSessionService::revoke` | `Revoke` |
| the account, the clock, Redis | `Disable`, `RunOut`, `CacheExpires`, `RedisExecutes` |

The driver answers every command, with a failure at worst. `began` and `source` are history:
whether the session was valid when a request began, and whose questions gave the answer.

### WaitingRoom

`log` is the sequence of policies (the version is its index); `marked` is the row of
`admission_runtime_generations`. In Redis, `runtime` is the version that the last sync has
written (0 when the keys are gone), and a generation is determined by the version.
`prequeue`, `waiting`, `presence`, `lease` and `paused` are the keys of the event,
`scheduled` its entry in the index that all instances share. Per instance, `snapshot`, `ready`
and `dirty` are the copy that `refresh` publishes under its mutex, and `doing` with `rows` and
`moved` the refresh or tick under way.

| code | action |
|---|---|
| `AdmissionPolicyController`, `AdmissionPolicy` | `Update`, `Invalidate` |
| `refresh` | `Read`, `Sync`, `SyncUnanswered`, `Mark`, `Publish`, `RefreshFails`, `RefreshEnds` |
| `reset` | `Reset` |
| `tick`, `redisUnavailable`, runtime pause | `TickBegins`, `Tick`, `TickRefused`, `TickFails`, `Unschedule`, `RedisUnavailable`, `Pause` |
| `waiting_room.lua` | `Project` (sync), `Join`, `Leave`, `Script` (tick) |
| heartbeats that do not come, clocks, faults | `Lapse`, `ClockTicks`, `PauseEnds`, `RedisLosesItsData`, `Crash` |

A heartbeat is the absence of `Lapse`. The numbers of tokens are chosen freely up to
`MaxTokens`; the capacity does not change; one event suffices, as no script touches two. A
request that is refused changes nothing and is not a step; so the age limit of `ready()`, which
only refuses more, is left out. Redis loses everything or nothing. A statement of a refresh
that fails has not been executed. `since` and `lost` are history: when a user has taken the
place held now, and the generations that were lost.

### LoadRun and LoadCampaign

`LoadRun` is `execute_case`: the coordinator (`Coordinator`), the thread of Initialization
(`Samples`), the generators (`Generator`), the thread that samples PostgreSQL and the clock.
`mode` chooses between the core, formal and smoke campaigns, which differ in their guard
interval and their abort. `Observe` collects what a round of watching found; a generator may
hang, die or go on without its coordinator. `LoadCampaign` takes such a run as one outcome and
models the order in which an operator starts processes, what each demands of the evidence of
the one before (`Qualifies`, `GuardHolds`, `Claimable`), the ledger and checkpoint of a
campaign, and its resumption (`SameIdentity`, `PassedPrefix`). Its estimates of time are units
of `Budget`; a hash is the number of times a file was changed.

### The measured stack: PerformanceStack, WorkloadPools, LoadInputs

`PerformanceStack` is one process after the other: a plan (`PlanNext`) resets or regenerates
the data, configures the backend, warms up and starts runs (`RunNext`), each of which is the
sequence `Steps(kind)` of commands of `run_k6.main` with its `finally` (`RestoreBackend`,
`RestoreRedis`). Every command may fail, with or without its effect; the operator may
interrupt and the process may die. Generations of data are numbers, so that a file or a row
left from another one shows. `compose up backend` also starts Redis, on which the backend
depends.

`WorkloadPools` is arithmetic: the iterations that are planned (`PlannedIterationsBase`) and the pools demanded for
them (`PoolRequired`) against the iterations that k6 starts (an area rounded up, and one more) and the user and seat each takes.
Ramps ascend. The flows of a mixed run number their iterations separately. `LoadInputs`
evaluates the validation of targets, the slices of users and seats, the order in which hot
sessions and seats are handed out, and the export, over valid and invalid inputs one by one.

### Experiments: PollingPoint, QualificationPoint, FixedProtocol, SeatMapRun

`PollingPoint` has the main thread of `measure.py`, the probe of `propagation.py` (its
loop as `Flow`, `Write`, `WaitFor`, `Dwell`, `CleanUp`) and the stack as far as the probe can
see it: holds that run out, an inventory that is projected later, a read model that is rebuilt.
`QualificationPoint` is `calibrate.py` twice at the same time, under the same names.
`FixedProtocol` has the commands of `protocol.py` as sequences of files written into one
directory; each command may be started again at any time, and the gate reads whatever is
there. The commit of the build container is not modelled. `SeatMapRun` has the exported
snapshot of the counters (`Scrape`), which lags behind the load (`Send`, `Answer`), and the
tools that wait for it (`Quieten`, `Drained`).

The two seat-map tools stop their generator in `except Exception` only, with a `docker stop`
whose result they ignore, and the diagnosis stops nothing. So `Raise` stops it (`Stopped`) or
does not (`NotStopped`), and `Interrupt`, which passes by that handler at any step, leaves it
running; `abandoned` remembers the runs of either kind. Their generators go on, a later run may
begin beside them (`crowded`), and what the counters then say is the load of both. The client's
end (`process.poll()`) is taken for that of its container: a client that ends first is left
out. A qualification point and the failure regression may be killed at any step as well
(`Killed`), which counts as a command of theirs that failed.

### Tools: SmokeCampaign, ResourceRelease, ActivitySampler, JourneyAccounting, FixtureRegression, StartupWarmup

`SmokeCampaign` is `prepare` and `campaign` of `run_phase14.py`, command by command, with a
database that is restored in many statements. `ResourceRelease` counts samples; others start,
stop and swap meanwhile. `ActivitySampler` has the pipe into the command and the queue of
lines that come back; nothing in an answer says which question it is to. The cadence of the
samples is left out. `JourneyAccounting` lets a request be carried out after its caller has
given up and compares the counts with the rows in the order of `phase14_verify.py`; hold and
adjust are one request there. `FixtureRegression` replays modules of tests that stop or
restart Redis; `StartupWarmup` the launch, the sampling, the guard and the end of the warming
generator, on one host or two; the swap policy is one of the reasons of the guard, and the
sampler of two hosts is taken for that of one.

## 3. The runs

Every run finishes in under four minutes with two workers.

| run | instance | shows |
|---|---|---|
| `orders_safety` | 2 seats, 2 orders, 2 attempts | one owner, money, locked reads, closed orders, the grace period; `TicketOrders` implements `SeatSales` |
| `progress` | 1 seat, 1 order, 2 attempts; or 1 attempt and its refund, 1 worker, 1 event per object and 1 about an unknown one, batch of 2, two webhooks received | expired orders close, charges and refunds settle; rows reach the channel, results are recorded, events are handed over |
| `orders_decline` | 1 seat, 1 order, 1 attempt, declines not final | violation, see findings |
| `checkout_safety` | 2 seats, 2 checkouts, 3 handlers, and 2 keys or revisions to 3 | answers are true, no reservation is lost while taken seats stay taken; confirmed holds stay and none leak while the services answer; late steps undo nothing (one reservation per key, final outcomes, holds of others) |
| `confirm_race` | the same, for the keys | violation, see findings |
| `holds_abort` | 1 seat, 1 checkout, 4 handlers, commits that fail | violation, see findings |
| `reconcile_safety` | 1 attempt and its refund, 2 workers, 1 POST pay call, 1 event per object | work is scheduled, rows agree with the channel, rounds without their lease change nothing |
| `avail_safety` | 1 seat with 2 changes, 1 owner, 2 polls of which one keeps its cursor, 1 worker, 1 fault | no change is lost, counters and holds are right, a followed view is right; rows never go back and the outbox empties |
| `access` | 3 requests on 1 or 2 sessions; waiting rooms of 2 instances, of 4 modes, of 3 users | see below |
| `waiting_loss` | 2 instances, 1 user, 1 loss | violation, see findings |
| `experiments` | 2 commits with a crash or changed evidence; 2 load points with a fault or a hold that runs out | campaigns are sound, a passed one is whole; samples are true, points hand nothing on and end |
| `tools` | one instance of every tool, see `MCTools` | see below |

`access`: `AllowedWhileValid` (a session was valid when the request began, or when the one it
heard from did), `WaitersAreLed` (a waiting reader has a request at work for it, permits come
back), `QualificationsStayApart` (a place or lease is used only in the generation and
namespace it was taken in, and a loss that another sync could not hide is noticed),
`QueueIsInOrder` (nobody who lives loses the place or is overtaken, and the capacity is kept)
and `EveryoneIsServed`.

`tools`: `LoadStaysInHand` and `PassedRunIsTrustworthy` about runs, `MeasuredAsDeclared` about
the stack and the counters a measurement is of, `SamplesAreAnswers`, `PlannedIsDelivered`
about users and seats, `CaseStartsClean`, `WholeCampaign`, `ToolsCleanUp` and
`EveryToolEnds`. Each is a conjunction over the tools that make the same promise; the comment
at its definition names the code. Some have a mutant in several tools. `ToolsCleanUp` does not
say that no generator is left: that of a seat-map run goes on when its tool is interrupted or
killed, or when the unchecked `docker stop` fails (calibrate_seat_map.py:178-188,
characterize_seat_map_capacity.py:213-221). It says that nothing else leaves one, whatever step
raises: no later step and no later run comes upon a generator of a run that is not `abandoned`.

Two shapes recur. Where the code makes one promise in several places, the property is the
conjunction of the parts, which stand with their own comments in the module they are about.
And `TypeOK`, where no theorem proves it, was checked with the module's run while it was
written but is not repeated by the runs.

### Why these bounds are enough

Two orders with two seats give every overlap of two sets of seats (equal, disjoint, one
inside the other), and a resale after a refund or expiry; two attempts give the two
successes that one order can receive, which race for acceptance; the interference of a
third attempt or order goes through the same rows and locks. The theorems remove these
bounds for `TicketOrders`. Two handlers of one checkout with one key are the smallest confirm
race; the third handler lets one of them come after both, or compete on the second
checkout. For the holds, a late clean-up, the PUT it may harm and one PUT between them
are three handlers; the faulty run uses four to find what needs one more. `MaxRevision`
only stops the counter. For the reconciliation, an attempt and its refund are the only rows
that one transaction joins; two workers give a lost lease and its successor, and the call of
a POST pay handler a recording without a token; one event per object suffices because an
event only moves a schedule, and `FallsDue` may do the same at any time. `progress`
gives the batch one place more than there are events without a row, and no POST pay handler
ever gets through to the channel, so that the worker is on its own; with a smaller batch
these fill it and later events wait for ever. In the code such events stay PENDING with
`next_retry_at` in the past; only the size of the batch (`BatchSize`) protects the others, so
that `EverythingIsReconciled` says nothing of that starvation, and no property does; the
schedule of the rows does not need the events. For the read
model, two changes of a seat are what can be applied out of order; the second poll sweeps,
invalidates or rebuilds between the steps of the first, and one fault is enough for a rebuild,
a lost answer or an early end of a lock. A stream that keeps two entries, and answers of one,
make trimming and paging common. Rows are independent but for the counters, which are sums
over rows.

Three requests are a reader that leads, one that joins it, and one that logs out or needs the
same permit for another session; one session that runs out or one disabled account is enough
to make any record stale. For the waiting room two instances are the smallest number that can
disagree about a version; the pair has the only fault that matters to them, a loss of a taken
place, and nobody is late in it; one instance takes all four modes in turn with two
versions and a fault; three users of whom one joined before the sale and two
after it show every order in which a batch of two may pass over one who has lapsed. Larger
instances (two instances with two versions and a fault, one with three versions, 7.8 and
2.7 million states) were checked for the safety properties while the module was written.

A run of the two-host test has two units, because units differ only in whether they come
before or after the one that fails. Campaigns have two commits, one crash or one change of
evidence and one repeated run; the product of all of these was checked apart from the
polling points. Two load points show what the first hands on to the second. Plans are two
entries long and put each kind of reset before each kind of workload that changes the stack;
two plans and one fault let the second plan find what a crash in the first has left. The inputs
of `LoadInputs` and `WorkloadPools` are listed in `MCTools`: each is valid or breaks one rule,
and the pools lie one below, at and one above what is demanded. `MaxAsked` of a sampler is
three: an answer that is late, the question that would take it, and one more.

Deadlock is not checked where requests, keys, orders or starts are used up: the system then
rightly stops.

### Fairness

`TicketOrders` assumes that clocks advance, that an open transaction ends (a commit or a
rollback; both the client time-outs and PostgreSQL see to that), and that the workers keep
coming back. The expiry worker and the reconciliation worker (`main.cpp` starts both; each
reschedules itself after a round, whether it failed or not) try again whenever the row is
free, so their steps are strongly fair: a row that is free again and again is eventually
taken, and a transaction that may succeed again and again is not rolled back for ever.
Nothing is assumed of customers: nobody has to pay, cancel or ask.

`PaymentReconciliation` assumes that schedules fall due and leases run out, that a
process that is up begins its next round and ends the one it is in, and that a call under way
is settled somehow (`STRIPE_HTTP_TIMEOUT_SECONDS`). Strongly fair are only the steps that
may fail but not always: the claim of payments (its failure ends the round, so that refunds
would never be reached), the claim of each due row (older rows come first, and a row that
waits becomes the oldest), the channel's answer within the lease (5 seconds of 30) and the
recording of a final one. Crashes, failures and lost webhooks may happen again and again, and
no webhook need ever arrive.

`AvailabilityReadModel` assumes that the worker's timer starts rounds and its
statements and scripts are answered, that leases and the init lock run out, and that a
rebuild goes from one step to the next. What fails is counted by `MaxFaults`. No client need
poll and no hold need end.

`AuthSessions` assumes that what was sent to PostgreSQL or Redis is answered or fails.
`WaitingRoom` assumes that the timers of an instance start its refreshes and ticks (strongly,
as a refresh and a tick exclude each other), that a refresh under way goes on, that a PUT that
was answered invalidates the copy, that a pause ends, and that a tick which may let
somebody in again and again does. Nobody has to join, stay or leave.

Of the load tools only their own process and the time that their deadlines measure are fair
(`Work` and `Time` in `MCTools`): generators may hang, and what fails may fail again, within the
bounds of each instance.

### Findings

- `orders_decline`: a declined PaymentIntent is recorded as FAILED for good, although the
  same intent may be charged later; that charge is neither accepted nor refunded.
- `confirm_race`: the reset of a refused handler clears the key under which a second
  handler has meanwhile created the reservation; the checkout forgets its reservation.
- `holds_abort`: after a commit that was reported as failed, the abort runs without the row
  lock and may delete the holds of a newer PUT that has the same target revision. This costs
  the customer a temporary hold; the reservation is still decided by PostgreSQL.
- `waiting_loss`: an instance that read "not initialized" may still initialize the generation
  after another one has, after users have joined and after Redis has lost them: the generation
  is the same, so no client is told to join again.

Further deviations that were met, and that no run repeats:

- prepare does not raise the revision of a hold it retains, so the late finalize of an older
  removal may delete it (`ConfirmedHoldsStay` of `SeatHolds` with `Faults = {"redis"}`, one
  seat, one checkout and four handlers; compare
  `docs/redis_seat_hold_phase7_design.md:79-82`);
- a poll may read a seat after its hold has run out and before it is swept, and show it on
  sale; if the same checkout then takes it again, the synchronization compares with the owner
  it still has stored and announces nothing, so that the client's map stays wrong until
  another change of that seat (`EveryRowIsPatched` of `AvailabilityReadModel` with two seats,
  owners and polls; compare `docs/phase16_availability_read_model_implementation.md:15`);
- the memory qualification promises to "always verify and restore" the baseline
  (`phase14_memory.py:105`), but leaves the database as it is when an earlier step raises
  (`BaselineIsRestored` of `LoadCampaign`);
- a read that overlaps a logout may write the session back to the cache, where plain reads
  believe it until the entry runs out; requests that change something ask PostgreSQL.

## 4. The proofs

All theorems hold for any sets `Seats`, `Orders`, `Attempts`, from the named assumptions of
`TicketOrders` (the "none" values are not ids; the switch is Boolean); those about other
modules from theirs.

`TypeOK` is inductive (`TypeCorrect`) and is used everywhere below.

`SeatsHaveOneOwner` is not inductive. Which order owns a SOLD seat is written nowhere:
it follows from the items of paid orders. `SeatLedger` keeps the four facts that imply it:
`RowsAgree` (reservation and order statuses correspond), `OrdersHaveSeats` (a pending
order's seats are HELD by it, a paid order's SOLD), `SeatsHaveOrders` (a held or sold seat
has such an order) and `PaidOrdersAreDisjoint`. `LedgerCorrect` proves it inductive with one
step per action; `OneOwner` and `ChecksHold` follow from it in one state.

`LockInv` relates an open transaction to the rows it will write: what it read under the lock
is still so (`LockedReadsStayTrue`), the answer it carries is the channel's
(`CarriedAnswers`), and money is accounted for (`MoneyAccountedFor`). The point is that a
step of another order, or of the channel, changes none of these. `LockedReads` and
`MoneyIsAccountedFor` follow; `PaidOnce` and `ProcessingIsUnique` are further inductive
invariants on top. The three action properties (`ReturnsFollowRefunds`,
`ClosedOrdersStayClosed`, `GraceIsHonoured`) are proved for each step from these invariants.

`Implements` shows that every step of `TicketOrders` maps to `Hold`, `Sell`, `GiveBack` or a
stutter of `SeatSales`, with a seat's owner chosen as the paid order that lists it; `OneOwner`
makes the choice unique.

`ReconciliationProofs` proves every invariant and action property of `PaymentReconciliation`
for any number of attempts, workers and unknown objects and any batch size. `Inv` adds to the
checked invariants what is on its way: `CallsAgree` (an answer under way is what the channel
has, or had while it was open), `EventsAgree` (events are about objects that exist) and
`RowsAreComplete` (a final row knows its object, a refund follows a success). The argument
goes through `RowStep`, all that any step can do to a row: leave it, insert it, work on it
while it is open, close it with the channel's result. `RowSteps` proves that for every action
once, and each conjunct of `Inv` is preserved by every `RowStep`, as the channel only moves
forward (`ChannelIsMonotone`). `LeaseStep` does the same for leases that still run.

`AccessProofs` proves `AllowedWhileValid` and `WaitersAreLed` of `AuthSessions`. The
first needs to know what a request has seen, wherever it is (`SeenValid`): once it has begun,
a session that is still valid was valid then, because revocations, expiries and disabled
accounts are never taken back; so what PostgreSQL confirms late counts for the beginning of
the request, and every record that Redis has, or may still execute a write of, is of such a
request. The second needs the shape of a group (`GroupsAreLed`): one leader, which is at work
and a member, readers of one session, everyone else waiting; and that a request which is about
to take a permit leads, so that a permit is only ever held by a leader and comes back with its
answer. Every answer goes through `Finish`, so `FinishKeeps` carries most of the argument, and
the other lemmas say what each handler adds to it.

`WaitingRoomProofs` proves `NamespacesApart` and `SettledLossIsNoticed`. A version of the
policy never changes once it is written, so the first is about versions: within a generation
every version asks for the same namespace, from the one a place was taken under to the last
that asks for a room at all (`GenerationsKeepTheirNamespace`; `rotatesGeneration` compares
namespaces, so OFF may come between only at the cost of a new generation), and places are of
the generation that Redis has (`PlacesAreOfTheGeneration`, which `EmptyRoom` in `Project`
restores). What Redis has, or a refresh is to bring there, is a version that asks for a room
(`RoomsAreServed`). `LossesAreOver` says why a settled loss stays one: the generation is at
most what is marked, and no refresh that goes by "not initialized" has read it; marks only
grow, up to the last generation (`MarksAreOld`), so a later reader of that generation finds it
marked and `Missing`, and asks for another one. For losses that come before the mark the code
gives no such promise, which is the finding `waiting_loss`.

The same module proves `KeepsPlaces` and `ReleasesInTurn`. The queue is written by ranks
(`Nth`, `Without`), so that no induction over sequences is needed: `Ranked` counts a set of
numbers by the cardinalities of its initial parts, and `WithoutKeepsOrder` says that what is
left of a queue comes from increasing positions of it. `KeepsPlaces` rests on `QueueInv`.
Nobody in the queue has a lease, not even one that has run out (`QueuedHaveNoLease`), so that
cleaning up leases never takes a place; and a generation never begins without a cause
(`GenerationsHaveACause`): the namespace changed, or Redis had lost the one before. The
second case is `reset`, which is allowed only after `Missing`, and `MarksAreReached` is why a
room that is `Missing` was lost: what is marked has been in Redis, which has a generation as
late as that or has lost one. From there the first version whose generation differs from that
of the room (`Least`) gives the disjunct that `KeepsPlaces` asks for. `ReleasesInTurn` needs
`QueueIsKnown` (nobody has two places) and that the conditions under which the script goes on
only get stricter along the line (`TurnsAreTaken`); for the capacity, the last user that is
let in was looked at while there was room for one more (`CapacityIsKept`), and leases that
have run out but are not cleaned up are counted. It assumes `ConstantsAssumption`: finitely
many users, numbered, and a capacity and a batch of at least one, which the script checks.

`AccessProofs` carries all of these over
to the three waiting rooms of `MCAccess`: in a behaviour of one of them every step is one of
its steps (`AccessSteps`), so its invariant is kept.

`CheckoutProofs` proves `ConfirmedIsTrue` and `FormalResultIsKept` of `CheckoutConfirm`, and
both action properties that `LateStepsAreHarmless` takes from it. Handlers of one checkout
overlap, and keys are reused by retries, so the invariant speaks of keys: a key stands for one
request (`KeysAreUnique`), the key in the row is one that a handler uses which read the
selection the row has (`KeysAreHeld`), the handler that inserted a key is alone with it and
has created nothing yet (`InsertsAreAlone`), and what a row or a finalizing handler says was
created (`WrittenIsCreated`). That a refusal is true, and nothing is lost, needs
`GivenUpIsBlocked`: a handler whose key has left the row, or is about to, holds a key under
which nothing was created and nothing can be any more, because a seat belongs to another key
or sales have ended. This is where `~seatsReturn` is used, and the finding `confirm_race`
shows what happens without it.

The same module proves `SecuredSeatsStayHeld` and `NoLeakedHold` of `SeatHolds`. `MCCheckout`
instantiates it with the bound on revisions and the kinds of faults left open (the `.cfg`
gives them), so its assumption on the constants is a hypothesis of the lemmas that the
module's `ASSUME HoldsAreValid` discharges. The invariant is `Holds!TypeInv`, whatever fails,
and `Calm` while Redis and PostgreSQL answer; the
properties are stated for that case too. Two handlers of one checkout may both be at work
after one has let go of the row lock, so `Calm` says what each still knows
(`HandlersKnowTheirRow`), that only one is before its commit (`OneAtATime`), and how
revisions keep them apart: a hold that a PUT adds has the next revision and a selected one
none that is newer than the row (`RevisionsTell`); a clean-up meets no wanted hold of its own
revision or an older one (`CleanUpsAreOld`), which is what the comparison in the finalize
script is for. `NothingLeaks` names for every hold its open checkout or the handler that will
delete it. `ForeignHoldsAreSafeCorrect` needs the types alone and holds whatever fails.
`HalvesAreWhole` shows that a behaviour of `MCCheckout` is one of each half, and
`LateStepsAreHarmlessCorrect` puts the action properties of both together.

`AvailabilityProofs` proves the invariants of `AvailabilityReadModel` and that no seat goes
back, for any finite set of seats and all limits. `NoChangeIsLost` is not inductive, because
an initializer publishes rows that it read earlier, and a worker answers "may be removed"
before it removes. `RowsCarryOn` says of the request that holds the init lock and has read
the inventory that its rows are no older than what customers saw last, and that a seat changed
since then has its change in the outbox; `RemovalsAreSafe` that an event to be removed is in
the model, if there is one, and in those rows. Both rest on `NothingIsMadeUp` (a version
belongs to one status of a seat) and on `LockMeansAbsent`: `apply.lua` defers while the lock
is taken, and a lock that was lost cannot publish. `NeverGoesBackCorrect` follows from
`FormalRowsStep`, all that a step does to the formal rows. `DeltasMissNothing` needs no more
than that cursors exist (`CursorsAreKnown`) and that a generation is never used twice
(`GenerationsAreCounted`); the argument is about steps: `Continues` says of a model that grows
within its generation that every row a customer would see changed is announced behind each
cursor that trimming has not overtaken. `ProjectedContinues` and `SyncedContinues` prove it of
`apply.lua` and of the scripts that synchronize holds, with `RecountedIsCounted` for the
counters: adding what the touched seats are and taking away what they were gives the recount.
`AnswerShape` says the same of paging: a page takes over the rows of the changes it covers and
leaves the others as they were. The assumption `FiniteSeats` is there for these sums; the
seats of a session are rows of a table.

`ExperimentsProofs` proves the four invariants of the load experiments. For the campaigns
(`LoadCampaign`), `CampaignInv` says what survives a process: the evidence of a qualified
commit stands and nothing is under way that would replace it (`EvidenceStands`); the records
of a file, and of the ledger in memory, tell of runs that were made, one per job and each
later than the ones before (`Tells`), compared with the control before them (`Compares`) and
made from the commit of the campaign as far as its guards saw to it (`StaysOnCommit`). A run
made after the guard passed may still be of a newer commit; the guard of the next job notices,
so only the last record of a campaign can be of one, and `RunIsSound` remembers of a run that
is not recorded yet that all before it were of the commit. `PrefixIsSound` carries all that
over a resumption. For a core campaign, which goes on after failures, `CoreIsWatched` says
that every run has its record and that `stop_all` was set in time: a control that neither
passed nor stopped the campaign has ended its family or never had its background, so the
loaded L2 after it is run only against a control that passed (`GroundGrows`, `StopsStill`).

For a point (`PollingPoint`), `ProbeRelies` says at each place of the probe what a probe that
has not failed may rely on: before it holds the seat no change of it is under way, and while
it waits for one, at most that one is. So the first answer that shows what it waits for is
brought about by that change. `ProbeNotes` says that what it did to the seat it has noted, as long as its requests
are answered, which is what its `finally` gives back; and `PointIsClosed` what the main thread
has seen to before it writes a valid result. The constants need no assumption but those of
the modules; nothing bounds commits, points or faults.

`ToolsProofs` proves five of the six invariants of `MCTools`, and `WholeCampaign` and
`ToolsCleanUp`, which also say what a step may not do. Each tool has an inductive
invariant of its own; a behaviour of `MCTools` is a behaviour of each tool that may stutter
(`SmokeSteps`, `SeatMapSteps` and the like), so the invariants hold together. Of the instances
the proofs use `InstancesAreValid` alone: no plan, suite or job is looked at.

- `LoadRun`: while a unit of a core campaign is missing, no other has sent a request and the
  release has not come, or no unit is left to see it (`NoneAlone`). What failed is a reason
  before the run is judged (`ReasonsAreKnown`). `LoadStaysInHandCorrect` has the hypothesis
  `StopsReach` (`~StopsFail /\ ~SlowStart`): `docker stop` and `docker inspect` work. That is
  what the run checks too; if the commands which stop a generator fail, nothing in the
  coordinator can keep it from going on. What makes a run pass needs no such hypothesis.
- `PerformanceStack`, the largest: `ChecksAreBehind` says of a run about to pass what its load
  and its verification have left in the database, `ChangesAreKnown` that a run which began on
  a whole stack has noted whatever it changed until its `finally` has undone it,
  `EvidenceIsInHand` that the counters in hand are of the run before them and the
  configuration is the declared one, and `FilesAreOfTheReset` that after a reset the files
  name the generation in PostgreSQL. The order of the steps of each kind of run is computed
  from the lists in `Steps` once (`RunsFollowTheirPath`); everything else goes by names. All
  of it holds through crashes of the tool at any step.
- `SeatMapRun`: while nothing else runs beside it and the backend has not restarted, a run
  knows which moment each of its readings is of (`CountersAreKnown`), so that the difference
  of two is its load (`PassedIsOver`). `LoadStopsWithTheTool` is inductive with the types: a
  generator that is alive is that of the run in its loop, or of a run that was interrupted or
  whose generator docker did not stop (`GeneratorsStop`).
- `JourneyAccounting`: as long as nobody was told of an error, the place of a journey, what
  PostgreSQL and Redis have of it and what was counted agree (`Journey`, `HotSeat`); equal
  cardinalities of finite sets of users then make the comparison exact.
- `SmokeCampaign`: a dump that is hashed was taken of a whole database (`NeverServesAPart`),
  and the data that a case begins on is the prepared one (`OnPreparedData`). The records of a
  campaign tell of a run of every job up to theirs, and only the last one written may be of a
  failure (`RecordsTell`): what a resumed campaign takes over has therefore passed
  (`TakenOverHasPassed`), which gives `WholeCampaign`.
- `QualificationPoint`: the list of a point has what it created and did not remove, and all
  of that unless one of its commands failed or it was killed (`ListIsKnown`). Another point with the same names
  finds them taken, so what a point removes is its own (`PointSteps`).
- `FixedProtocol`: nothing has loaded the stack before the container of a trial exists
  (`LoadedOnce`), and the files tell of the trial that created it (`LoadIsOwn`).
- `FixtureRegression`: as long as no test has failed, the calls that are left of it say in
  which state Redis is (`Undisturbed`); only a module that succeeded is followed by another.
  The two backends take turns until a command breaks off or the process is killed
  (`BackendsTakeTurns`).
- `StartupWarmup`, `ResourceRelease`, `ActivitySampler`: what a sample saw had run
  (`SeenHasRun`), a swapped page separates the counter from its first reading
  (`SwapsAreSeen`), and at most one question is on its way, whose late answer is taken for no
  other (`OneQuestion`, `Recorded`).
Only model-checked: the liveness properties (liveness under fairness is outside the prover),
among them the second half of `ChangesArriveForward`; and `PlannedIsDelivered`, most of which
says what a computation over its inputs returns (`LoadInputs`, `WorkloadPools`): that would
need induction over data, so TLC evaluates it on listed inputs. No `RECURSIVE` operator
and no induction over data is used in a module that is proved about.

## 5. Not modelled, and the plan

Left out on purpose: amounts and currencies (the total of a reservation is guarded against
overflow by a comparison before each addition), wording and layout of responses, metrics,
HTTP routing, cryptography, the frontend but for the view that follows the read model. A
Redis script that runs after its caller has given up is not modelled for the holds; the code's
defence (releasing under the row lock) is.

- *Payment providers*: the timers of `SimulationPaymentProvider` (a restart loses them, and
  simulated attempts are never claimed), exact lengths of backoff and lease, signatures.
- *Admission*: the token bucket and the traffic limits of `TrafficControl`, which count
  requests per time and keep no promise that outlives a request.
- *Authentication*: logging in, the login rate limiter (a counter with a TTL) and the executor
  that hashes passwords.
- *Seat maps, ownership cache, notifications*: they read, or cache a fact that never changes.
- *Events and administration*: drafts are single transactions before any sale.
- *Load tools*: texts of reports, SQL and plots; the frozen copies of earlier protocols
  under `experiments/*/diagnostics`, which nothing calls; `verify_observability.py` but for
  the step of a plan that calls it.

Planned, in this order:

1. A composition of `CheckoutConfirm` with `TicketOrders` (the abstract inventory replaced by
   the orders), and a model of the order in which rows are locked, for deadlock.
2. The login limiter and the token bucket at their limits.
