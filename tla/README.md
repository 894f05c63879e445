# A verification of Sanket

Sanket is a multi-tenant demand-forecasting and replenishment service: a FastAPI
backend (`backend/app`), an ML inference service (`backend/ml`), a React frontend,
PostgreSQL, Redis and an arq worker. This directory holds TLA+ models of the parts
whose correctness depends on interleavings, failures and time, the TLC
configurations that check them, and proofs of their most important properties.

Paths below are relative to `backend/app/` unless they say otherwise.

## Inventory

| component | state | operations | what is hard |
|---|---|---|---|
| AI gateway state (`services/llm/state.py`) | Redis: lease and cached result per request, request windows, token counter per day, one receipt per attempt, the breaker's hash | acquire, release, put, admit, reserve, settle, breaker_enter, breaker_finish | many workers, lost replies, expiry, midnight |
| AI gateway (`services/llm/service.py`, `client.py`, `telemetry.py`, `policy.py`) | one coroutine per request, the audit log, the workspace's policy | run, _produce, the deadline, the retry | every await interleaves; consent changes while the provider works; partial failure of the accounting |
| Forecast refreshes (`services/persisted_forecasts.py`, `workers/forecast_worker.py`) | a row per refresh, the runs, the arq queue, the input-change marker | request, claim, heartbeat, recover, split, complete, fail, read staleness | dead workers that are not dead, crash between commit and enqueue, imports during a run |
| Email (`services/notifications/communications.py`, `email.py`, `weekly.py`) | a row per delivery: state, lease, attempts | claim, begin dispatch, send, record | death around SMTP DATA, leases that expire |
| Outgoing webhooks (`services/webhooks.py`) | a row per delivery | dispatch, retry worker, manual retry | two senders of one row |
| Billing (`services/billing/subscription_manager.py`, `core/webhook_replay.py`) | a subscription row, the provider's state, seen event ids | start, verify, cancel, provider events | reordered, repeated and lost events; double checkout |
| Idempotency (`middleware/idempotency.py`) | a Redis key per request | claim, store, drop, replay | crash or exception between claim and store |
| Leader election (`core/distributed_lock.py`) | a Redis lease, a local flag | acquire, renew, release, run_as_leader | losing the lease while working |
| Tenant cache (`core/cache.py`) | a version and entries | get_or_set, invalidate | a fill that straddles a write |
| Returns ledger (`services/integrations/v2/event_registry.py`, `upload.py`) | registered events, sold and returned quantities, the read model | register, post a sale, post a return, confirm, reset | duplicates, concurrent returns, drafts approved later |
| Sales import (`services/integrations/file_import.py`, `services/sales_identity.py`, `services/data_quality_audit.py`) | keyed sales, copies from before keys existed, an advisory lock | import, correct, remove copies, drop invalid sales, reset | imports, repairs and resets at once |
| Settings and digests (`services/llm/policy.py`, `workers/whatsapp_digest.py`, `routers/notifications.py`, ...) | one JSON document per tenant | change the policy, change another key, send and stamp the day's digest | whole-document writes without a lock |
| ML admission (`backend/ml/sanket_ml/inference/throttle.py`) | a count, a semaphore, buckets | slot | timeouts and cancellation of waiters |
| Replenishment (`services/network_decisions.py`, `allocation.py`, `transfers.py`) | none | allocate, match_transfers | rounding, rationing |
| Decision queue (`services/decision_builder.py`, `routers/decisions.py`) | a row per decision | refresh, accept, dismiss | a refresh that crosses a planner's decision |
| Realtime (`realtime/connection_manager.py`) | sockets, a Redis subscription | publish, consume | duplicate delivery |
| Login attempts (`core/login_attempt.py`) | a counter with a window | record_failure, is_locked_out | increment and expiry are two calls |

The rest (authentication, connectors, reports, usage metering, the numerics of the
forecasts, the frontend) keeps no protocol of its own; `PROJECT.json` lists each
part with the reason it is left out.

How they interact: routers call services inside one database transaction per
request; the AI gateway, the tenant cache, idempotency, leader election and the
replay guard share state through Redis only; a forecast refresh goes through
PostgreSQL, the arq queue and HTTP to the ML service, and its result is read back
from PostgreSQL; background loops of `main.py` (webhook retries, digests, weekly
email) run under leader election.

## Plan

The order is by what a mistake costs and by how little a test can reach it.

1. `AIState`, `CircuitBreaker`, `AIService` (done): the gateway that spends money
   and sends customers' data to a third party.
2. `ForecastRefresh` (done): at most one active refresh per workspace, a fresh run reflects
   every committed input, a dead worker's refresh is recovered, a live one's result is
   not lost.
3. `EmailDelivery`, `WebhookDelivery`, `LeaderLock` and `BackgroundWork`, which puts the
   webhook worker under the leader that runs it (done).
4. `Billing`: the subscription row behind the replay guard (done).
5. `Idempotency`, `TenantCache`, `TenantSettings`: what is shared between requests (done).
6. `ReturnsLedger`, which refines `SaleAccount`; `SalesImport`; `InferenceThrottle` (done).
7. `Replenishment`: allocation and transfers against what their comments promise;
   `DecisionQueue` (done).

8. Proofs of every safety property that a run checks (done), in eight modules: one
   beside each of the gateway's two, one each for the refreshes, the background work, the
   services between requests (`Services_proofs`), the records (`Records_proofs`) and the
   decisions (`Decisions_proofs`), and one about sums that several of them use.

What is left: to model more of the parts that are modelled in part; `PROJECT.json` names
what each leaves out.

## How the proofs are built

Each theorem says of a specification that it keeps an invariant (`Spec => []P`), that no
step of it does what it may not (`Spec => [][A]_vars`), or that it implements an abstract
one (`CircuitBreaker`, `AIState` under `AIService`, `SaleAccount`), for every value of the constants
that satisfies the named assumptions of the modules. The assumptions say what the code's
settings and database give: bounds are numbers, `None` and its like are no identities, a
lease outlives the deadline of a request (`Grace > 0`), limits and packs are
positive, and where a sum or a count is taken over a set, the set is finite. No theorem
assumes the bounds of the runs.

A property is seldom kept by a step on its own. So each proof has an inductive
invariant: types, the property, and the relation that the code relies on between its
steps; these are named below, because they say why the code works. The proof has a lemma
per action or group of actions that touch the same part of the state, a lemma for the
initial states, one that puts the actions together, and a last step in temporal logic.
Where services, requests or rows are alike, the lemma is about one of them and the
others are shown to stand still.

Sums (tokens, returned quantities, stock) are the library's folds, whose order of
evaluation is the library's own choice, and the provers do no induction over a
predicate that is handed to them. `Sums_proofs` states induction for a *set* instead: a set
that has a subset of `S` whenever it has all smaller ones has all of them
(`SubsetInduction`, from the library's theorem that strict inclusion of finite sets is
well founded), the same element by element (`ElementInduction`), and over numbers
(`NumberInduction`). From it follow what a sum is without an element, how it changes
when one summand does, when it grows and how it scales (`SumTake`, `SumChange`,
`SumGrows`, `SumScaled`, ...). The counter of tokens, the cap of returns, the stock that is
shared out and the transfers are reasoned about with these.

Only model-checked are:

- liveness: `EveryRequestEnds`, `LeaseRecovers`, `BreakerRecovers`, `NoEternalSpinner`,
  `DeliveriesEnd`. Their proofs need `ENABLED` of the fair actions, which the
  provers do not have;
- the properties that fail: their counterexamples are TLC's.

## The AI gateway

`AIState` is `state.py`. A Lua script is atomic, so each script is one action
with the script's branches as disjuncts; the scripts' own helpers (`Blocked`,
`Counts`, `Trips`, `Opening`, `Closing`) are named for what each branch of `_ENTER` and
`_FINISH` means. A missing Redis field is `None` or zero. Times are what is left of
them: a lease's PX, `until - now`, `probe_until - now`.

`CircuitBreaker` is what the breaker promises without epochs, probes and clocks:
only an attempt admitted since the last change moves it.

`AIService` is `AIService.run`: one program counter per request, one label
per await, and `Ask` for what can become of a call of Redis. It extends `AIState`
and calls its actions, so the two are composed action by action. The correspondence:

| label | code | action |
|---|---|---|
| idle | `run`, the gates of `_run` | Start |
| admit, lookup, acquire | `_run` l. 84-95 | AdmitStep, LookupStep, AcquireStep |
| recheck, hit, heldHit | l. 88-92, 97-103 | RecheckStep, HitStep |
| check | `_check_policy` before an attempt | CheckStep |
| reserve, enter, start | l. 120-140 | ReserveStep, EnterStep, StartStep, StartFails |
| void, voidEntered | l. 126-130 | VoidStep |
| call | `client.complete` | Reply, CallTimeout, CallRaises |
| finish, settle, report | l. 147-151 | FinishStep, SettleStep, ReportStep |
| neutral | l. 152-159 | NeutralStep |
| backoff | l. 169 | BackoffStep |
| final, put | l. 161-164 | FinalStep, PutStep |
| release | `finally`, l. 105-109 | ReleaseStep |

`Timeout` and `Interrupt` stop a request at any label and release nothing, as the
code does when the task is being cancelled. `ChangePolicy` is an owner's change of
consent, `Tick` the passing of time.

### Runs

- `services` (the part "scripts" of `MCServices`): the scripts alone, called by anyone
  in any order, two attempts on two days. Two attempts are enough for every conflict
  over a probe (one that holds it, one that does not) and over the last tokens; two days
  for a settlement after midnight; three epochs (`MaxEpoch`) for a report from two
  changes ago.
- `ai_gateway`: two requests for one input, one retry each, two policies. A third
  request adds no new conflict over a lease that two do not have. The
  deadline is three units with one of slack and one of grace, so that a request can
  wait for another's lease, call, fail and retry within it, and its lease still
  outlives it. `Threshold` is 1, so that a single failure opens the breaker. One
  request is admitted a day (`PerMinute`, `PerDay`) and there are two days: the second
  request is refused or comes after a midnight, which may fall anywhere in the first.
- `ai_breaker`: two requests for different inputs. A lease is per input, so only
  these are with the provider at once, as the breaker's properties need. Three
  attempts (a failure that opens it and two that would probe) need a retry. The run
  identifies states that differ only in the audit log, results and auxiliary
  variables (`BreakerView`), which no guard and neither property reads.
- `ai_liveness`: two requests for one input without retries, with fairness.

Bounds that are not in the code: `MaxDay`, `MaxChanges` (changes of policy), `MaxEpoch`
(epochs of the breaker, only in `services`); in `AIService` each request runs once,
which bounds attempts by `MaxRetries`. Requests, and inputs where none is cached,
are interchangeable in every definition, so symmetry is sound; the liveness runs do
not use it.

### Fairness

`FairSpec` is weakly fair to the awaits the server completes itself (`Progress`), to
timers that are due (`CallTimeout`, `Timeout`) and to the clock: an asyncio loop runs
every ready callback and every due timer. It assumes nothing of the provider, of
clients or of owners. `Tick` waits while a timer is due: asyncio delivers a
timeout promptly relative to the seconds modelled here. The grace of a lease (5
seconds in the code) is what absorbs the delay that remains.

### What is promised nowhere in the code

`_produce` reports every error that is not transient as a success of the breaker, also the
timeout it raises itself when there is no time left to send anything (`service.py:137`)
and an input that is too large to send (`client.py:54`). `AIService` has these steps, so an
attempt that never left the process closes an open breaker. `OnlyTheProbeMovesIt`
says who may move the breaker, not on what ground.

### Proofs

`AIState_proofs` proves, for any number of callers, attempts, keys and days, under
the assumptions `NoneAssumption`, `TimeAssumption` and `LimitAssumption`:

- `StateTypeCorrect` and `BudgetHolds`, from the inductive invariant `StateInv`: types and
  the budget together, because that a settlement never adds to a counter needs
  `usage <= Amount`, which is about types;
- `BreakerRefinement`: the scripts implement `CircuitBreaker`. The invariant
  `BreakerInv` says why: no attempt is in an epoch that is yet to come, an open breaker
  has at least `Threshold` failures (so a failure of a probe whose record has gone
  still trips it), and only an open breaker has a probe.

- `CounterIsTheSum` (`CounterMatchesReceipts`): a day's counter is the sum of what its
  attempts were charged, once each. `CounterInv` adds that a receipt without a
  reservation is charged nothing and a reserved one the whole `Amount`, because the
  script of `settle` adds `usage - Amount` without reading what was charged.

`AIService_proofs` proves, under `ServiceAssumption` as well, for any number of requests,
retries, inputs, policies and changes of them:

- `ServiceTypeCorrect`, and `GatewayUsesScripts`: every step of a request is a step of
  `AIState` or leaves its variables alone, so that the theorems about the scripts hold for
  the whole gateway (`GatewayBudget`);
- `OneFlight` (`SingleFlight`) and `OnlyMissesAreBought` (`CallOnlyOnMiss`), from `LeaseInv`:
  a request that is between acquiring and releasing holds the lease of its key, and that
  lease has more time left than the request (`Leased`), so that it cannot expire under
  its holder; and from the second look at the cache on, its key is not cached (`Missed`),
  because only a holder puts an answer there;
- `ConsentStops` (`WithdrawnConsentStops`), from `ConsentInv`: an answer that came after its
  policy went is known to be stale while that policy is gone, and no label from which a
  request sends, stores or answers is reached without a check that it is not;
- `EveryDispatchAccounted` (`DispatchAccounted`), from `AccountInv`, which says of
  each label how far the receipt and the audit entries of the current attempt are, and that
  attempts to come have neither;
- `AtMostOneProbe` (`OneProbe`) and `ProbesMoveTheBreaker` (`OnlyTheProbeMovesIt`), from
  `ProbeInv`: a request that is between entering and reporting, in the current epoch of an
  open breaker, is its probe, and the probe's record has more time left than the
  request (`Probes`).

`EveryRequestEnds`, `LeaseRecovers` and `BreakerRecovers` are model-checked only.

### What the model assumes or leaves out

- The provider's usage is at most the reservation: the whole body is counted
  in `llm_max_input_bytes` and the provider honours `max_tokens`.
- Workers' clocks agree: the code passes each worker's `time.time()` to the scripts.
- The 48-hour expiry of counters and receipts and the two-hour expiry of an idle
  breaker do not happen within a run.
- A cached value always validates. An attempt that `client.complete` refuses before
  sending counts as sent in `spent`, which only makes `DispatchAccounted` stronger.
- A script whose caller saw an error has run by then or never runs.
- A request that was cancelled leaves its lease; an identical request right after may
  wait for it until its own deadline. That is the code's choice (its comment says so).

## Forecast refreshes

`ForecastRefresh` is one workspace and industry of `services/persisted_forecasts.py`
with everything a refresh passes through: the row in `forecast_refreshes`, the arq
queue, the worker's frame, the lock and the lookup of the ML service, the runs,
and the input marker that a trigger of migration 0028 writes inside every import.
Each transaction and each call is one action.

| code | actions |
|---|---|
| `request_refresh`, first transaction, under the workspace's advisory lock | Request: Look (someone is active, or nothing to do) or Reserve |
| `enqueue_job` and its failure, l. 200-211 | Enqueue, EnqueueFails, RequesterDies |
| claim, l. 222-242 | Claim |
| find a committed run, l. 244-252 | Recover |
| `POST /forecast`, `_guarded`, `tenant_inference_slot`, `persist_forecast` | Post, Persist, ComputationFails, Respond |
| the transaction that splits, stamps and completes, l. 264-287 | Publish |
| `except`, l. 288-311 | Raises, Fail, FailFails |
| `heartbeat`, and the `updated_at` limits of 30 seconds and 2 minutes | PulseStops, GoesQuiet, `quiet` |
| `POST /forecasts/generate` | GenerateDirectly, SplitDirectly |
| the trigger on `historical_sales` | ImportBegins, ImportEnds |

`marker` counts the values the trigger has written, `committed` is the one others
see; a run keeps the value it was computed from (`input`, which the code does not
store), the time it was persisted as the value written last (`observed`), and the
revision stamped on it. A computation goes on when its caller has gone, as the
service's thread does. Postgres lets one import at a time hold the marker's row.

### Runs

- `forecast_refresh`: two refreshes, two workers, two imports, two faults. Two
  refreshes are what an old and a new row need to conflict, two workers what a
  job delivered twice needs; two faults reach a worker that lost its heartbeat and
  then its row. `MaxDirect = 0`: the next run has the runs past the queue.
- `forecast_liveness`: one fault, no imports, one run generated past the queue.

Bounds that are not in the code: `MaxImports`, `MaxFaults`, `MaxDirect`, and the number
of rows: when none is left a request only looks (`Free = {}` in `Look`).

### Fairness

The API's process enqueues what it has committed, arq runs jobs, the ML service
ends its computations (it has a timeout), a row that nobody updates becomes quiet.
`WF_vars(Request)` says that someone keeps asking: the page does every 30 seconds
while a refresh is pending (`frontend/src/hooks/usePersistedForecast.ts`), and a user
does when `refresh_status` shows a quiet running row as failed. Without it nobody
reaps a row, since no background loop does. Fairness says nothing of
imports and faults.

### What `FreshRefreshIsCurrent` leaves out

A run made by `POST /forecasts/generate` has no refresh and is compared by time, and
`persist_forecast` sets `started_at` when the result is stored, after inference. An
import that committed meanwhile is older than the run that did not see it, and the run
passes as fresh until the next import or for `forecast_freshness_s`. The property is about
the runs of refreshes, at the price of a refresh that looks stale when an import
commits between its request and its computation.

### Proofs

`ForecastRefresh_proofs` proves `TypeOK`, `OneRunPerRefresh`, `CompletedIsPublished`,
`FreshRefreshIsCurrent` and `OneActive` for any number of refreshes, workers,
imports, faults and direct runs, under `RefreshAssumption` (`None` and `"direct"` are
no rows; the bounds are numbers). One inductive invariant `Inv` carries the first
four:

- `OnlyReserved`: nothing refers to a row before it is reserved, so that reserving it
  cannot change what an old job, run or computation means;
- `Frames`: a worker's run exists and belongs to its refresh. This is what makes a
  late completion harmless, whatever the row has become;
- `Inputs`: `revision <= input <= committed` for what is computed and for what is
  stored. A run passes as fresh only if its revision is still the committed one, and
  then its input lies between two equal numbers;
- `NotYetPersisted`: what holds the ML lock has no stored run, hence
  `OneRunPerRefresh`.

`OneActive` is inductive by itself, given the types: only `Reserve` makes a row active,
and it does when none is. The other steps of the module are covered by lemmas on
what they keep (`RowsKept`, `RunsKept`). Model-checked only: `NoEternalSpinner`.

### What the model assumes or leaves out

- A run's age limit and a longer horizon only make `request_refresh` generate where
  it need not: that is a forced request. A workspace has one industry here; the
  advisory lock and the active rows are per workspace, so another industry's
  refresh is an active row like any other.
- The inputs are read at one moment, at or after the ML service takes its lock.
- arq keeps one job per row (a stable job id) and delivers it at least once.
- A late failure can turn a completed row into a failed one, whose run is
  published all the same; no doc promises otherwise.


## Background work

`LeaderLock` is `core/distributed_lock.py`: replicas contend for a Redis lease and run
their loops while they believe they lead. `WebhookDelivery` is `services/webhooks.py`
with the manual retry of `routers/webhooks.py`. `BackgroundWork` composes them as
`main.py` does: the leader's loop ticks the retry worker, a process that dies takes its
tick's transaction with it, and requests dispatch and retry all the while.

| code | actions |
|---|---|
| `acquire`, `_renew_loop`, `release`, `run_as_leader` | Acquire, AcquireFails, NoticesLoss, Release, ReleaseFails, Expire |
| a process that dies or restarts | Die, Restart, composed as Stop and Elect |
| `retry_worker_tick`: one transaction, the due rows locked with SKIP LOCKED, a savepoint around each | TickBegins, TickAttempts, TickCommits, TickUndone |
| `dispatch` and its immediate attempt; the manual retry | Dispatch, Direct, HandLost, ResetRow |
| an administrator's changes of the endpoint | SetActive, DeleteEndpoint |

The lease's age is not counted: a lease whose owner is gone ends, and one that outlasts
its renewals is a *slip*, counted like a failing call of Redis. With no slip there is one
leader (`OneLeaderUntilSlip`); with one there may be two, because a leader that loses
its lease is not told, and the webhook properties hold with two as well.

The renew task clears a flag and returns, and nobody reads the flag: in `BackgroundWork` a
deposed leader begins further rounds, as it does in the code, and the webhook properties
hold through them.

The run `background` has two replicas and one delivery. Two replicas are what a
contest needs; deliveries share nothing but the tick's transaction, and the endpoint's switch
is in the model for one as for many. `MaxSlips`, `MaxCrashes`, `MaxManual` and
`MaxHiccups` (an attempt that raises, a database connection lost) are 1 each and may fall
anywhere; `MaxAttempts` is 2 instead of 6, so that a delivery can be retried once and
given up.

`WorkFairness` says that waiting replicas try again, that a supervisor restarts those
that died, that a leader's loop runs, that orphaned leases expire (Redis does that) and
that deliveries come due with the clock. Nothing is assumed of receivers: every answer,
also none, may come each time, and `DeliveriesEnd` holds because attempts are bounded.

### Proofs

`BackgroundWork_proofs` proves of the composition `WorkSpec`, for any number of
replicas, deliveries, attempts, slips and crashes, under `LeaderAssumption`,
`WebhookAssumption` and `TickersAssumption` (every replica has a retry worker), the
invariant `WorkInv == LeaderInv /\ HookInv` and from it:

- `SoleLeader` (`OneLeaderUntilSlip`): as long as nothing slipped, who works is who the
  key names (`LeaderInv`). It is proved for the lease alone and carried to the composition:
  each step of it is a step of the lease or leaves the lease alone;
- `ReleasesOwnLease` (`OnlyOwnLeaseReleased`), an action property that also holds after slips;
- `SuccessIsAnswered` (`SucceededWasAnswered`) and `GivenUpForReason`
  (`DeadLetterIsEarned`). The rows that the table, a request's session and the ticks'
  transactions hold overwrite one another, so `HookInv` does not say which of them is right: it says
  that every copy there is, wherever it is, was *earned* (a receiver acknowledged, the
  attempts were made or the endpoint was off), and what is earned stays so (`EarnedStays`).

`DeliveriesEnd` is model-checked only.

## Services

Ten services share no state with one another, and each is small. `MCServices` is the sum of
seven of them and of the scripts of the AI gateway, `MCRecords` that of the three that
record money: `Billing`, `ReturnsLedger` and `SalesImport`. The variable `service`, or
`record`, names the one whose steps a behaviour takes, the others stand still in one
initial state. The runs `services` and `records` check their properties.

| module | code | instance and why it is enough |
|---|---|---|
| `EmailDelivery` | `deliver_email`, `send_email` | three calls, two messages, two tries: a call whose claim ended, the one that took over and a late third, with the same text or another |
| `Billing` | `SubscriptionManager`, `assert_fresh_and_unique` | two subscriptions (a second checkout) with two events, or one with three, that may bear the same second or later ones (two out of order and one more), one fault |
| `TenantSettings` | `PolicyStore`, `tick`, the routes that write settings | one writer, two tickers, two policies, two days |
| `ReturnsLedger` | `post_return_event`, `confirm`, `clear_sales` | two returns in two uploads of a sale of two units whose amount, one unit, does not split: the share of the first is rounded up and the last gets the rest; drafts, approvals and a rejected line; one reset at a time, any number of them |
| `Idempotency` | `IdempotencyMiddleware.dispatch` | three requests of one key, three runs of the handler |
| `TenantCache` | `ResponseCache` | two readers, two writes: a fill from before each |
| `InferenceThrottle` | `InferenceThrottle.slot`, `asyncio.Semaphore` | four inferences for two slots and one place in the queue: all served, waiting and refused |
| `Replenishment` | `allocate`, `match_transfers`, `build_network_decisions` | three stores of eight kinds, among them one whose target lies above its p90 and some far below, supplies 0, 3, 5, packs of 1 and 2: enough, scarce and nothing; `Parts` = 60 is a multiple of every sum of rates |
| `SalesImport` | `upsert_sales_rows`, `base_key`, `assign_record_keys`, migrations 0022, 0023, 0032, 0039 | two imports of one or two lines about one subject, each kind of identity, one repair or reset at a time, two copies of old and two rows to come |
| `DecisionQueue` | `persist_decisions`, `accept_decision`, `dismiss_decision` | two planners, two refreshes, one item, two rows: each order in which two of them cross |

Bounds that are not in the code: `MaxEvents`, `Focused` (a third event only while there is
no second subscription), `MaxFaults`, `LastDay`, `MaxRuns`, `MaxWrites`,
`MaxRows`, `MaxLines`, `MaxRecs`.

How their state corresponds to the code:

- A database transaction that reads, calls out or waits, and then writes is two or more
  actions, and what it has read is in a variable of its own (`handling` and
  `verifying` in `Billing`, `holds` and `digest` in `TenantSettings`, `upload` and `clear` in
  `ReturnsLedger`, `import` in `SalesImport`, `planner` and `refresh` in
  `DecisionQueue`); one that only reads and writes rows under their lock is one
  action. Readers see committed rows only (READ COMMITTED), and a write by SQLAlchemy
  changes the columns that were assigned.
- `clear_sales` is one transaction whose statements each read what is committed when they
  start and wait for the rows that others have locked: `ClearLists` to `ClearSale` are its
  statements, and `clear` holds what they name until `ClearCommits`. A return whose
  statement has passed is not deleted, and its event keeps the sale from being deleted
  if it came after the list of events (`ClearSale`, the foreign key of migration 0036).
- An event's `created_at` counts seconds: in `Billing` an event has an id of its own and a
  second that it may share with others, and the guard compares seconds. What an event
  carries is a status of the entity or none, and a payment that covers the price, falls
  short, is not captured, or does not say: each is handled as its branch does.
- A row's lock is held from the first write, or from FOR UPDATE, to the end of the transaction
  (`owner` and `saleOwner` in `ReturnsLedger`, `fixed` in `SalesImport`).
- A partial unique index is a guard: `SlotFree` in `Billing` (migration 0017), the
  third conjunct of `OfferNew` in `DecisionQueue` (migration 0027).
- The thread that talks SMTP and the event loop that gives it leave are apart
  (`call` and `leave` in `EmailDelivery`), because the thread stops waiting after 15
  seconds and the loop may give leave after that.
- `SaleAccount` is what a sale's returns promise, without identities, drafts, files or
  locks; `ReturnsKeepAccount` says that `ReturnsLedger` implements it under the mapping
  of `returned` and `refunded` to the sums over approved returns.
- `Replenishment` follows its code line by line: water-filling by days of cover, the
  rounding of packs, donors in the order of their excess. A tie is resolved either way.
  What the warehouse fills a store to (`Target`: p50 and a pooled safety stock that rises
  with the service level) and what a donor keeps (`P90`: the sum of its weekly p90) are
  two numbers, and either may be the larger, so that a store may be allocated something
  and stand above its p90; it is no donor then.
  Its states are one input each; its actions are the steps of one call.

What a property leaves out is a history variable, not a guard, so that the run goes
through those states as well: `excused` in `Billing`, `slipped` in `TenantSettings`,
`astray` in `Idempotency`, `failed` in `TenantCache`, `crossed` in `ReturnsLedger` and in
`SalesImport`, `late` in `DecisionQueue`. Each names what the code does not do, and is read
as follows:

- `LatestEventWins` holds unless an event was lost behind the replay guard (its id is
  recorded before it is handled), two handlers of one subscription overlapped, or a
  browser or an administrator changed the row. If several events bear the newest second,
  the row stands where one of them puts it; which of them depends on the order, so that an
  activation of the same second as the cancellation, handled after it, brings the
  subscription back. Of a subscription whose newest events are payments short of the
  price nothing is said: such an event moves `last_event_ts` without deciding a status,
  and an older event that decides is dropped after it.
- `SentOnceADay` holds unless ticks overlap ("overlap"), one dies between sending and
  stamping ("death"), or a route writes back a document from before the stamp ("stamp").
  Each of the three sends the day's digest a second time.
- `ReadModelFollows` says of every return that the read model has it at most once and only
  if it is approved, and that the counter is the sum. That the read model has it and that
  the registry agrees with the ledger is said of returns that were not committed
  between two statements of a reset (`returns_cleared`).
- `SameAnswer` and `FreshAfterInvalidation` hold while Redis works: both fail open. A
  handler that raises leaves the sentinel behind, and every retry is answered 409 until
  it expires; `SameAnswer` says nothing of that wait.
- `SoldOnce` holds for a file unless sales were dropped while it was written.
- `DecisionsStand` lets a decision be overwritten by someone who had read the row
  before it was taken, and says that nobody else can: two planners who decide one row at
  once both succeed and the later stands, and two refreshes with different items that
  cross leave both queues open. What `persist_decisions` promises is more, and fails
  (`decisions_crossed`).

The runs `services` and `records` assume no fairness: all of their properties are
safety. They do not check deadlock, because a service whose bounded work is done has no more steps.

### What the runs found

- `billing_double`: `BilledOnce` fails. `start_subscription` looks for a subscription that
  is trialing, active or past due, and the unique index covers the same statuses,
  but a priced plan's row starts as `incomplete`. A second checkout, before or after the
  first has been paid at the provider but before its event, makes a second
  subscription, and both can be charged; the second row is then refused its activation.
- `settings_lost`: `PolicyChangeSurvives` fails. The policy is changed under the row's
  lock ("row locking to avoid lost concurrent updates"), but five other writers of the
  document read it without a lock and write it whole.
- `returns_cleared`: `IdentitiesGoWithSales` fails. `clear_sales` deletes the identities of
  the returns in one statement and the returns in the next. A return that an upload
  commits between them loses its event and keeps its identity, and is skipped as known
  whenever it is imported again.
- `decisions_crossed`: `RefreshSparesDecisions` fails. A refresh reads the open rows without
  a lock and expires them by id, so that an accept that commits in between becomes
  `expired`, although "accepted/dismissed rows are never touched".

### Proofs

Each service's theorems are about its own specification, for every value of its
constants under its module's assumption (`EmailAssumption`, `BillingAssumption`,
`SettingsAssumption`, `LedgerAssumption`, `IdempotencyAssumption`, `CacheAssumption`,
`ThrottleAssumption`, `StockAssumption`, `SalesAssumption`, `QueueAssumption`).

`Services_proofs`:

- `OneRunAnswers` (`SameAnswer`), from `IdemInv`: one request is inside the handler and the
  sentinel is its own (`OneInside`); while it is, nobody has an answer to keep, and once
  the key holds one, that is everyone's (`OneAnswer`);
- `CacheKnowsAnnouncedWrites` (`FreshAfterInvalidation`), from `CacheInv`: a version stands
  for the newest write announced when it began, so that readers of one version began with
  the same knowledge and whatever is cached under it has at least that (`Versioned`). A
  late fill goes to the old version and is never read;
- `OneDigestADay` (`SentOnceADay`), from `SettingsInv`: a day's digest that was sent is stamped,
  or owed a stamp by the one tick there is (`Stamped`);
- `AtMostOneAccepted` (`AcceptedOnce`) and `RecordsAreTrue` (`RecordIsTrue`), from
  `EmailInv`: who has leave to send has the row durably at `sending` (`Reserved`), and a row
  whose message was taken is in a state that nobody may claim (`Taken`);
- `SlotsAddUp` (`ThrottleAccounts`), from `ThrottleInv`: who waits stands in the
  semaphore's line, once, and who is woken still does (`LineIsWaiting`), which is what makes
  handing on the slot of a cancelled waiter right.

`Records_proofs`:

- `ActiveWasVouchedFor` (`ActiveIsVouchedFor`) and `RowFollowsNewestEvent`
  (`LatestEventWins`), from `BillInv`: events are numbered, only what was emitted is handled
  and a row bears the second of an event of its own (`Numbered`); nothing happens at the
  provider before the row is there (`Opened`); what makes a row active is an event that
  claims it or a captured payment, less than the price only after an event that began a
  trial (`VouchedFor`); and unless excused, one handler at a time works with the row as it
  still is, what was handled is no newer than the row, and if it is of the row's second and
  decides, an event of that second put the row where it stands (`Ordered`);
- `ReadModelIsTrue` (`ReadModelFollows`) and `ReturnsImplementAccount`
  (`ReturnsKeepAccount`, the refinement of `SaleAccount`), from `LedgerInv`: an upload that
  has written holds the sale's row and its identities' locks and has counted what it
  sees (`Holds`); the sums over approved returns keep the caps (`Balanced`) in the table
  *and* in each upload's view of it, because the checks read the view and the commit makes
  it the table; an event that is there has its identity, and so has whatever crossed no
  reset (`Agree`); and what a reset will delete without naming its identity has crossed it,
  while nobody has written anything when the sale goes (`ResetHolds`);
- `SalesAreStoredOnce` (`SoldOnce`, three parts), from `SalesInv`: who has a file open has the
  lock (`OneWriter`); what a file was planned by is still so, but for rows that a
  repair or a reset took (`Planned`); only the copies of old share a key
  (`Alone`); and a repair of copies only ever takes the second of two twins
  (`KeepsOne`). A key's occurrence number is what tells equal lines of a file
  apart (`KeysDiffer`), and a row without a sale has no key (`KeyIsMeant`).

`Decisions_proofs`:

- `DecisionsAreKept` (`DecisionsStand`), from `QueueInv`: whoever holds a row that is decided by
  now is known to be overtaken, and a refresh that nobody overtook holds every open row
  (`OvertakenKnown`);
- `StockIsSharedEvenly` (`RationedEvenly`), from `ShareInv`. The bisection of
  `cover_level` is a recursive function; by `NumberInduction` it exists, is unique, and
  ends at a level that takes no more than the stock (`CoverReached`). At any level the
  rounding to packs and the packs left over keep two stores within a pack of
  each other on either side (`RationIsEven`);
- `DonorsAreSafe` (`DonorsKeepTheirDemand`), from `MatchInv`: what a donor can still give
  and what it has given are its excess, which a store that was allocated something has none
  of (by the guard `s.allocated == 0`, since its stock may well lie above its p90), a
  receiver gets no more than it lacks (`SitesStand`), and who is being served has asked each
  donor once (`ServedOnce`).

### What the models assume or leave out

- The provider of payments signs what it reports, and delivers an event any number of
  times, late or never. Free trials without a provider, paused subscriptions, and a
  cancellation at the period's end, which only sets a flag, are left out.
- The SMTP server accepts a message at most once per DATA.
- `asyncio.Semaphore` is that of CPython 3.12 and later, which hands a slot to the first
  waiter and takes it on when that waiter is cancelled.
- Tax and value of a return are one amount: they are held to the same rules.
- A file's lines are of one kind: with orders' ids, without, or totals of periods.
- The quantities of `Replenishment` are whole numbers. The code keeps forecasts, stock and
  days of cover as floats and rounds what it allocates and transfers; targets and p90s
  come from the profile of a store, not from a forecast's bands.
- There is one reset of sales at a time in `ReturnsLedger`, of one sale: that a reset is scoped
  to an industry and refused for ambiguous sales is left out; sales that came by other ways
  are in `SalesImport`.

## Not modelled

- Order ingestion from Shopify and WooCommerce (`shopify_sync.py`,
  `woocommerce_sync.py`): each replaces an order's sales with a DELETE, which the
  application's role may not do on `historical_sales` (`backend/sql/003_rls_policies.sql:174`
  grants SELECT and INSERT only), so that no behaviour past that statement exists to model.
- Realtime fan-out: events are hints to fetch again; nothing stored depends on them.
- Login attempts and rate limits: counters of one or two commands each. A failure counter whose
  expiry was never set is the one thing that can go wrong and is listed as a hazard.
- Members and invitations: accepting is one transaction under the invitation's lock. Seats
  are counted without one, so that concurrent invitations may exceed `max_users`; and
  a retry after a failure past the creation of the account is answered 409 although the
  failure says "Please try again" (`routers/auth.py:797-831`).
- Numerics (forecasts, blending, confidence, economics of decisions), prompts and
  validation of the AI tasks, parsing and mapping of files, reports, exports, the
  frontend and deployment: data, layout and arithmetic of single requests without state
  that two steps share.
