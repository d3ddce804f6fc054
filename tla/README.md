# solplanet-fasttalk in TLA+

A verification development for the `solplanet_fasttalk` daemon: TLA+ modules of its
concurrent and transactional parts, TLC configurations that check them on small instances,
and theorems about them that TLAPS checks for every value of the constants. Paths such as
`storage.py:309` are in `src/solplanet_fasttalk/` of the repository, `docs/...` in its `docs/`.

## 1. The system

One Python process reads a home energy site and plans for it, without ever controlling it.
Threads share an in-memory `PlantState` and a SQLite database in WAL mode.

| Component | State it keeps | Operations | Talks to |
|---|---|---|---|
| `PlantState` (model.py) | latest measurement per name, health, sequence number, one condition variable | `publish`, `publish_many` (derive or withdraw the site values under the lock, call the sinks after it), `update_health`, `current`, `plant`, `health`, `wait_for_change` | every worker, API, monitor |
| `MeasurementQueue` (model.py) | bounded queue, `dropped` | `put` (never blocks) | sink of `PlantState`, emptied by the history thread |
| `HistoryWriter` (storage.py) | batch, counters, its connection | `run`: gather up to 100, insert, commit; roll back, requeue, back off | queue, SQLite |
| `StorageMaintainer` (storage.py) | table `measurement_rollups` | `run_once`: three levels of rollups in slices, then deletes by retention | SQLite |
| `FinancialAccountingWorker` (accounting.py) | tables `financial_intervals`, `financial_adjustments` | `run_once`: price ended minutes, commit, adjust each day touched | SQLite, `ZeroHeroTariff` |
| `Daemon` (daemon.py, cli.py) | stop event, threads, Solis mismatch latch | `start`, `_monitor` (health every 5 s), `_check_solis_mismatch`, `stop` from a signal handler | all |
| `EastronWorker` (eastron.py, modbus.py) | receive buffer, pending requests, error counters | feed, match, decode, publish; reconnect with backoff | passive serial line, `PlantState` |
| `ASWWorker`, `SolisWorker` (asw.py, solis.py, serial_rtu.py) | due times per group, counters | poll, publish; reconnect with backoff | active serial line, `PlantState` |
| Forecast and weather workers (forecast.py, weather.py) | store, cache file | fetch, correct, keep, persist two vintages, save the cache | HTTP, SQLite, file |
| `OptimisationWorker` (optimisation.py) | latest plan, counters | `plan_once`: shadow plan from forecasts, load and tariff | stores, `PlantState`, SQLite |
| `ZeroHeroTariff` (tariff.py) | event file | `quote`, `current` | accounting, optimiser, API |
| Modbus safety policy (modbus_safety.py) | none | `assess_modbus_command` | nothing yet |
| API (api.py) | server, token | read-only endpoints, one event stream per client | `PlantState`, `HistoryReader` |
| `HistoryReader` (storage.py) | a cache of the storage size | queries; inserts for accounting, forecasts and plans | SQLite |

What makes it hard: a dozen threads publish into one state and one queue; the queue is full
or the database locked at any moment; the history thread, `stop()` and the workers wind down
in any order; clocks are read before locks are taken; a pass over the database fails between
two of its transactions; a row is committed after someone has read past it; values grow stale
without an event. `hazards` in `PROJECT.json` lists each at its line with the property that
covers it. What each component owes: the pipeline - every measurement in one place, once,
and losses reported; the state - derived values exactly when backed by usable inputs; the
maintainer - nothing deleted before it is rolled up and no rollup made worse; the accountant -
an append-only ledger, cap and credit right across runs; the passive bus - a response only
ever decoded with its own request; the workers - reconnecting for ever; the forecast threads -
"ok" only over what is stored, and no correction without weather that is at hand; the optimiser -
trajectories within reserve and site limits, with energy and cost accounted for; the daemon - a
stop that ends the process.

## 2. Modules

| Module | Models | Checked by |
|---|---|---|
| `TelemetryLog` | what the persistence path promises: accept, discard, persist | refined by `HistoryPipeline` |
| `HistoryPipeline` | queue, workers' puts, history thread, monitor, `stop()` | `history_pipeline` |
| `PlantState` | publication, derivation, staleness, stream clients | `plant_state` |
| `StorageMaintenance` | maintenance passes beside the history thread | `storage_maintenance` |
| `FinancialAccounting` | accounting runs beside the history thread | `financial_accounting`, `adjustment_cut_off` |
| `FrameChannel` | what a listener on a noisy line promises about undamaged frames | refined by `PassiveBus` |
| `PassiveBus` | stream decoder, matcher and worker on the meter bus, with the bus and the adapter | `passive_bus` |
| `DevicePolling` | the ASW thread's schedule, exchanges and failures | `device_polling` |
| `ForecastService` | the weather and the forecast thread, their start, files and rows | `forecast_service`, `hindsight_scored` |
| `BatteryPlan` | `simulate_plan`: native replay, search, bill, choice, windows, bands | through `ShadowPlanner` |
| `ShadowPlanner` | `plan_once` around `BatteryPlan`, what is published and recorded | `shadow_plans` |
| `SolisDiagnostics` | the Solis thread and the monitor's check of it against the meter | through `DaemonLifecycle` |
| `DaemonLifecycle` | `command_run`, start, signals, stop, the API handshake; composes `SolisDiagnostics` | `daemon_lifecycle`, `stop_before_api` |
| `MC*` | values of the constants for TLC | |
| `HistoryPipelineProofs` | theorems about `HistoryPipeline`, its refinement of `TelemetryLog` included | TLAPS |
| `StorageMaintenanceProofs` | theorems about `StorageMaintenance` | TLAPS |
| `ReadingsProofs` | theorems about `PassiveBus`, its refinement of `FrameChannel` included, and `PlantState` | TLAPS |
| `DevicePollingProofs` | theorems about `DevicePolling` | TLAPS |
| `ForecastServiceProofs` | theorems about `ForecastService` | TLAPS |
| `ShadowPlannerProofs` | theorems about `BatteryPlan` and `ShadowPlanner` | TLAPS |
| `DaemonProofs` | theorems about `DaemonLifecycle`, `SolisDiagnostics` and the ledger of `FinancialAccounting` | TLAPS |
| `SetLemmas` | lemmas they share: least and greatest elements, sums over finite sets, sets in ascending order | TLAPS |

Two of the proof modules are about two models each. Their names must not clash, so `PassiveBus`,
`SolisDiagnostics` and `DaemonLifecycle` carry their subject in the names of their initial states,
next-state relations and specifications (`PassiveSpec`, `DaemonSpec`, ...).

Operators named `Mutant_...` belong to no specification: each is a plausible mistake in the
definition that follows it, kept to show that a property would notice.

### HistoryPipeline

A measurement is a pair of its worker and a number. The variables are the attributes and
locals of the code; `register` holds the value read by an unfinished `dropped += 1`, which
Python does not make atomic. Threads step at each point where another can interleave: the loop
condition `not stop or not empty` is its own step, so is `get`, so is each `put_nowait` of a
requeue. A failing batch is rolled back as a whole and requeued at the tail. Errors of
`initialize_database` or `rollback` end the thread (`dead`). Sleeps are not timed. `lost`,
`retried` and `late` are history variables.

### PlantState

One critical section per publication: overwrite, derive with the *observation* time of the
batch's newest measurement, advance the sequence. The `site.*` signals are computed and cleared
together, but they age one by one, as `Stale` and `Served` do: a ratio whose denominator is zero
has no result (`NoResult`) and quality "unavailable", and only a "good" measurement is ever labelled
stale and so left out of a snapshot. The properties therefore ask freshness of the signals that
have a result, and `AllWithdrawn` is the document's sentence about all of them, which the code
does not keep. The value of a derived signal is the function of the inputs it was
computed from; so "consistent" means "the same inputs", whatever the formulas are. `current()`
reads the clock, then takes the lock: two steps. A stream client waits, snapshots and sends,
and keeps the sequence number it was woken with. The thousandth of a second that
`_derive_locked` grants a derivation at the very end of an input's life is `FreshnessFloor`.

### StorageMaintenance

A row is the tick of its observation, a rollup the set of rows it aggregates: count, mean,
minimum and maximum are functions of that set, so "the rollup is right" is about sets. Levels
are handled in turn; the aggregation is one read of a snapshot, each slice of 200 rows a
transaction (the earliest periods first, as SQLite's GROUP BY delivers them), the deletes one
more, and `FailPass` may come between any two: it stands for `sqlite3.Error` and for the end of
the process alike, for the next pass knows only the database. A row stands for the rows of all
signals recorded at its tick, because the code takes the newest rollup over all names.

### FinancialAccounting

Minutes, days and hours have small lengths; prices are abstracted to the energy that earned the
super-export price. A run reads the rows of the minutes since the newest recorded one, prices
them with the export the day has already had in its window, commits them together, then writes
the supply charge and the credit of each touched day in transactions of their own. Exceptional
tariff events are left out.

### PassiveBus

The wire and the decoder's buffer are sequences of bytes that know their frame and their place in
it; of the value a byte shows what `_candidate_lengths` looks at, so data may look like a header
(`Lures`) and a damaged length field claims `FalseLength`. A CRC is taken to hold for undamaged
whole frames and nothing else: the one chance in 65536 of a false match is left out. `Feed` is
the whole of `feed`, resynchronisation included, and `Accept` the whole of `accept`; one read
feeds, matches, publishes and reports in one action, as in the code, where only this thread
touches any of it. The counters are kept as the set of those above zero. Any frame may follow any
other, because a request may go unanswered and the tap may miss either. The adapter may be
pulled out; a port without its device then fails, or reads as empty for as long as it likes.

### DevicePolling

`due` is relative to the clock, negative when a group is late, so time needs no variable of its
own. An answer is its group; `Shape` is the function and count, which is all that
`parse_read_response` can compare. `answers`, the groups the inverter answers at the moment, may
change at any time: noise, sleep, missing registers. An answer given up may still be on its way
(`late`) when the port is next used, and is assumed to arrive, or to be lost, by the end of that
exchange. `termios.error` is no `OSError`, so `run` does not catch it: where `tcflush` or
`tcdrain` may raise it the thread ends.

### ForecastService

A payload is identified by when it was fetched; of a correction the model keeps whether weather
was available to it and whether its long-term evidence and its accuracy gate allowed it, computed
from the vintages in the database as `forecast_comparison` and `forecast_samples` select them. The
two transactions of a forecast, the unguarded ones of the weather thread, the cache file and the
report of health are steps of their own, each of which may fail as the code lets it fail;
`RequestEnds` stands for exceptions that no branch catches. `Crash` kills the process at any step
and leaves files and committed rows. Health is whether it says "ok". The stored provider points
keep every target of the answer (`Targets`), the hours of the day that are over included.

### BatteryPlan and ShadowPlanner

`BatteryPlan` follows `simulate_plan` slot by slot: the replay of the native policy, the search
with one node per rounded SOC and premium export, the bill with the ZEROHERO credit, terminal
floor, objective, fallback to the native schedule, scheduled windows and SOC bands. Slots are an
hour, powers are whole units, money is in thousandths of a dollar; efficiencies are what a unit
charged adds (`ChargeGain`) and a unit discharged takes (`DischargeDraw`), and divisions floor.
Where the code keeps the first of equals the model keeps any. `ShadowPlanner` adds the refusals
of `plan_once`, confidence and effective reserve, reasons and status, `record_plan` with its
suppression of unchanged plans, and the three transactions of a prediction vintage. An
`sqlite3.Error` may come with each of them (`RecordFails`) and with the unguarded reads
(`PlanEnds`), and the process may be killed at any step. The load profile and the horizon
are part of the view of the site (`Inputs`): each plan may be made with another one, as after a restart with another
configuration.

### SolisDiagnostics and DaemonLifecycle

Instead of a clock there are ages, counted in the monitor's rounds up to where they make no
further difference. The Solis thread is a loop of open, read, pause; `answers`, the number of
groups the inverter answers, may change at any time. The signal handler runs `stop()` inside the
main thread: while `stopping` is not "none" the main thread does nothing else, and goes on
afterwards where it was, be that in `start()`. The handshake of `serve_forever` and `shutdown` is
that of Python's `socketserver` (external). A join returns when the thread has ended or after its
5 s. The put of the sentinel returns here; that it may block is in `HistoryPipeline`.
`Event.set()` and `Event.wait()` enter one lock, which is not reentrant: `wait()` is two steps, "enter"
with the lock and "wait" asleep without it, and `SetEvent` of a handler that interrupted the first
is never enabled. A second signal that comes before the first has set the event is left out; it
would run `stop()` inside `stop()`.

## 3. Runs, bounds and what they show

| Run | Bounds | Shows |
|---|---|---|
| `history_pipeline` | 2 workers, 2 measurements each, queue of 2, batches of 2, 1 failing batch | `ExactlyOnce`, `OnlyLateOrRetriedAbandoned`, `OrderWithoutFailures`, `LossReported`, `BacklogSettles`, `StopCompletes`, and `ImplementsLog`: the path implements `TelemetryLog` |
| `plant_state` | 2 publishers with one input each, lives of 1 and 2 ticks, a signal that always has a result and a ratio that may have none, clock to 2, 3 publications, 1 client | `DerivedIffUsable`, `ViewConsistent`, `ClientsCatchUp`, `StaleWithdrawn` |
| `storage_maintenance` | levels of 1 and 2 ticks, retention 8, rows up to 1 tick late, silence up to 2, a pass at least every 2, 1 failure, clock to 10 | `NoSampleLost`, `RollupsNeverShrink`, `BacklogCleared` |
| `financial_accounting` | 2 days of 3 minutes, windows of 2, exports that cross the cap inside a minute, rows up to 1 minute late, 1 failure | `CapRespected`, `CreditEarned`, `LedgerAppendOnly`, `RowsAccounted` |
| `passive_bus` | 3 frames in any order, each intact or with a wrong length, one block's data like a header, chunks cut at their end or after 3 bytes, adapter pulled out once | `PassiveTypeOK` with the bound of the receive buffer, `TransactionsGenuine`, `CleanMeansComplete`, `OutageReported`, and `ImplementsChannel`: the decoder implements `FrameChannel` |
| `device_polling` | 2 identity and 4 poll groups with the functions, counts and intervals of asw.py, exchanges of up to 2 s, backoff to 4 s, adapter pulled out once | `PublishedGenuine`, `BoundedLateness`, `GroupsPolled` |
| `forecast_service` | 3 ticks of a day each, data stale after 1, a correction ready after 2 samples on 2 days, two bands, failures and kills at every step | `CorrectedHasBase`, `OkMeansArchived`, `WeatherNotWithheld`, `StaleReported` |
| `shadow_plans` | 3 plans made from 13:00 to 15:00; 4 views of the site, whose plans have 4, 8 and 30 slots (charging, native windows, unconfident; into the night; past midnight into the next evening), a premium cap of 1, failures and kills | `SearchSafe`, `EnergyAccounted`, `CostsExact`, `PruningLossless`, `HistoryFaithful`, `VintagesRegular` |
| `daemon_lifecycle` | history, API, monitor and Solis thread, 2 groups, a reading good for 1 round, a warning after 1, a signal at any step | `StragglersKnown`, `WarningsRight`, `StopReturns`, `ReadsResume` |

Why these bounds: with two workers and a queue of two the queue is full while a put, a requeue
and the sentinel compete for it, and one batch mixes workers. In `plant_state` an input expires
while the other is fresh, a reading without a value follows one that was used, and what was
derived first is stale when the monitor reports a second time.
In `storage_maintenance` a retention of 7 is already refuted by TLC (a rollup is rebuilt from
rows half of which are deleted), so 8 is the exact limit for these delays and the deletes do
happen. In `financial_accounting` a run may span midnight, a window may be incomplete, and a
failure may fall before, between and after the transactions. In `passive_bus` three frames make
a request, its response and one frame that does not belong, in every order, and the cut after
three bytes falls just where a response's length becomes visible. In `device_polling` two of the
groups have answers of the same shape, and the fast group's interval is shorter than an exchange.

In `forecast_service` the third tick is the first on which a correction can be ready and a payload
stale at once. In `shadow_plans` the hours reach from the free ones over the expensive ones into the
super export window, native windows wrap around midnight and end within the horizon, and the archive
interval passes between the first plan and the third. The longer plans export more than the premium
cap in one evening. In that of 8 slots the sun fills the battery a second time between two super
export hours, so that trajectories of equal charge have used up the cap or not, and the cheaper so
far is the dearer in the end: a key without the premium export loses the best plan, which TLC
notices, as it notices a search that prices a slot without what earlier ones used of the cap (the
price of a single slot is one operator, `SlotCost`, in the search and in the bill). The plan of 30
slots reaches through the super export hours of two evenings, the cap binds in both, and TLC
notices when it is not reset at midnight. Quanta of one make `PruningLossless` exact; with coarser ones the code promises less. In
`daemon_lifecycle` the four threads are those that `start()` and `stop()` treat differently.

`TypeOK` of the other modules that state one, `ServedNeverOlder` (`ForecastService`) and
`AdjustedUnlessInterrupted` (`FinancialAccounting`) hold in the same models and can be added to
their configurations; the runs spend their time on the properties above.

Three runs are expected to fail; each shows a disagreement of the code with what the repository
says of it (`findings`):

- `adjustment_cut_off`, `SupplyCharged`: a run that fails between the intervals of a whole day and
  its adjustments leaves the day without supply charge and credit for ever (storage.py:1716).
- `stop_before_api`, `StopAlwaysReturns`: `stop()` waits for the API server to acknowledge its
  shutdown. When `start()` fails on its first event, or a signal comes before the API thread exists,
  nobody does: the process neither works nor ends ("clean shutdown", docs/daemon-plan.md:171).
- `hindsight_scored`, `ScoredAhead`: hours that were over when a corrected forecast was issued are
  scored with its first lead-time band (docs/data-quality-and-forecasting.md:193).

More disagreements, with the configuration under which TLC finds them when run by hand
(`tlc -config X.cfg MCModule`):

- `HistoryPipelineRetry.cfg`, `RetriedNotAbandoned`: a batch that fails while the sentinel is
  queued is requeued behind it and silently lost (storage.py:303 promises the opposite).
- `HistoryPipelineStop.cfg`, `StopTerminates`: `queue.put(None)` blocks for ever when the queue is
  full and the history thread dead (daemon.py:273).
- `PlantStateRatio.cfg`, `AllWithdrawn`: a self-consumption or self-sufficiency ratio whose
  denominator is zero has no result and the quality "unavailable" (model.py:169-181, 193); only a
  "good" measurement is ever labelled stale (model.py:39) and only a stale derived one is left out
  (model.py:227-231). When the devices fall silent the other five signals disappear and such a ratio
  stays in every snapshot ("All derived values are withdrawn when a required input is missing,
  invalid or stale", docs/phases-3-to-6.md:29).
- `StorageMaintenanceShort.cfg`, `RollupsNeverShrink`: with raw rows kept for only two of the
  longest periods, the newest rollups are rebuilt from what retention left of them ("Build rollups
  before applying bounded retention", storage.py:1835). The configuration allows it; the default
  of 14 days does not suffer unless all telemetry stops for about as long.
- `FinancialAccountingLate.cfg`, `CompleteMinutes`: a row committed after its minute was priced is
  never averaged in ("complete UTC-minute averages", storage.py:1363).
- `DevicePollingStarved.cfg`, `CriticalPolled`: a group that the inverter does not answer closes
  the port each time, and the groups behind it are never read ("never let optional requests starve
  safety-critical state", docs/daemon-plan.md:159).
- `DevicePollingReplug.cfg`, `PollingResumes`: an adapter pulled out between two exchanges makes
  `tcflush` raise `termios.error` (serial_rtu.py:60), no `OSError`, so `run` does not catch it
  (asw.py:341) and the thread ends; putting the adapter back resumes nothing, and the Solis thread
  ends the same way ("reconnect, retry, backoff and stale-data behaviour", docs/daemon-plan.md:215).
- `ForecastServiceEnd.cfg`, `StaleShown`: a database error in the weather thread's archive calls
  (weather.py:300-327) is not among those it handles (weather.py:183) and ends it; its data grow
  stale under a health that says "ok" ("health reports distinguish serial, device, data-freshness
  and integration failures", docs/daemon-plan.md:366).
- `DaemonLifecycleSignal.cfg`, `StopTakesEffect`: a signal handled while the main thread is inside
  `Event.wait()` with the lock of the stop event waits in `Event.set()` (daemon.py:265) for that same
  lock; the event is never set and the process can no longer be stopped by signals it handles
  ("clean shutdown", docs/daemon-plan.md:171).
- `ShadowPlannerCredit.cfg`, `CheapestFound`: the pruning compares costs without the ZEROHERO
  credit, which only `_bill` knows, so the cheapest trajectory may be gone before the choice
  (optimisation.py:753-765; docs/asw-operating-modes.md:103, "compares whole-horizon alternatives").

Noticed while modelling, without a run: the terminal floor is a quantum below the energy of the
baseline and is dropped when no node reaches it (optimisation.py:768-771), where
docs/asw-operating-modes.md:106 says "must end with at least the energy"; "agreement restored"
(daemon.py:252) is also recorded when a reading has merely become unusable; a `start()` interrupted
by a signal goes on to create threads after "daemon stopped" has been recorded.

Deadlock checking is off where the modelled process may stop (exit of the daemon, a dead history
thread) or where the bounded clock stops.

## 4. Fairness

Weak fairness only, per thread: a thread that can take its next step eventually does, for the
operating system schedules all of them and no step waits for a lock another keeps. Nothing is
assumed of devices (a worker need not read again), of clients' requests, or of `stop()` being
called. In `HistoryPipeline` `Monitor` is fair although an `sqlite3.Error` from `record_event` in
`_check_solis_mismatch` would end that thread: `MonitorEnds` of `SolisDiagnostics` is that step. In
`PassiveBus` only a thread with a dead port is fair (`OutageReported` needs no more), in
`DevicePolling` the thread as a whole; which outcome an exchange has is never fair, and
`GroupsPolled` assumes that the inverter answers for ever from some time on and that the thread
has survived. In
`ForecastService` each thread and the start are fair, never the success of a request or a
transaction. In `DaemonLifecycle` the main thread, `stop()` (its joins time out) and the API thread
are fair, no other thread has to end; the port of the Solis inverter is opened with strong fairness,
because an attempt that may succeed is made again and again, and `ReadsResume` is about an inverter
that answers for ever from some time on. Where the clock is fair it is bounded by guards that name how
long a row, a silence or a pass may last.

## 5. Proofs

All theorems are for arbitrary constants that satisfy the named assumptions of the modules. Every
invariant, every action property and both refinements that the passing runs check are proved.

**HistoryPipeline** (HistoryPipelineProofs)

- `PipelineTypeOK`, `PipelineExactlyOnce`. `ExactlyOnce` is not inductive: a worker at its put must
  have issued at least one measurement (`PutCounted`), the sentinel is on the queue only after
  `stop()` put it (`SentinelPut`), and the history thread's batch is empty whenever it is not
  working on one (`BatchEmpty`). `OnceInv` conjoins them; one lemma per thread.
- `PipelineImplementsLog`: with `pending` the backlog, `history` the rows and `discarded` the lost
  ones, each step is a step of the log or a stutter, by `OnceInv`.
- `PipelineNothingElseAbandoned`: `EndInv` says that of what stands before the sentinel, or in a
  queue without one, only late or retried measurements can be left when the thread ends.
- `PipelineOrderWithoutFailures` from `OrderInv`: as long as no batch has failed, the table, the
  batch and the queue hold each worker's measurements in order, and all of the table comes before
  all of the batch, all of the batch before all of the queue. With one failing batch this is gone
  for good, because the batch is requeued at the tail.

**PlantState** (ReadingsProofs)

- `PlantTypeOK`, `PlantDerivedIffUsable`, `PlantViewConsistent` from `PInv`: no measurement is from
  the future, each derived signal present follows from the present inputs, with the quality its value
  calls for and a life no longer than theirs but for `FreshnessFloor`, and an absent one means that
  some input is unusable now. The last conjunct is why withdrawal is complete: time only makes inputs less usable.
  Both theorems hold of every signal, whatever values leave it without a result (`NoResult`); that
  it is served only while its inputs are fresh they claim of those with a result.

**PassiveBus** (ReadingsProofs)

- `PassiveTypesOK`, `BusTransactionsGenuine`, `BusCleanMeansComplete` from `BusInv`. `BusStream`: the
  bytes in the buffer and on the wire are in the order they were sent, the wire's behind the
  buffer's and both behind the frames decoded; `BusMatcher`: a pending request was decoded and not
  yet used, and while all counters are zero nothing decoded is unaccounted for. That the buffer
  stays below the longest frame follows from what the scan leaves: it stops only where a candidate
  may still grow into a frame.
- `BusImplementsChannel`: the abstract channel's unread frames are the whole frames in `buffer` and
  `wire` taken together, in ascending order. `FeedRecovers` shows that the scan finds every whole
  frame behind the place it starts from, however many false headers and torn frames lie before it;
  `FeedConserves`, that what `Feed` returns and what it leaves are together the whole frames it was
  given. A flush and an unplugged adapter are the only steps in which the channel loses any.

**StorageMaintenance** (StorageMaintenanceProofs)

- `MaintenanceTypeOK`, `MaintenanceNoSampleLost`, `MaintenanceRollupsNeverShrink` from `RollupInv`:
  rows are known (`RowsKnown`), silences and passes keep their bounds (`InTime`), a period with a
  rollup is over (`PeriodsOver`), no raw row is more than a period older than the newest rollup
  without being in its own (`NoneLeftBehind`), the slices still to be written have all their rows
  (`TodoComplete`), and so have the levels the pass is done with (`LevelsDone`).
- Both properties are false for short retentions (`StorageMaintenanceShort.cfg`), so the theorems
  are about specifications that satisfy `RetentionRoom`, which is defined in the proof module and
  is a hypothesis, not an assumption of the model. It asks of each level that the interval between
  passes, the longest silence of the devices, what a rollup may trail and two periods fit into the
  raw retention, and that no row is late by more than two periods. The run's instance satisfies it
  with equality (retention 8) and TLC refutes `RollupsNeverShrink` at 7, so it is not stronger than
  necessary. With the defaults (14 days, daily rollups) it holds as long as telemetry is never
  silent for more than about 11 days.

**FinancialAccounting** (DaemonProofs)

- `LedgerIsAppendOnly`, `LedgerRespectsCap`, `LedgerCreditEarned` from `LedgerInv`: rows and
  ledger are well formed (`Rows`, `Table`); the premium energy
  of each day's window is the lesser of the cap and its export (`CapKept`); credits stand for
  complete windows within the allowance (`CreditsKept`); what a run reads
  is newer than the ledger, and what it has priced keeps the cap together with the ledger
  (`RunKept`). That pricing one more minute keeps the cap is a fact about sums, shown by a smallest counterexample among the minutes priced.

**DevicePolling** (DevicePollingProofs)

- `PollingTypeOK`, `PollingPublishedGenuine`, `PollingBoundedLateness` from `DInv`. Late answers:
  whatever leaves one behind closes the port, so it can only meet the first identity request, and
  `PollingAssumption` says that no other group is read with its function and count, which is true
  of `device_header` in asw.py and would be lost by adding a group like it. Lateness: of n groups at
  most n - 1 - k are late by more than k exchanges (`FewOverdue`), since an exchange makes every
  group but the one it reads later and that one was the latest; the case k = n - 1 is the bound.

**ForecastService** (ForecastServiceProofs)

- `ServiceCorrectedHasBase`, `ServiceOkMeansArchived`, `ServiceWeatherNotWithheld` from `Inv`:
  `Progress` says what the thread has secured by the place it is at, `persisted` included, and
  `Started` that from the load on the weather in memory is no older than the file; both survive a
  kill, which puts every thread back to "off".

**BatteryPlan and ShadowPlanner** (ShadowPlannerProofs)

- `SearchIsSafe`: `SafeInv` says that every dispatch on every path is safe; each kind of dispatch is
  shown to keep the bounds it is given.
- `EnergyIsAccounted`: with the floors of the divisions, a power within `Room` or `Available` moves
  the stored energy to a place within the bounds, so the clamps never bind; `EnergyInv` carries the
  balance from slot to slot, and a search node's energy is what its path left.
- `CostsAreExact` from `CostInv`: the cap counter of a node is the export of the current day's super
  export slots on its path so far, and its cost is their bill. It is needed that the days of the
  slots ascend (`ScenarioAssumption`; the slots are consecutive hours).
- `PruningIsLossless` from `PruneInv`: every node is reachable, and with both quanta one unit the
  nodes kept span all reachable ones (`Spans`): each has an equal in energy, day and premium
  export that costs no more. `Better` is a strict order, hence a best node exists per key; whatever
  follows a reachable node can follow its equal at the same price. `Reach` does the recursion of the
  search without pruning on sets of positions, so that the fold over the slots can be compared with
  it step by step.
- These four hold of `BatteryPlan`'s own specification, in which any scenario that satisfies
  `ScenarioAssumption` may follow any other, and again of `ShadowPlanner`'s (`WorkerSearchIsSafe` and
  its companions): a round restarts the search from one of `Scenarios` (`InputAssumption`).
- `WorkerHistoryFaithful`, `WorkerVintagesRegular` from `WorkerInv`: the last row of `plan_history`
  says what was published unless a write failed (`HistoryKept`); the three parts of a vintage are
  written in turn (`PartsInTurn`), begun only when one is due (`VintageDue`), present once the thread
  is past them (`VintageThere`), and whole vintages lie an interval apart (`VintagesApart`).

**DaemonLifecycle** (DaemonProofs)

- `StopStragglersKnown`, `CheckWarningsRight`. `OneStop`: a stop happens once, and until it has
  returned every thread started is in `Daemon.threads` but the one about to be entered there;
  `Joined`: a thread is still to be joined, has ended or was given up. `CheckInv`: the latch agrees
  with the last event, and the age of the mismatch is at most the time without an agreement.

Only model-checked: the liveness properties `LossReported`, `BacklogSettles`, `StopCompletes`,
`ClientsCatchUp`, `StaleWithdrawn`, `BacklogCleared`, `RowsAccounted`, `OutageReported`, `GroupsPolled`,
`StaleReported`, `StopReturns` and `ReadsResume`; they need fairness and ENABLED, which are outside
TLAPS. Induction over data cannot be cited from the library either, for its theorems take an operator
as a parameter; where it is needed - sums, the cap, the decoder's scan, folds over slots, ordered
enumerations of sets - the proof takes a smallest counterexample (`SetLemmas`, well-founded induction
on the naturals) and refutes it. What the proofs do not touch: the properties that runs refute, and
the secondary invariants named at the end of section 3.

## 6. What could follow

1. The composition of `PlantState` with `HistoryPipeline`: in which order derived values of two
   publishers reach the database.
2. The pruning with quanta coarser than one: by how much the cheapest trajectory kept may cost more
   than the cheapest of all.
3. `assess_modbus_command` over bounded commands, once something calls it.

## 7. Not modelled

The numbers of the statistics over history (load profile and its correction, correction factors of
the forecast), exceptional tariff events, SQL of read-only endpoints, authentication, configuration
parsing, the Modbus safety policy (a pure decision table nothing calls), the browser interface, the
shell scripts and the stand-alone tools: stateless, outside the process, or arithmetic without
states. SQLite itself is assumed to give atomic, durable transactions and snapshot reads. Several
definitions read the same clock as the code; its being set back is not modelled.
