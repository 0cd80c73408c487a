# TradingAgentsPlus: a verification project

TradingAgentsPlus runs LLM-based analyses of stocks and crypto assets, from a
web workbench, a scheduler, a command line and an agent harness. This directory
holds TLA+ models of its stateful core, the TLC configurations that check them
and proofs checked by TLAPS. Paths below are relative to the repository.

Contents: 1 inventory, 2 the modules, 3 properties and runs, 4 bounds and
fairness, 5 proofs, 6 where code and documents disagree, 7 what is left out,
8 the plan.

## 1. Inventory

### Run manager (`web/manager.py`, `web/lease.py`, `web/error_codes.py`)

*State*: the record of every run (`_records`), the set of active runs
(`_active_run_ids`), a thread pool whose size only grows, the concurrency cap,
a lease per worker, and the SQLite tables `web_runs` and `web_run_events`.

*Operations*: `start_run`, `retry_run`, `begin_run`, `begin_publishing`,
`complete_publishing`, `complete_run`, `fail_run`, `cancel_run`,
`request_cancel`, `renew_worker_lease`, `heartbeat`, `record_activity`,
`publish`, `set_checkpoint_retained_until`, `cleanup`, a watchdog thread, and
recovery in the constructor. Each holds one re-entrant lock.

*Hard*: a run has five or more actors (its worker, its lease thread, the
watchdog, endpoints, a later process); writes fail after memory has changed;
an index and a pool size are kept beside the records they summarise; the
process dies anywhere.

*Correct when*: a verdict is final; an asset has one unfinished run; places are
given back exactly when a run ends; the table never claims more than memory; a
restart gives every unfinished run a verdict.

### Analysis worker (`web/runner.py`)

*State*: where the worker is, its cancellation flag, the report directory
(temporary, committed, final), rows of artifacts, the LangGraph checkpoint.

*Interactions*: a task of the manager's pool; calls the manager before and after
each stage; is called back by the graph for every finished node.

*Hard*: a thread cannot be stopped, so a worker outlives its run; a publication
has four steps on disk and a crash between any two.

*Correct when*: every way out leaves a verdict; report files and verdict agree;
a run in publication always has a worker; every run ends.

### Run endpoints and event stream (`web/app.py`)

Create, cancel, retry; a server-sent event stream that reads a bounded event
log by cursor. *Hard*: a cursor older than the log, reconnects, the terminal
event. *Correct when*: a reader that keeps reading is sent every later event once
and in order, or a snapshot, and then the terminal one. The page that reads it
(`web/static/app.js`) reconnects with one of two cursors and asks for the status
whenever its stream breaks; it has no listener for snapshots and drops them
(section 6).

### Scheduled analyses (`web/scheduler.py`)

*State*: tables of jobs and of logs, the switch in the settings, the jobs
APScheduler knows, a gate per scheduled run, a reconcile thread per run.

*Operations*: endpoints change a job or the switch and then call `resync`; tools
of the chat change jobs and do not; a fire (by APScheduler, one thread per job,
or by a request) looks at settings and job twice, asks the run manager for a
run, writes its log and opens the gate that keeps the run's worker back.

*Hard*: jobs and settings change between look and start; the run is admitted
before its log exists; worker and reconcile thread write the same row; the
manager forgets runs; a write fails, or a thread ends with its error; the process
dies in between.

*Correct when*: a closed log tells what became of its run and stays; every log
closes, after a failure at the next start; no worker passes its gate without its log; APScheduler knows the
enabled jobs.

### Quote service (`web/market_data.py`)

*State*: the quote table, the flights in progress (`_inflight`), a circuit
breaker per symbol, a pool of daemon threads for calls of providers.

*Operations*: `get_quote` (cache, join a flight or fetch, breaker, the chain of
providers with retries, store, publish, unregister), `invalidate`,
`purge_stale`, `reset_circuit`.

*Hard*: callers wait for each other; calls hang and keep their thread; a failure
may come from the provider, the timeout, the breaker or the database, and each
way out must give the flight back.

*Correct when*: one fetch per key, no flight without a fetcher; a waiter has
somebody who will serve it; an open breaker spares the providers; every call
returns.

### Write approvals (`agent_harness/hitl.py`, `audit.py`, `audit_sweeper.py`, `/confirm`)

*State*: approvals in a cache and a table, audit rows with a status, the
session's grant-all switch, a queue of failed status updates, tool threads.

*Operations*: a write tool asks the gate and leaves a pending row with an offer;
`/confirm` claims a row, grants the approval, calls the tool with a timer, takes
the approval back and marks the row; a sweep at start-up expires what is stale.

*Hard*: double clicks and retries; two copies of an approval changed one after
the other; a timer that ends the wait and not the thread; a client that goes
away; restarts.

*Correct when*: a row is decided once and tells what was done; nothing is
written without consent; what is decided stays.

### Agent runtime V2 (`tradingagents/agent_harness/runtime`)

Runs, tasks with versions and leases, dependencies, waits of one task for
another, messages, approvals, an outbox, token budgets, all in SQLite. Large and
careful, but the application as shipped executes none of it: section 7.

### Other parts

Multi-agent sessions on top of the runtime; chat orchestration; harness core
(session locks, a reader-writer lock, a background queue, turns, an event bus);
repositories and report history; alerts; the trading graph with its agents, data
flows and model clients; command line and MCP server. `PROJECT.json` says for
each whether it is modelled and why not.

## 2. The modules

| Module | What it is |
|---|---|
| `RunContract` | abstract: what the service promises about runs |
| `RunManager` | `web/manager.py`, one action per method, any caller in any order, failing writes, crashes |
| `AnalysisService` | `web/runner.py` on top of it: the real callers in their real order, executors, files |
| `RunEvents` | the event log of one run, its stream and the page that follows it |
| `QuoteService` | the quotes of `web/market_data.py`: cache, flights, breaker, chain of providers, pool |
| `ScheduledAnalysis` | `web/scheduler.py` and the jobs' endpoints and tools, on top of `RunContract` |
| `WriteApprovals` | one tool call and its approval, from the gate to the audit row |
| `MC...` | constants for TLC, one module per component (those of `RunEvents` are numbers in its `.cfg`) |
| `RunManager_proofs` | inductive invariant and theorems of `RunManager` |
| `RunContract_proofs` | `RunManager` implements `RunContract` |
| `AnalysisService_proofs` | the service refines `RunManager`; inductive invariant and theorems of workers and files |
| `RunEvents_proofs` | inductive invariant and theorems of the log |
| `RunEventsPage_proofs` | inductive invariant and theorems of the stream and the page |
| `QuoteService_proofs`, `ScheduledAnalysis_proofs`, `WriteApprovals_proofs` | inductive invariants and theorems of these three |

### RunManager

| Variable | Code |
|---|---|
| `phase` | whether the process serves, is dead, or is inside the constructor |
| `mem` | `_records`: status, reason, whether `resume_checkpoint_id` is set, parent |
| `ctl` | the lease of a run and its clock |
| `disk` | rows of `web_runs` |
| `issued` | identifiers used so far (`uuid4` gives no identifier twice) |
| `active`, `pool`, `cap` | `_active_run_ids`, the executor's size, `concurrent_runs_cap()` |
| `faults`, `crashes` | counters of the two bounds |

The lock makes each method one action, with every call it makes: `AdmitRun`
contains the cleanup, the resize of the pool, the check, the insert and the
write of `start_run`; `EndRun` is `_transition_terminal_locked` with
`_stop_lease_locked`, `_finish_locked` and `_persist_terminal_locked`.

Time is what `_check_expired_locked` can tell apart: `fresh`, `lapsed` (only
the worker heartbeat is too old), `overdue` (past `timeout_at`, which is looked
at first). `PassDeadline` and `Lapse` move the clock; a renewal makes a lapsed
run fresh again, as `renew_worker_lease` does. Almost every method first ends a
run that is due. That is `CheckExpired`; the action of the method is guarded
with `~Due(r)`, so the two together are the method.

A write either stores the whole record or fails: the method raises, memory
keeps the change, `faults` grows. `begin_run` writes twice; a failure of the
second write leaves memory and table as a success does.

`Crash` empties memory. `Load`, `RecoverRun` once per unfinished row and
`FinishLoad` are the constructor; the process may die between them. The rows
that `FinishLoad` normalises are written one by one in the code: a crash among
them leaves rows that the next start normalises in the same way.
A write that fails inside the constructor makes it raise: the service is not up
and nothing was lost that the next start would not do.

### AnalysisService

Adds, per run, `pc` (the place of its worker), `home` (the executor it was
submitted to; executors only grow, so the size names one), `cancelled`,
`dir` (its report files), and `queue`, `artifacts`, `checkpoint`, `rooted`.
Between two calls of the manager the worker's code is one step; during
`graph.propagate` each finished node is a step (`Chunk`). The publication is
five steps: write, mark `COMMITTED`, rename, index, complete.
A run whose record was ended elsewhere keeps its worker: that is the point of
the module.

`rooted` is whether the manager knows its report root. `RootsAtLoad` lists what
it may be during recovery: `TRUE` as in the tests, which pass it to the
constructor, `FALSE` as in `web/app.py`, which sets it afterwards.

### RunEvents

| Variable | Code |
|---|---|
| `phase`, `ended`, `row` | the process; whether the run's status is terminal in memory and in `web_runs` |
| `log`, `nextSeq` | `_ManagedRun.events`, a deque of `event_limit`, and `next_seq` |
| `stored` | rows of `web_run_events` |
| `conn`, `cursor`, `pending` | a generator of `run_events`, its cursor, what it has yielded but the page has not read |
| `page` | `state.lastSeq`, `state.seen`, the browser's Last-Event-ID and the URL of its source |
| `count`, ids of events, `page.told` | history: what was published, and the newest event the page was sent, as such or in a snapshot |

Of a run's life only "has it ended" matters here, so the module stands beside
`RunManager`, not on it: `End` is any way of ending there, and `Load` with
`NeedsEnd` is recovery and repair. Every definition keeps the order of effects:
`Publish` has the event in memory when the write fails, `End` writes row and
event in one transaction after memory has changed. The deque is a set of
events, since numbers grow. A run never goes on after a restart, so what can be
published twice is only its end. A snapshot reaches the browser and no further
(`Shown`): `lastSeq`, `seen` and what the page shows stay as they are, and only
the history `page.told` notes that it came.

### QuoteService

| Variable | Code |
|---|---|
| `cache` | the row of `market_quotes` of a symbol: none, fresh or older than the time to live |
| `inflight`, `entry` | `_inflight` and the entry a fetcher put there (result, error, event) |
| `pc`, `key`, `had` | where a thread is in `get_quote`, what it asks for, whether its own read of the cache found a row |
| `on`, `got` | a waiter's reference to an entry and what it holds |
| `call`, `future` | provider, attempt and last error of `ProviderRouter`; its submitted call |
| `queue`, `abandoned` | the pool's queue, and its threads that are still in calls nobody waits for |
| `circuit`, `failures` | `_circuit_open_until`, the recent entries of `_circuit_failures` |
| `sinceOpen` | history: fetches begun since the breaker opened |

A thread takes one step per critical section, transaction or wait. `had` is why
the breaker and a failure answer with a quote that was read before the flight
began. An entry outlives its place in `_inflight`, so `got` is filled for every
thread that holds it. `lost` marks an entry nobody will fill: a failing
`upsert_quote` raises something that is not a `ProviderError`, which leaves
`get_quote` without publishing.

### ScheduledAnalysis

| Variable | Code |
|---|---|
| `job`, `enabled` | `scheduled_jobs`, `scheduler.enabled` |
| `registered`, `writers` | jobs of APScheduler; endpoints between their write and their `resync` |
| `bypassed` | history: a chat tool has written `scheduled_jobs` since the last `resync` |
| `pc`, `fires`, `wants`, `run` | a thread in `trigger`, the job, the asset of its request, the run it was given |
| `outcome` | of `RunContract`: what the manager says of a run |
| `worker`, `log`, `owner`, `reconciler` | the gated worker, the log and its job, the reconcile thread; "lost" where nobody is left to close the log |

The run manager appears only as what `RunContract` promises
(`Manager == INSTANCE RunContract`), which `RunContract_proofs` proves of
`RunManager`: `Admit`, `RunsEnd`, `ForgetRuns` and `Start` are steps of the
contract, so nothing here relies on more than that. A run has at most one log,
so a log is named by its run. Every write of a log may fail: that of `trigger`
(`CreateLogFails`, also after the row is there), of the worker (`MarkRunning`),
of the reconcile thread (`ReconcileFails`, which has the other errors that end
the thread too) and of the start (`left` in `Start`).

### WriteApprovals

| Variable | Code |
|---|---|
| `kind` | what tool it is: guarded in a chat (`DangerousToolGuard`), taking back the same approval or another |
| `approved`, `loaded`, `grantAll` | `_approved`, `_cache_loaded`, `_session_grant_all` of `hitl.py` |
| `stored`, `audit` | rows of `tool_approvals` and `write_audit_log` |
| `failed` | `_failed_updates` of `audit_sweeper.py` |
| `req`, `at` | what a confirm request decided, and where it is |
| `thread`, `how` | a call of the tool in its thread; history: what let it pass the gate |
| `up`, `upsets` | the process; counter of the bound |

One session and one pair of tool and arguments, since approvals of other pairs
are other entries of the same tables. Confirm requests are coroutines: `OnLoop`
lets one step only while no other is between two awaits, and tool threads run at
any time. A row is named by what made it (`asked` by a tool, `posted` by a
confirm without an `audit_id`).

## 3. Properties and runs

| Run | Properties | Question |
|---|---|---|
| `contract` | `TypeOK`, `AssetExclusive`, `ActiveFitsPool`, `MemoryMatchesDisk`, `KeepsContract` | three runs, two assets: does the manager implement `RunContract` over a crash? |
| `faults` | `ActiveIndexAgrees`, `DiskNeverLeads`, `ParentHasEnded`, `VerdictIsFinal` | do these survive failing writes and two crashes? |
| `service` | `ServiceTypeOK`, `VerdictMatchesReport`, `PublishingHasWorker`, `WorkerLeavesVerdict`, `EveryRunEnds` | do workers, files and verdicts agree whoever is late, and does every admitted run end, even if its analysis hangs or no thread is free? |
| `events` | `EventsTypeOK`, `EndIsLast`, `RestartTellsTheEnd`, `ToldInOrder`, `EndIsLearned` | is a page sent every event once and in order, or a snapshot, and does it always learn of the end? |
| `quotes` | `QuoteTypeOK`, `FlightHasFetcher`, `WaiterIsServed`, `OpenCircuitSpares`, `EveryAskEnds` | do callers that share fetches all come back, whatever providers, pool and table do? |
| `scheduled` | `SchedTypeOK`, `LogTellsVerdict`, `WorkWaitsForLog`, `SchedulerFollowsJobs`, `ClosedLogStays`, `LogCloses` | does each scheduled run have one true log, over edits, chat tools, failing writes, shutdown and restart? |
| `approvals` | `ApprovalsTypeOK`, `AuditTellsWinner`, `WriteHasConsent`, `LeftoverHasCause`, `DecidedRowStays` | is nothing written without consent, and does the audit say who decided what? |
| `snapshot_dropped`, `late_work`, `recovery`, `retry_checkpoint`, `reason_rewritten` | one each | expected counterexamples, section 6 |

- `KeepsContract` is refinement: a run's `outcome` is what its row says
  (`Outcome`), and each step of the manager is an admission, a resolution of
  pending runs, a forgetting, or nothing. It needs `MaxFaults = 0`: after a
  failed write the row of an ended run may still say "running".
- `DiskNeverLeads` is what remains true then: a verdict in the table was reached
  in memory first. It is also why no restart can contradict an answer that the
  table had given before.
- `VerdictIsFinal` compares each state with the next, in memory while the
  process lives and in the table across restarts.
- `ActiveIndexAgrees` says the index that admission reads is exactly the set of
  unfinished runs. A leak would block an asset until the next restart.
- `ActiveFitsPool` is about the pool's only-grow rule: the cap may fall and rise
  between admissions, and a restart starts with one thread. It speaks of the
  pool's size; a thread may still be held by the worker of an ended run.
- `VerdictMatchesReport`: files exist only of runs that reached publication,
  and "completed" means the final directory is there.
- `PublishingHasWorker` matters because neither deadline nor lease ends a run in
  publication.
- `EveryRunEnds` includes the case of a single executor thread held by a worker
  whose run has ended: the next run waits in the queue until its own deadline.
- `ToldInOrder` is the promise of the stream, over evicted events, both cursors,
  breaks and restarts: what the page takes in is the next event after the newest
  it was told of, nothing is skipped but what a snapshot stood for, and a stream
  that has returned has left nothing out. It excludes histories in which a write
  failed and the process died later (`NothingLost`): `Publish` then leaves an
  event in memory only, the restart gives its number to another event, and a page
  that has seen the first takes the second for old. What the page makes of a
  snapshot is another question; it drops it (`CursorFollowsSnapshots`, section 6).
- `EndIsLearned` holds even then, and where the end was in a dropped snapshot, by
  the page's question after each break; `RestartTellsTheEnd` and `EndIsLast` are
  the server's half of it.

- `FlightHasFetcher` is what every way out of `get_quote` has to restore; a slot
  left behind would make all later callers of a symbol wait in vain. With
  `WaiterIsServed` it says a waiter and its fetcher agree on the key.
- `OpenCircuitSpares` bounds the fetches of a symbol whose breaker is open. It is
  one and not zero: a fetch of the other key (`force_refresh`) may have looked at
  the breaker before it opened and submit its first call after.
- `EveryAskEnds` needs nothing of the providers: each wait has a timeout that
  counts from the submission. The mutant that counts from the beginning of the
  call, as a pool thread would, lets hung calls starve all others.
- `LogTellsVerdict`: the verdict is asked for in one step and written in another
  only at start-up and in the reconcile thread; it holds as verdicts are final.
- `WorkWaitsForLog` is the purpose of the two gates.
- `SchedulerFollowsJobs` excludes what chat tools do behind the scheduler
  (section 6) and the moment between write and `resync`.
- `ClosedLogStays` names its one exception, the worker's late "running".
  `LogCloses` has that one too, the end of the process, and a log nobody is left
  to close because a write or the reconcile thread failed. What remains is that
  the thread closes the log of every run that ends, of a forgotten one too.
- `AuditTellsWinner` ties a row's status to what the one request that claimed it
  did. `WriteHasConsent` says that no copy of an approval, after a restart
  either, makes a tool run unless somebody consented; it does not say once,
  since the code does not keep that (section 6).
- `LeftoverHasCause` lists the only reasons for an approval that outlives its
  confirm. `DecidedRowStays` holds because the sweep runs at no other time than
  the start; its mutant runs it beside requests.

Every property of a passing run has a mutant in `PROJECT.json`: a plausible
bug (named "Wrong variant" or "Mutant" beside the definition it replaces) under
which TLC finds the property violated.

## 4. Bounds and fairness

`MaxFaults`, `MaxCrashes` and the number of run identifiers are the only
bounds; within them every interleaving is explored.

- `contract`: three runs, two of them competing for an asset, `MaxCap` 2 so
  that the cap can be below, at and above the demand; one crash.
- `faults`: two runs of one asset; two failed writes and two crashes allow a
  failure before, between and after restarts, and a row that lags across both.
- `service` and its violations: two runs of one asset, so that the
  second is a retry or a successor of the first while its worker lives on.
  `service` has caps 1 and 2: two executors of different sizes, or one thread
  that a worker whose run has ended may hold for ever.

- `events`: a log of two events and up to four before the end, so that a reader
  may be inside, at the edge of, or behind the log; two failed writes (an
  event's and the end's) and two restarts, the second of which must not repeat
  what the first has repaired.

- `quotes`: two callers of one symbol, so that they fetch under the same key or
  under the two keys of `force_refresh`; a chain of two providers of which the
  first does not cover the symbol; one retry as in the default settings; one
  pool thread, so that one hung call starves the other caller; the breaker opens
  at the second failure, so one failure may age before. Other symbols share
  nothing but the pool, whose threads `abandoned` calls take anyway.
- `late_work` alone follows the artifacts of runs (`Watched`), which no step of the
  model reads and which would only multiply the states of the others.
- `snapshot_dropped`: the same log, and nothing fails.
- `scheduled`: one job and three threads that can fire it (APScheduler's and two
  requests), competing for one asset and one run with analyses that were not
  scheduled; one endpoint between write and `resync`. A run's identifier is
  never given out again, so one run passes through all of its life once, while
  edits, stops and restarts are unbounded.
- `approvals`: two confirm requests, one chat call beside them, and two upsets
  (`MaxUpsets` counts restarts, statements the database fails and changes of
  grant-all together), which allow a failing write before or after a restart.
  The kind of the tool is chosen in `Init`.

Symmetry: in `contract` and `faults` the two runs of the same asset are
interchangeable (no definition names one), and the properties are invariants
and step properties. The other runs use none, and where liveness is checked they
may not.

Deadlock is checked in every run but `events`, `snapshot_dropped` and `approvals`:
a page that has learned of the end closes its source and has nothing more to do,
and a session may never be sent another request. The other services never stop by
themselves.

Fairness is in `AnalysisService!Fairness`. It is weak and per action: the clock
passes a deadline, the watchdog makes its rounds (a thread with a timer), a
publication goes on (file writes and one model call that carries
`provider_timeout_seconds`), and a dead service is started again and recovers.
Nothing is assumed of the analysis, of free threads or of the lease, which is
why the deadline is what makes `EveryRunEnds` true: the mutant that forgets it
breaks the property.

`RunEvents!Fairness` assumes that a dead service is started again, that threads
and page go on and the browser reconnects, and that not every status request
fails (the one strong fairness). The connection may break for ever.

`QuoteService!FairSpec` assumes that a caller's thread goes on (`Proceed`), which
its timeouts make true of every wait; nothing of the pool, the providers or the
clock of the breaker. `ScheduledAnalysis!FairSpec` assumes that a thread in
`trigger`, a worker past its gate and a reconcile thread go on; nothing of runs,
editors or the process. `WriteApprovals` states safety only: a tool may hang, a
client may go away, and nothing in the code promises that a row is ever decided.

## 5. Proofs

`RunManager_proofs` proves for every finite set of runs, every assignment of
assets and all bounds (the three named assumptions of `RunManager`):

| Theorem | States |
|---|---|
| `TypeCorrect` | `Spec => []TypeOK` |
| `ActiveIndexCorrect` | `Spec => []ActiveIndexAgrees` |
| `AssetsExclusive` | `Spec => []AssetExclusive` |
| `PoolSuffices` | `Spec => []ActiveFitsPool` |
| `NothingToLose` | `Spec => []MemoryMatchesDisk` |
| `TableNeverLeads` | `Spec => []DiskNeverLeads` |
| `ParentsHaveEnded` | `Spec => []ParentHasEnded` |
| `VerdictsAreFinal` | `Spec => VerdictIsFinal` |

The invariants are not inductive alone. `AssetExclusive` speaks of records, but
admission looks at `active`; so the inductive invariant `IInv` says that
`active` is the set of unfinished records (`ActiveIsUnfinished`), during loading
too where recovery has not reached them, and that its assets are apart
(`ActiveApart`). `ParentHasEnded` needs that a parent's identifier is never
given out again (`RecordsIssued`: records, rows and parents are among `issued`)
and that a restart brings no parent back to life, which is `DiskNeverLeads` and
what memory is in each phase (`MemoryOfPhase`). `VerdictIsFinal` then follows
from one step of `Next` in a state of `IInv`.

The lemmas are one per way the state changes (a run ends; a record is
rewritten; a row is written again; runs are forgotten; a run is admitted; the
watchdog's round; crash; load; the end of loading), and each action is an
instance of one of them.

`RunContract_proofs` proves `ImplementsContract`: `Spec => KeepsContract`,
assuming `MaxFaults = 0`. With `NothingToLose` the row of a run is its record,
so a step is classified by what it does to records: `RowsResolve`,
`RowsForget` and `RowsAdmit` say which step of the contract it is.

`AnalysisService_proofs` starts with a refinement: `ServiceImplementsManager`
(`ServiceSpec => Spec`) shows that every step of a worker, an endpoint, a clock
or a restart is a step of `RunManager` or leaves the manager's variables alone.
So `IInv` holds of the service without being proved again, verdicts are final
with the real workers (`ServiceVerdictsFinal`), and together with
`ImplementsContract` the whole service keeps the contract (`ServiceKeepsContract`,
again for `MaxFaults = 0`).

| Theorem | States |
|---|---|
| `ServiceImplementsManager` | `ServiceSpec => Spec` |
| `ServiceTypeCorrect` | `ServiceSpec => []ServiceTypeOK` |
| `VerdictsMatchReports` | `ServiceSpec => []VerdictMatchesReport` |
| `PublishingHasItsWorker` | `ServiceSpec => []PublishingHasWorker` |
| `WorkersLeaveVerdicts` | `ServiceSpec => []WorkerLeavesVerdict` |
| `ServiceVerdictsFinal` | `ServiceSpec => VerdictIsFinal` |
| `ServiceKeepsContract` | `ServiceSpec => KeepsContract` |
| `RootedRecoveryHonoursCommit` | `ServiceSpec => RecoveryHonoursCommit`, if `RootsAtLoad = {TRUE}` |

The three properties relate a worker's place, its run's status and its files only
while the service is up, and a crash takes workers and memory away. The
invariant `ServiceInv` therefore says of the table what the properties say of
memory (`RowsBacked`: a row whose run has files was publishing, completed or
failed in publication, and a completed one has its final directory), which
survives a crash and is what `Load` and `Recover` start from; that without
failing writes row and record are the same (`faults = 0` with `IInv`); and where
the worker of a run of each status can be (`WorkersPlaced`). A late worker is
harmless because of the first: its run has a verdict, so the calls it makes
are refused, and it made no file before `begin_publishing`.
`RootedRecoveryHonoursCommit` is the other half of the run `recovery`: the design's
promise holds for every instance in which the constructor is given the report
root (`RootIsSet`), and fails, as that run shows, in the wiring of `create_app`.

`RunEvents_proofs` proves `EndStaysLast` (`Spec => []EndIsLast`) and
`RestartsTellTheEnd` (`Spec => RestartTellsTheEnd`) for every length of the
deque and all bounds. The inductive invariant `LogInv` adds that numbers are
below `nextSeq` while the service is up (`Numbering`), and where there can be no
terminal event yet (`EndsAgree`). A restart needs that the greatest stored
number exists, which follows from the well-foundedness of `<` (`Greatest`), and
that the deque keeps the last event (`NewestKeepsLast`); so `NeedsEnd`, which
looks at the deque, is exact about the table (`NeedsEndIffMissing`).

`RunEventsPage_proofs` goes on from `LogInv` to the page:

| Theorem | States |
|---|---|
| `EventsTypeCorrect` | `Spec => []EventsTypeOK` |
| `StoryAlways` | `Spec => [](LogInv /\ TypeInv /\ StoryInv)` |
| `PageIsToldInOrder` | `Spec => ToldInOrder` |

`TypeInv` needs no assumption about failures. It rests on lemmas about finite sets
of events with different numbers: `Newest` keeps a finite set within the deque's
length, and `BySeq` lists such a set in order (`BySeqLists`). `StoryInv` is what
holds as long as nothing can have been lost (`NothingLost`). `LogComplete` says
that the numbers in the deque are exactly the last `Limit` of those published,
and those in the table all of them unless a write failed. `PageInv` says that the
two cursors of the page are one, and that it is at the newest event the page was
told of, or behind it and behind the deque: then a snapshot was dropped, and the
page will be answered with another one. `StreamInv` says what is on its way: one
snapshot (`SnapshotSent`), or events without a gap that go on where the page was
told to (`EventsSent`), so the next the page takes in is the next one, and a stream
that has returned has told all. `Telling` carries the end: a page that has seen its
number shows it.
A crash empties the deque; where no write has failed the table then gives back
exactly what the deque held.

`QuoteService_proofs`, `ScheduledAnalysis_proofs` and `WriteApprovals_proofs`
prove, for all values of the constants that satisfy the named assumptions of the
modules:

| Theorem | States |
|---|---|
| `FlightsHaveFetchers` | `Spec => []FlightHasFetcher` |
| `WaitersAreServed` | `Spec => []WaiterIsServed` |
| `OpenCircuitsSpare` | `Spec => []OpenCircuitSpares` |
| `QuotesTypeCorrect` | `Spec => []QuoteTypeOK` |
| `PoolIsBounded` | `Spec => [](Busy <= Workers)` |
| `CallsHaveWaiters` | `Spec => []CallHasWaiter` |
| `TypeCorrect` (scheduled) | `Spec => []SchedTypeOK` |
| `LogsTellVerdicts` | `Spec => []LogTellsVerdict` |
| `WorkersWaitForLogs` | `Spec => []WorkWaitsForLog` |
| `SchedulerFollows` | `Spec => []SchedulerFollowsJobs` |
| `ClosedLogsStay` | `Spec => ClosedLogStays` |
| `SchedulerKeepsContract` | `Spec => Manager!Spec` |
| `TypeCorrect` (approvals) | `Spec => []ApprovalsTypeOK` |
| `AuditTellsWinners` | `Spec => []AuditTellsWinner` |
| `WritesHaveConsent` | `Spec => []WriteHasConsent` |
| `LeftoversHaveCauses` | `Spec => []LeftoverHasCause` |
| `DecidedRowsStay` | `Spec => DecidedRowStays` |

*Quotes.* `FlightInv` adds to the two flight properties that a fetcher's entry is
empty until it publishes or fails to store (`EntryOfFetcher`) and that only
waiters hold an entry (`OnlyWaitersWait`): so nobody waits for an entry whose
place has been given to another flight. `SparingInv` explains the one fetch of an
open breaker: behind it at most one fetch has passed it and not yet begun
(`OneSlips`), since the symbol has two keys, one flight each, and the caller
whose failure opens the breaker holds one of them. `PoolInv` is about cardinalities:
a call that is given up moves its thread from the running ones to the lost ones,
so both together never exceed the pool, and `call` never leaves the chain.
`CallHasWaiter`, which the proof adds to the other invariants, is why a pool thread
that takes the head of the queue begins a call somebody waits for, and no call
twice: the queue has each waiting call once (`RemoveAtLeaves` is what giving up
does to it).

*Scheduled analyses.* `SchedInv` says what a thread in `trigger` holds at each of
its places (`ThreadStage`: the run's worker is still gated, its log and its
reconcile thread are made in this order), that no two threads hold one run
(`RunsApart`), that nothing is there for a run not yet admitted and a log that is
still polled for is open (`RunStage`), and that a dead process has no threads
(`DownIsIdle`). Of the manager only the steps of `RunContract` are expanded. `SchedulerKeepsContract`
is the other direction: whatever the scheduler does, it moves runs by steps of the
contract only. With `ImplementsContract` the two fit, as long as no write of the
manager fails; that an asset has one unfinished run is then a matter of
`start_run` (`AssetsExclusive` of `RunManager_proofs`), not of the scheduler.
`ClosedLogsStay` is the case split over one step in a state of `SchedInv`.

*Approvals.* `AuditInv` ties each confirm's place to what it has decided and what
its call did (`RequestStage`); a claimed row belongs to one confirm
(`AuditTellsWinner`, part of the invariant). `ConsentInv` adds that each copy of
an approval (cache, table, a gate about to prime the cache) has a consent behind
it; `CauseInv` that an approval in the cache is carried by a confirm that has not
taken it back, or was read again from the table.

Every safety property of a passing run is proved. Only model-checked are the
liveness properties (`EveryRunEnds`, `EndIsLearned`, `EveryAskEnds`,
`LogCloses`), since proofs under fairness need `ENABLED`, which the provers do
not have. Two of the theorems have a hypothesis: that `RunManager` keeps the contract needs
`MaxFaults = 0`, and `RecoveryHonoursCommit` needs `RootsAtLoad = {TRUE}`; without
these they are false, as sections 3 and 6 say.

Two definitions were rewritten to be reasoned about, with the same meaning: a
task leaves a queue by `RemoveAt` at its place (`AnalysisService!TakeTask`,
`QuoteService!LeaveQueue`), not by the recursive `SelectSeq`, and `RunEvents!BySeq`
lists events by their place, the number of events up to each.

## 6. Where code and documents disagree

Each is a run that is expected to be violated, with the quotation in
`PROJECT.json`.

1. **Late artifacts** (`late_work`). The recovery design says a model result
   that returns after the watchdog ended the run writes no artifacts.
   `on_chunk` writes them without looking at the status.
2. **A complete report is failed by a restart** (`recovery`). `create_app`
   gives the manager its report root after the constructor has recovered the
   runs, so recovery never finds a report. The tests pass the root to the
   constructor, where the design's promise holds.
3. **A retry without a checkpoint** (`retry_checkpoint`). Retry checks an
   identifier that is set before the graph has saved anything;
   `checkpoint_available` has no caller outside the tests.
4. **A restart rewrites reasons** (`reason_rewritten`). Loading tags service
   restarts so that the audit trail tells them from expired leases, then the
   normalisation gives every interrupted run that tag.
5. **Snapshots are dropped** (`snapshot_dropped`). The reliability design and its
   plan have the browser set `lastSeq` to `snapshot_seq`. The service sends a
   snapshot as the SSE event `run_snapshot`; `connectEvents` (`app.js:961`) listens
   to `onmessage` and the eleven names of `SSE_EVENT_DEFS`, so the branch of
   `processEvent` for snapshots is never reached. A page that fell off the log
   never shows what the snapshot stands for, every event so far, and goes on with
   what the same stream sends next; if it must reconnect before that, its old cursor
   is answered with another snapshot. That the run has ended it learns by
   asking for the status (`EndIsLearned`).

The following were met while modelling and have no run of their own. The models
behave as the code does.

*Runs.* `README.md:243` says a run without heartbeats becomes `timed_out`, the
code makes it `interrupted`; `propagate` accepts `prior_context` but does not
pass it to `_run_graph`.

*Quotes.*
- A waiter that joined a flight which the open breaker refuses is given nothing:
  `_publish_inflight(result=None)` ends in the assertion at
  `market_data.py:557`, which `get_quotes` does not catch.
- The comment at `market_data.py:547` says a waiter does not give up before the
  fetcher publishes. It waits one provider's timeout and five seconds; a fetch
  may take that timeout for each provider and attempt.
- A quote that cannot be stored is published to nobody; waiters sit out their
  timeout.
- When the last provider of a chain does not support the symbol, the error of
  the chain is `NOT_CONFIGURED`, whatever the others answered, and the breaker
  does not count it.
- A fetch that ends late stores its quote over a newer one, or stores again what
  `invalidate` has dropped.

*Scheduled analyses.*
- Chat tools (`tools/impl.py:1409` and on) change jobs without `resync`: a new
  job is not fired, and the fire of a deleted one raises, until an endpoint
  resyncs or the service restarts.
- A job whose asset is edited between the two looks has a log that names another
  asset than its run (`scheduler.py:230`).
- A worker's late "running" (`scheduler.py:249`) opens a closed log, which stays
  so until a restart. A completed run that the manager forgets before its
  reconcile thread asks is logged as failed.
- A log stays open until the next start when the write that would close it fails:
  `_reconcile_run` suppresses the error and returns (`scheduler.py:337`, `:349`), or
  dies of it. It dies too when `get_run` raises another error than `KeyError`, and
  when `wait_for_events` (`scheduler.py:352`, outside the `try`) finds that the run
  was forgotten since. A log that was written and could not be read back
  (`CreateLogFails`) has no thread at all; and the start leaves open what it cannot
  write and all but the first thousand (`list_incomplete`).
- When the log cannot be written, also because the job was deleted meanwhile, the
  run goes on without one.

*Approvals.*
- One consent may be used twice (`hitl.py:16` and the docstring of
  `consume_approval` promise single use): a chat call between grant and
  consumption passes the gate; a gate that reads the open row between the two
  steps of a consumption puts the approval back into the cache; the approval of a
  confirm that timed out or was cut stays.
- Of two overlapping confirms one may consume the other's approval; the other's
  tool then answers that it needs confirmation, and its row is marked executed,
  as is one whose tool returned an error.
- `INSERT OR IGNORE` keeps a consumed row, so an approval granted again is in the
  cache only.
- Failed status updates are queued for a sweep that "eventually converges"
  (`audit_sweeper.py`, the comment at `app.py:1083`); it runs only at start-up,
  when the queue is empty. `run_sweep` calls itself safe to call at any time:
  the mutant of `DecidedRowStays` shows it would expire rows of running tools.
- The page sends `payload?.audit_id`, which the offer nests in `gate`, so its
  confirms make and claim rows of their own: a double click runs the tool twice,
  and only other clients have the claim's protection.

## 7. What is left out

Of the modelled parts:
- Runs: the content of records, events, reports and artifacts; progress; the two
  seconds for which ending a run waits for its lease thread; the TTL of ended
  runs, which may be forgotten at any time instead. In `RunEvents`: events
  skipped because progress went back, the expiry of a log with its run, several
  pages (they do not touch each other), answers to a status request that arrive
  late. In `AnalysisService` no database write fails; `RunManager` has those.
- Quotes: prices, the health rows of providers, candles and identities (the same
  router without cache, flight or breaker).
- Scheduled analyses: cron expressions and fire times, logs of skipped fires, the
  queue of submission times (a misfire leaves an old one in it, so a later log
  shows a wrong `scheduled_for`), the parameters of a request but its asset; a
  reconcile thread that cannot be started, which leaves the worker at its gate.
- Approvals: what a tool writes; the alert and task tools of `builtin.py`, which
  run gate and write without an await and ignore grant-all, and so have a subset
  of the behaviours; `revoke_session` and `expire_pending`, without a caller. A
  chat turn repeats a cached answer for a minute instead of calling the tool
  again; the minute may have passed at any moment.

External, modelled by how the code uses them: wall-clock time, process death,
LangGraph and its checkpoints, APScheduler.

Not modelled, because the application never enters the states a model would be
about:
- *Agent runtime V2.* A chat turn creates a run with one ready task, streams the
  answer by other means and calls `resume` (`web/harness_runtime_api.py`). No
  code of the application claims a task or runs an outbox worker, and its ingestor lacks the method `answer` calls. The run stays active, and
  the unique index of active runs refuses every later turn of the session,
  against the docstring of `chat_handler` ("captures every chat turn"). Read on
  the way: `_resolve_waits` resolves waits whose child still runs and wakes
  nobody; recovery fails a run while other tasks of it run; an optional task that
  fails leaves a dependent on success, and the run, waiting for ever; `cancel`
  skips tasks that wait for approval; the outbox's marks do not compare the owner
  of a claim. These become hazards when a worker is connected.
- *Multi-agent sessions*: built on those tasks.
- *Harness core*: the reader-writer lock, the background queue, the graph
  executor and the turn coordinator have no caller, or a flag that is off.

Not modelled, because there is no shared control to model: data flows, prompts,
model clients and the wording of chat turns are data; repositories are one
transaction per call; command line and MCP are sequential. Alerts are one thread
under one lock, numeric; a second price alert of a symbol never sees the crossing
because the first has overwritten the last price (`alert_engine.py:131`).

These parts are most of the repository's lines, which is why the map covers a
small share of them: the stateful, concurrent core is a few thousand lines.

## 8. The plan

1. `RunManager`, `RunContract`, `AnalysisService` and their proofs: done.
2. `RunEvents` and the proofs of its log: done.
3. `QuoteService`, `ScheduledAnalysis`, `WriteApprovals`: done.
4. Proofs of the safety of these three: done.
5. Proofs of `AnalysisService`, of the page's half of `RunEvents`, of the pool of
   `QuoteService` and of the fit of scheduler and manager: done.
6. Task scheduling and outbox of the agent runtime, when the application
   executes them: an abstract task life cycle, the promise of `_resolve_waits`,
   and single delivery under expired claims.
