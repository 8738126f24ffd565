# Orchid in TLA+

Orchid (the Go program in `src/`) is a durable workflow engine: it runs DAGs of
steps, keeps every transition in a history log, hands tasks to polling workers
under leases, and undoes completed steps with compensations when a run fails or
is cancelled. This directory holds a TLA+ model of it, the configurations that
check the model with TLC, and theorems about it that TLAPS checks.

Line numbers below are those of the files in `src/`; `service.go`, `reducer.go`
and `types.go` are in `internal/engine`, `store.go` is `internal/store/sqlite`
unless Postgres is named.

Contents: [1 the system](#1-the-system) · [2 modules](#2-the-modules) ·
[3 abstractions](#3-abstractions) · [4 checks](#4-what-tlc-checks) ·
[5 disagreements found](#5-where-code-and-documentation-disagree) ·
[6 proofs](#6-what-is-proved) · [7 not modelled](#7-what-is-not-modelled) ·
[8 plan](#8-plan)

## 1. The system

### Components

| Component | State | Operations | Correct when |
|---|---|---|---|
| Workflow DSL, registry (`pkg/workflow`) | definitions and handlers, immutable once a process runs | `Activity`, `Timer`, `With…`, `DependsOn`, `Build`, `Register` | `Build` accepts exactly closed, acyclic graphs with usable steps |
| History (`internal/history`) | the vocabulary of events | `New` | what an event carries is enough to replay every decision |
| Reducer (`reducer.go`) | `RunState`: tasks, steps, outputs, completion order, flags | `Replay`, `applyEvent` | replay of the log gives what the engine had in memory when it committed |
| Service (`service.go`) | none; every command loads, replays, decides and appends | `StartRun`, `CompleteTask`, `FailTask`, `FireTimer`, `CancelRun`, `RecoverExpiredLease`, `Sweep`; readers `GetRun`, `ReplayRun`, … | dependencies and attempt limits hold, no run gets stuck, cancellation and failure unwind what completed, an ended run stays as it is |
| SQLite and Postgres stores (`internal/store`) | tables `runs` (with a version), `tasks`, `history_events` | `CreateRun`, `AppendRunChanges` (compare version and set), `LeaseTasks`, `HeartbeatTask` (both write task row, event and version directly), list queries | rows and log never diverge, no committed write is lost |
| Worker pool (`internal/worker`) | per slot: the task in hand, its heartbeat goroutine | `loop`, `execute` | each lease gets at most one report, a lost lease is not reported on |
| Runtime (`internal/app`) | one maintenance ticker, one pool per queue | `Run`, `runMaintenance`, `Close` | due timers and expired leases are found again and again, also after a restart |
| Lease config (`internal/queue`), API, client, `orchctl`, browser UI, telemetry, daemon, example | none that decides anything | | out of scope, see section 7 |

### How they interact

Clients reach the service over HTTP (start, cancel, read, replay). Pools call
the service in process: they poll `LeaseTasks` for their queue, run the handler
while a goroutine renews the lease, and report `CompleteTask` or `FailTask`. The
maintenance loop calls `Sweep` every 250 ms: it fires due timers and fails the
tasks whose lease has expired. There is no lock and no shared memory between
them: the only shared state is the store. A command reads the run, the history
and the tasks, decides, and commits one transaction if the run's version has not
changed; on a conflict it starts over, at most five times. Leases and heartbeats
do not replay: they write a task row, append an event and bump the version.

### What is hard here

- Reports, cancellations, sweeps, timers and heartbeats of one run arrive in any
  order. No command but `CancelRun` looks at whether the run has ended.
- State is kept twice: as rows (written by leases directly, by commands from a
  replay) and as the history that is replayed.
- `RecoverExpiredLease` checks and acts on two different loads.
- A worker may die, or be late, at any point; so may the process that sweeps.
- Attempts are spent by failures and by expired leases alike.
- Compensations are chosen one report at a time from a completion order that
  late completions still extend.
- On Postgres a transaction is several statements; each waits for row locks, and
  commands, leases and heartbeats take them in different orders.
- A sweep has a limit, the text that SQLite compares is not ordered like time, and a
  task whose run cannot be loaded stays at the head of every list.

`PROJECT.json` lists each of these hazards at its line with the properties that
would catch it; those without a property say why.

## 2. The modules

```
Workflow ── Reducer ── Engine ── RunEngine ── RunProperties ── RunInvariant ── MCRunEngine
                                     │                              │
                                     │                    RunInvariantProofs
                                     │                         │         │
                                     │           RunHistoryProofs       RunTheorems
                                     │                         │         │
                                     └─ OptimisticEngine ── OptimisticProofs
                                              └── MCOptimistic (with RunProperties)

Saga      ┄┄ RunProperties
TaskLease ┄┄ RunProperties (one instance per task)
    ┄┄┄┄┄┄┄┄ WorkerPool ── MCWorkerPool, WorkerPoolProofs

AtomicStore ── PgStore ── PgInvariant ── MCPgStore, PgStoreProofs
SweepQueue ── MCSweepQueue, SweepQueueProofs
Backoff ── WorkflowBuilder ── MCWorkflowBuilder, WorkflowBuilderProofs
```
(each module EXTENDS the ones to its left along a full line, and is built on an
INSTANCE of the one along a dotted line)

Four abstract specifications hold the parts together: **Saga**, a run towards its
client, for RunEngine; **RunEngine** itself, in which a command is one step, for the
calls of OptimisticEngine; **TaskLease**, one task towards its workers, for the run
and for the slots of a pool; **AtomicStore**, in which an operation of the store is
one step, for the transactions of PgStore. What WorkflowBuilder is shown to accept is
what Workflow assumes.

### The run

- **Workflow** — the definition of one workflow as constants (`Step`, `Deps`,
  `Timer`, `Compensable`, `MaxAttempts`, `Queue`, `CompQueue`), with what `Build`
  guarantees as `WorkflowAssumption`; the identity of tasks.
- **Reducer** — the pure replay reducer. One operator `Apply…` per event type of
  `applyEvent`, `ApplyEvent` as the dispatch, `Replay` as a fold.
- **Engine** — the service as functions from a loaded state to a batch
  `[state, events, mutated]`: `StartRun`, `CompleteTaskOnce`, `FailTaskOnce`,
  `FireTimerOnce`, `CancelRunOnce`, built from `PostProcess`,
  `BeginCompensationOrFinish`, `AdvanceCompensation` and the tests they use, each
  named after its Go function.
- **RunEngine** — the state machine of one run. Variables: `run` (status and
  failure columns), `rows` (the task rows), `history` (the log), `state` (what
  the next load will replay), `due` (tasks whose `available_at` or
  `lease_expires_at` has passed), `sweep` (the expired lease the maintenance loop
  has seen and is about to fail). Actions:

  | Action | Code |
  |---|---|
  | `Init` | `Service.StartRun` and `Store.CreateRun` |
  | `LeaseTask(w,t)` | `Store.leaseTasks`, one task |
  | `HeartbeatTask(w,t)` | `Store.HeartbeatTask` |
  | `CompleteTask(w,t)`, `FailTask(w,t)` | the service commands with their commit |
  | `CancelRun`, `FireTimer(t)` | the service commands with their commit |
  | `RecoverExpiredLease(t)` | `Service.RecoverExpiredLease` up to its check |
  | `FailExpiredLease` | the `FailTask` it then calls, on a new load |
  | `Restart` | the process stops between those two, or gives up on conflicts |
  | `Tick(t)` | the clock passes a deadline |

- **OptimisticEngine** — the same commands as the service makes them. Variables:
  those of RunEngine, the run's `version`, and `calls`, the call each goroutine is
  in with what it has read so far. Actions:

  | Action | Code |
  |---|---|
  | `Report`, `Cancel`, `Sweep` | a call begins: a slot's report, the API, the maintenance loop |
  | `LoadRun(c)` | the first read of `loadRun`: the run row and its version |
  | `LoadHistory(c)` | the second read, the replay, the command's early returns and its decision; `RecoverExpiredLease` goes on with a `FailTask` that loads again |
  | `Commit(c)` | `AppendRunChanges` of an unchanged version |
  | `Conflict(c)` | `withOptimisticRetry`: again from the first read, `MaxTries` times |
  | `DirectWrite(w,t)` | a lease or a heartbeat, which moves the version too |
  | `PassDeadline(t)`, `Stop` | the clock; the process stops, with every call in it |

- **TaskLease** — the abstract specification of one task towards its workers: one
  row, and the steps `Schedule`, `Lease`, `Complete`, `Retry`, `Fail`, `Fire`,
  `Cancel`. `RunProperties` instantiates it once per task, with
  `task <- rows[t]`, and states that the run implements all of them
  (`TasksKeepLeases`). A retry is one step of it although the engine writes two
  events: they are committed together.
- **Saga** — the abstract specification of one run towards its client: its `status`, the
  steps `done` in the order of their completion, those whose compensation has begun
  (`undoing`), and whether a cancellation was requested (`cancelled`); and the steps
  `Complete(s)`, `Fail`, `Undone`, `Cancel`. Tasks, leases, retries, workers and history
  are not in it. `RunProperties` maps `run.status`, `state.completedOrder`, the
  compensations that have a row, and `state.cancelRequested` to it, and states that the
  run implements it (`ImplementsSaga`). What the code does beyond its documentation is
  in it by name: `Complete` and `Fail` may happen after "failed", and a failure may then
  start undoing again (section 5).
- **RunProperties** — the properties of a run; the first part holds, the second part
  says what the documentation promises and the code does not keep.
- **RunInvariant** — the inductive invariants of the proofs: `IInv`, of the state, and
  `HistoryInv`, which ties the history to it.

`state` is redundant by design: it is not recomputed from `history` at each step
(that would make every guard a fold), and `ReplayDerivesState` checks that it is
equal to the replay of what is stored. One auxiliary field, `state.logged`,
remembers the failure that events carry, so that `Reload` can say what the next
load makes of a failure that was only assigned in memory.

### The workers

- **WorkerPool** — the slots of the pools around one task of TaskLease. Variables:
  `task`, `expired` (its lease is past its deadline), `sweep`, `slots` (per slot:
  idle, running or returned; the attempt it leased; whether a heartbeat failed; the
  report it will make) and `late` (heartbeats under way when their handler
  returned). A handler that gives up because a heartbeat failed, for whatever reason,
  returns `context canceled`, which `execute` reports as final (`worker.go:146`): the
  task fails with attempts left. `ReportOf` models that. Actions:

  | Action | Code |
  |---|---|
  | `LeaseTask(s)` | `Pool.loop`: `LeaseTasks` with the pool's id, then `execute` |
  | `Heartbeat(s)`, `HeartbeatError(s)` | a tick of the heartbeat goroutine; the store renews, refuses, or fails |
  | `Return(s)` | the handler returns, and what `execute` makes of it (`ReportOf`) |
  | `SendReport(s)` | `CompleteTask` or `FailTask`, taken, refused or given up |
  | `LateHeartbeat(w)` | a renewal chosen by `select` before `heartbeatDone` was closed |
  | `Expire`, `RecoverExpiredLease`, `FailExpiredLease` | clock and sweep |
  | `CancelRun` | a cancellation of the run, seen from the task |
  | `Restart` | the process stops, with every slot and the sweep |

### The stores

- **AtomicStore** — what `engine.Repository` promises of a store, for one run and its
  activity tasks: `version`, `log`, `rows`, and one step per operation
  (`AppendRunChanges`, `LeaseTask`, `HeartbeatTask`). The engine is reduced to what
  it makes of a log: which reports it takes and which rows they change. SQLite, with
  its one connection (`store.go:91`), is this store.
- **PgStore** — the Postgres store, statement by statement under READ COMMITTED.
  `tx[c]` is the call a session is in: its statement, what it read, the events and
  rows it will write, and the row locks and keys it holds. Actions:

  | Action | Code |
  |---|---|
  | `BeginCommand`, `Load` | a service command and its load |
  | `UpdateRun`, `InsertEvents`, `UpdateTask`, `CommitTx` | the statements of `AppendRunChanges`, one per row |
  | `SelectTask` | `LeaseTasks`: SELECT … FOR UPDATE SKIP LOCKED and the UPDATE of the row it locked |
  | `CheckLease`, `RenewLease` | `HeartbeatTask`: its check, which locks nothing, and its UPDATE |
  | `NextSequence`, `InsertEvents`, `BumpRunVersion`, `CommitTx` | the rest of both |
  | `Refused` | a duplicate sequence number, or a deadlock that Postgres breaks |
  | `Abort` | the connection, the context or the process ends: rollback |

- **PgInvariant** — the inductive invariant `PgInv` of the proofs about PgStore.
- **SweepQueue** — the SQLite queue and the maintenance loop over the tasks of many
  runs: a clock, rows with an owner, a deadline and the time of their last update, and a
  sweep that lists at most `Limit` timers and `Limit` leases, oldest update first, and
  goes through them one by one while everybody else goes on. A task in `Poison` belongs
  to a run that cannot be loaded (its workflow is not registered): its turn ends in an
  error, which is logged. Deadlines are compared as the text SQLite stores
  (`TextBefore`): RFC 3339 with a fraction whose trailing zeros are dropped. Actions:

  | Action | Code |
  |---|---|
  | `LeaseTask(t,w)`, `RenewLease(t)` | `Store.leaseTasks` with a limit of 1, `Store.HeartbeatTask` |
  | `ReportTask(t)` | a worker's `CompleteTask` or `FailTask`, its retry included |
  | `AvailableTimers`, `ExpiredLeases`, `SweepReturns` | `Service.Sweep`: its two lists, its end |
  | `LoadFails(t)` | a turn whose load fails: logged, and on with the next |
  | `FireTimer(t)` | `fireTimerOnce`: check and commit on one load |
  | `RecoverExpiredLease(t)` | the load of `Service.RecoverExpiredLease` |
  | `FailExpiredLease(t)` | its look at the clock (`service.go:433`), and the `FailTask` it then calls, on a load that looks at status and owner only |
  | `Tick` | the clock |

### The builder

- **Backoff** — `RetryPolicy.Normalize` and `BackoffForAttempt`.
- **WorkflowBuilder** — steps are put in any order (`Put`), `Build` checks each of
  them and then searches for a cycle. The recursive closure `visit` is a stack of
  calls in progress and the three colors: `VisitNext`, `VisitDependency`, `Leave`,
  `Accept`.

The modules named MC… give the constants of a module their values for TLC, those
named …Proofs and RunTheorems are section 6.

Operators commented "Fault:" are mutated forms of the operator that follows them
(a dropped guard, a missed write, a reversed search). Nothing uses them; each one
put in the place of its original makes the property it is paired with in
`PROJECT.json` fail, which shows that the property sees that part of the code.

## 3. Abstractions

- **One run**, but for SweepQueue. Runs share no state but queue capacity and the
  lists of a sweep; SweepQueue has the tasks of many runs, and in the other modules
  pools have room.
- **A command is one step** in RunEngine. OptimisticEngine says why it may be:
  `ImplementsRunEngine`. A load is two reads there: the third one, `ListTasks`, comes
  after the history and only supplies columns that never change. What giving up after
  the last conflict leaves behind is a report that was never made.
- **Task identity** is step and phase instead of a uuid: `TaskLifeCycle` checks
  on the recorded history that neither is ever scheduled twice.
- **Payloads.** An output is present or absent, an error message is the task whose
  failure it reports, a cancel reason is dropped. Where the code compares or
  stores a message, the task stands for it.
- **Time.** A deadline has passed (`t \in due`) or has not; it may pass at any
  moment. Hence no assumption on backoff, TTL, delay or poll intervals. SweepQueue
  has a clock, since what it is about is how times compare.
- **Workers** report on any task whose lease their id holds, at any time, with
  either result, or never. This covers crashed, slow and stuck workers; it does not
  tell two slots of one pool apart, which share an id: WorkerPool does.
- **One task and its slots.** In WorkerPool nothing else of the run matters: the
  task is available from the start, a cancellation may come at any time, and a
  retry may be leased as soon as it waits. A handler may return success, a
  retryable or final error (an unknown handler, or input or output that does not
  convert, is a final one), the error of its cancelled context if it was
  cancelled, or never return. `HeartbeatReply.CancelRequested` is never true: it
  asks for a leased forward task in a run that is cancelling or cancelled, and
  no forward task is open there (`CancelStopsForwardWork`, proved). A
  shutdown cancels the handler's context and the context of its report alike, so
  nothing is reported: `Restart`.
- **Order inside one batch.** The tasks that one command schedules or cancels are
  handled as a set: their events commute, and the code's order is not observable
  in anything modelled. PgStore lets a command update its rows in any order, since
  there it decides who waits for whom.
- **Postgres itself** is external: what PgStore assumes of READ COMMITTED, row locks,
  unique keys and deadlock detection is listed at the head of the module. Activity
  tasks only, and no deadlines: any leased task may be failed in its owner's name at
  any time. A load is one statement there.
- **The sweep's workers** (SweepQueue) may lease, renew and report at any time. The
  engine is reduced to what a report or a turn of the sweep does to the row; a retry
  waits `Delay`, whatever its attempt. One queue, and the pools' limit of one task.
  The version check of a commit is taken as passed: a timer fires on its load, and a
  failure on its second one, in one step (OptimisticEngine has the conflicts).
- **The builder** has no names, metadata or handlers: a step is its id, its kind,
  whether its required option is there (`filled`), its queue, dependencies and
  retry policy. `Build` hands out the step map itself: what a later `With…` does to
  a definition already built is a listed hazard and not in the model.

Not in the model because the code never does it: `task.lease_expired` is declared
and reduced, but nothing emits it; `run.status = "cancelling"` never survives a
command (proved: `StatusInv`).

## 4. What TLC checks

| Run | Instance | Checks | States |
|---|---|---|---|
| `join` (MCRunEngine) | diamond, 2 workers (symmetric), 1 heartbeat | `TypeOK`, `ReplayDerivesState`, `ViewsAgree`, `TaskLifeCycle`, `LeasesBounded`, `DependenciesRespected`, `NoStuckRun`, `CompletedMeansAllDone`, `UnwindOrder`, `CancelStopsForwardWork`, `CancelledMeansUnwinding`, `IInv`, `HistoryAgrees`, `TasksKeepLeases`, `ImplementsSaga`, `SettledRunIsFinal` | 159,818 |
| `optimistic` (MCOptimistic) | an activity with two attempts beside a timer, both compensable; 1 client and the sweep, 1 worker, 1 heartbeat, 2 tries, fairness | `OptimisticTypeOK`, `VersionCountsHistory`, `FreshLoadsAreCurrent`, `ImplementsRunEngine`, `EventuallySettled` | 239,953 |
| `pool` (MCWorkerPool) | a pool of 2 slots that share its id and a pool of 1 slot, 3 attempts, fairness | `PoolTypeOK`, `StrayReportsAreShared`, `LostLeaseNoticed` | 105,989 |
| `postgres` (MCPgStore) | 2 tasks, 2 workers, 2 sessions, 2 tries, no call begun once the log has 6 events, fairness | `PgTypeOK`, `VersionCountsLog`, `StatusFollowsLog`, `PgInv`, `ImplementsAtomicStore`, `CallsEnd` | 39,076 |
| `sweep` (MCSweepQueue) | an activity, 2 timers and a timer whose run cannot be loaded, 2 workers; lists of 2, clock of 13 instants, fraction of 2 binary digits, fairness | `TypeOK`, `SweptWasOverdue`, `LeasedEarlyBySubsecond`, `OverdueAreSwept` | 483,622 |
| `builder` (MCWorkflowBuilder) | every dependency set over 3 ids, and 6 steps that fail one check or have an odd policy; fairness | `TypeOK`, `OrderListsSteps`, `BuiltIsWellFormed`, `RefusedIsIllFormed`, `RetriesSlowDown`, `BuildReturns` | 80,333 |

The *diamond*: the activity `a` (two attempts) and the timer `c` start together, `b`
needs both; `a` and `c` are compensable, and the timer's compensation has a queue of
its own. It is the smallest shape with fan-in, a retry, a timer, forward work that is
open while another step fails, and two orders in which to undo two steps.

What the runs show:

- `ReplayDerivesState`: the log is enough. Whatever interleaving of direct writes
  and replayed commits led here, folding the stored history over the stored row
  gives the state the engine decided on.
- `ViewsAgree`: the rows that pools and operators read say the same as the replay.
- `TaskLifeCycle`: as recorded, each task is scheduled once, leased only while it
  waits, reported on or renewed only by the id that leased it, retried only after a
  failure and silent after its end. So a late report never gets into the log.
- `LeasesBounded`: failures and expired leases together never hand a task out more
  often than its retry policy says, and a compensation only once.
- `DependenciesRespected`, `NoStuckRun`, `CompletedMeansAllDone`: the forward path.
- `UnwindOrder`: a compensation never starts while a compensable step that
  completed later has not been taken up.
- `CancelStopsForwardWork`, `CancelledMeansUnwinding`: cancellation, against
  everything it can race with.
- `SettledRunIsFinal`: completed and cancelled runs are final. Failed ones are
  not: section 5.
- `TasksKeepLeases`: seen from one task, every commit, lease and sweep is a step of
  TaskLease. WorkerPool may therefore be built on TaskLease alone.
- `ImplementsSaga`: seen by the client, every commit moves status, completions and
  compensations together. A run completes with its last step and not otherwise, undoes
  the step that completed last first and each step once, and is failed or cancelled only
  when the undoing of all that had completed by then has begun. (That it also ends is not
  promised: `ended`, section 5.) In the diamond a failed run is
  never reopened; the workflows of `reopened` (three independent steps) and of
  `two_compensations` were checked too, and the theorem of section 6 covers them.
- `IInv`, `HistoryAgrees`, `PgInv`: the inductive invariants behind the theorems of
  section 6. The runs only say that they hold; that they are inductive is what is proved.
  (`HistoryAgrees` is `HistoryInv` without its replays from every failure that a row may
  have stored, one for each task: `ReplayDerivesState` replays from the stored one.)
- `FreshLoadsAreCurrent`: the two reads of a load may see two versions of the run, and
  the version check covers only the first. It is enough: if the version is unchanged
  at the commit, both reads saw what is there.
- `VersionCountsHistory`: commands number events from the version of the run row,
  leases and heartbeats from the last event; the two never part.
- `ImplementsRunEngine`: calls that interleave, conflict, start over, give up or are
  cut off by a stop do what RunEngine does in one step per command.
- `EventuallySettled`: every run ends with nothing open, even if no worker ever
  reports, if commands are lost to conflicts, and if the process stops again and again.
- `StrayReportsAreShared`: a report that changes the task comes from the execution that
  holds the lease, or from an earlier one in a slot whose pool has other slots. So a
  pool of one slot never ends another's lease, whatever was recovered, renewed late or
  restarted meanwhile; that a slot of a larger pool does is `shared_id`, section 5.
- `LostLeaseNoticed`: an execution whose lease is gone has its handler cancelled, or
  the handler returns first, or another slot of the same pool gets the lease before the
  next heartbeat, which then renews that one.
- `ImplementsAtomicStore`: no task is leased twice, no command writes over what it did
  not read, a refused or aborted transaction leaves nothing. One freedom had to be
  given to AtomicStore (`StrayHeartbeats`): a heartbeat may be recorded after the lease
  it checked is gone. Without it the property does not hold: section 5.
- `VersionCountsLog`, `StatusFollowsLog`: sequence numbers have no gap and no duplicate
  although `nextSequence` locks nothing, and the status of each row, though not its
  owner, is what the log derives.
- `CallsEnd`: nobody waits for a lock for ever; circles of waiting sessions do occur,
  and one of them is refused.
- `SweptWasOverdue`: whatever the text says, no timer fires before its deadline, and no
  lease is failed before its deadline unless its row was written after the sweep loaded
  it. A renewal since the list was made saves the lease; one that comes after the load
  does not (section 5), but a lease in another worker's name is left alone. Without the
  exception for such writes the property fails in this run.
- `LeasedEarlyBySubsecond`: the query of a lease has no second look at all. A retry may be handed out
  before its backoff is over, but by less than a second.
- `OverdueAreSwept`: what is due is swept, as long as the tasks that cannot be loaded
  are fewer than the sweep's limit. (With as many as the limit, they fill every list
  and the property fails. That they leave room in each list while they are fewer is
  `PoisonLeavesRoom`, its safety half, which is proved.)
- `OrderListsSteps`: order and map name the same steps, each once, however steps are
  put and put again. `BuiltIsWellFormed`: what is built is closed and acyclic and its
  steps are usable, which is what Workflow assumes. `RefusedIsIllFormed`: nothing else
  is refused. `BuildReturns`: the search ends on every graph.
- `RetriesSlowDown`: up to its maximum, each retry waits twice as long as the one
  before, unless the first backoff is above the default maximum: `Normalize` then
  leaves a maximum below the first backoff, and the later waits are shorter.

**Bounds.** RunEngine is finite but for heartbeats, which append to the history:
`MaxHeartbeats` is 1, a renewal before or after expiry, before or after the sweep's
check. Two workers are enough for a stale report, since a lease has one holder and the
second worker is the later holder. Three steps are enough for the decisions, which only
ask whether some or all steps are ready, open or unwindable, and for two tasks to be
open in each phase. In `optimistic` one client and the sweep are two calls that
interleave with each other and with every direct write, and two tries are one conflict
that is retried and one that is not. In `pool`, the two slots of one pool are an old and
a new execution under one id, the third slot is a holder with another id, and with three
attempts the old one can come back as a third. In
`postgres`, two sessions are enough for a deadlock, a duplicate number, a conflict and
a lease that moves between a heartbeat's statements; six events are a lease, its end,
another lease and the operations that race with them. (Three sessions with a log of 3
pass as well.) In `sweep`, three timers are due and a list holds two of them, always the
one that cannot be loaded and one of the others, which must take turns; two binary digits
give fractions of every length, and the clock goes on long enough for a lease, a retry, a
second lease and its recovery. (The tasks that compete for a list are timers, whose
deadlines do not move. With leases `OverdueAreSwept` can fail for a reason of the bound
only: once the clock has stopped, a lease that text order lists early in its last second
is never due, and may keep its place for ever.) In `builder`, three ids give every
kind of cycle, a step on two paths, and an id that is never put. The theorems of section
6 carry all of these properties but the liveness ones to every instance.

Deadlock is not checked: a run that has ended and has no open task stops, as it should,
and so do a log or a clock at their bound and a builder whose caller has gone;
`NoStuckRun`, `EventuallySettled`, `CallsEnd`, `OverdueAreSwept` and `BuildReturns` state
what must not stop.

**Fairness.** `OptimisticFairSpec`: weak fairness of leasing: the slots of every pool poll
in a loop with a 150 ms pause (`worker.go:67-86`). Weak fairness of `Sweep`: the
maintenance loop sweeps at each tick (`app.go:167-180`). Weak fairness of `PassDeadline`:
time passes. Weak fairness of the steps of a call of the sweep that has begun: the
goroutine runs, and a database answers. `StaysUp`: the process may stop any number of
times, in the middle of any call, but not for ever. No worker is assumed to complete,
fail or renew anything, no client's call to go on, and nobody to cancel. The number of
renewals is bounded, and that matters: a handler that hangs while its goroutine keeps
renewing holds its run open for as long as it lives, since the step timeout is stored
(`service.go:647`) and never enforced. (RunEngine's `FairSpec` states the same of
one-step commands.)

In WorkerPool only `Heartbeat(s)` is weakly fair: the ticker of `worker.go:110`
fires for as long as the handler runs. No handler is assumed to return, no sweep to
run, and a heartbeat may fail at any tick.

In PgStore each session's next statement is strongly fair: Postgres grants a lock in
the order of arrival, so a session that finds its row free again and again gets it, and
it breaks deadlocks. Weak fairness would let a row change hands for ever past a waiting
session. In SweepQueue the ticker, the turns of a sweep and time are weakly fair, and
leases, renewals and reports are not. In WorkflowBuilder a `Build` that has begun goes
on; nobody has to call it.

## 5. Where code and documentation disagree

Six runs check one sentence of the documentation each, and TLC finds an
execution of the code that breaks it.

| Run | Property | Says | What happens |
|---|---|---|---|
| `two_compensations` | `OneCompensationAtATime` | `docs/architecture.md:110` "one compensation task at a time" | `beginCompensationOrFinish` (`service.go:575`) does not look at open compensations: a parallel step that fails while the run is compensating starts a second one |
| `reopened` | `TerminalIsFinal` | `README.md:49` "terminal workflow status" | a failed run leaves other tasks leased; one completes, one fails, and the run is compensating again |
| `ended` | `EndedRunUnwound` | `README.md:61` "unwinds completed steps in reverse completion order" | `cancelRunOnce` cancels the compensation in flight; its step counts as scheduled and is passed over |
| `shared_id` | `ReportsAreOwn` | `docs/google-interview-walkthrough.md:113` "treats lease loss … as first-class runtime conditions" | all slots of a pool share an id (`app.go:100`), and a report or heartbeat is matched by id alone: an execution whose lease went to another slot does not notice, and reports on the other's lease |
| `lost_race` | `LostRacesAreRetried` | `docs/google-interview-walkthrough.md:227` "the service retries the orchestration step" | on Postgres a command locks the run row and then task rows, a lease or heartbeat the other way round; the deadlock error is not a version conflict, and the command it hits is lost |
| `split_lease` | `RowsFollowLog` | `docs/google-interview-walkthrough.md:193` "history_events is the authority" | on Postgres a heartbeat that passed its check is recorded after another worker leased the task: the log names the old owner, the row the new one, and the engine goes by the log |

`two_compensations` uses a *join* of four steps (`c` and `d` each after `a` and `b`),
`reopened` and `ended` three independent steps, with one attempt per step; `shared_id`
is two slots of one pool; `lost_race` and `split_lease` are `postgres`.

Other differences that the models show and no run repeats:

- A step that completes after its run failed is never undone: `postProcess`
  (`service.go:547`) unwinds only when `Compensating`. (`EndedRunUnwound`, without a
  second cancellation.)
- After a cancellation no event carries a failure: that of a compensation is in the run
  row only (`service.go:294`), and the "persisted summary still matches the derived
  state" of `docs/architecture.md:98` cannot be told from the log. `ReplayDerivesState`
  therefore replays over the stored row, as `loadRun` does.
- A heartbeat between the sweep's load and its `FailTask` (`service.go:433`) renews a
  lease that is failed all the same, before its new deadline. The models have it, and
  the properties allow it: RunEngine renews between `RecoverExpiredLease` and
  `FailExpiredLease`, and `SweptWasOverdue` excepts just such writes.
- The compensation of a timer, declared without a queue, goes to the queue "" that no
  pool polls (`service.go:700`): `EventuallySettled` fails with `CompQueue` empty there.
- A lease query compares text, so a retry may be leased up to a second early on SQLite.

## 6. What is proved

For every workflow that `Build` accepts (any finite set of steps, any acyclic
dependencies, any timers, compensations, attempt limits and queues), any set of
workers and any bound on heartbeats, from `WorkflowAssumption`,
`ReducerAssumption` and `RunEngineAssumption` only:

| Theorem | Module | States |
|---|---|---|
| `TypeCorrect` | RunInvariantProofs | `Spec => []TypeOK` |
| `Invariant` | RunInvariantProofs | `Spec => []IInv` |
| `ViewsStayInAgreement` | RunTheorems | `Spec => []ViewsAgree` |
| `DependenciesAreRespected` | RunTheorems | `Spec => []DependenciesRespected` |
| `RunsAreNeverStuck` | RunTheorems | `Spec => []NoStuckRun` |
| `CancellationStopsForwardWork` | RunTheorems | `Spec => []CancelStopsForwardWork` |
| `CompletedRunsAreDone` | RunTheorems | `Spec => []CompletedMeansAllDone` |
| `CancelledRunsAreUnwound` | RunTheorems | `Spec => []CancelledMeansUnwinding` |
| `SettledRunsAreFinal` | RunTheorems | `Spec => SettledRunIsFinal` |
| `RunImplementsTaskLease` | RunTheorems | `Spec => TasksKeepLeases` |
| `RunImplementsSaga` | RunTheorems | `Spec => ImplementsSaga` |
| `HistoryInvariant` | RunHistoryProofs | `Spec => []HistoryInv` |
| `HistoryAgreement` | RunHistoryProofs | `Spec => []HistoryAgrees` |
| `ReplayDerives` | RunHistoryProofs | `Spec => []ReplayDerivesState` |
| `LifeCycle` | RunHistoryProofs | `Spec => []TaskLifeCycle` |
| `LeasesAreBounded` | RunHistoryProofs | `Spec => []LeasesBounded` |
| `UnwindingInOrder` | RunHistoryProofs | `Spec => []UnwindOrder` |

for any number of clients and tries besides, from `OptimisticAssumption` too:

| Theorem | Module | States |
|---|---|---|
| `CallsTypeCorrect` | OptimisticProofs | `OptimisticSpec => []OptimisticTypeOK` |
| `NumbersNeverClash` | OptimisticProofs | `OptimisticSpec => []VersionCountsHistory` |
| `MixedLoadsAreRefused` | OptimisticProofs | `OptimisticSpec => []FreshLoadsAreCurrent` |
| `CallsImplementCommands` | OptimisticProofs | `OptimisticSpec => ImplementsRunEngine` |
| `CallsKeepTheInvariant` | OptimisticProofs | `OptimisticSpec => []IInv` |
| `CallsKeepTheHistory` | OptimisticProofs | `OptimisticSpec => []` the four properties of the history |
| `CallsKeepThePromises` | OptimisticProofs | `OptimisticSpec => ImplementsSaga`, `TasksKeepLeases` and `SettledRunIsFinal` |

for any number of slots, ids and attempts, from `WorkerPoolAssumption`:

| Theorem | Module | States |
|---|---|---|
| `PoolTypeCorrect` | WorkerPoolProofs | `Spec => []PoolTypeOK` |
| `AttemptsStayApart` | WorkerPoolProofs | `Spec => []AttemptsApart` |
| `StrayReportsNeedSharedIDs` | WorkerPoolProofs | `Spec => StrayReportsAreShared` |

for any tasks, workers and sessions, any bounds on tries and log, from `PgStoreAssumption`
and `AtomicStoreAssumption`:

| Theorem | Module | States |
|---|---|---|
| `PgInvariantHolds` | PgStoreProofs | `PgSpec => []PgInv` |
| `PgTypeCorrect` | PgStoreProofs | `PgSpec => []PgTypeOK` |
| `NumbersAreConsecutive` | PgStoreProofs | `PgSpec => []VersionCountsLog` |
| `StatusIsDerived` | PgStoreProofs | `PgSpec => []StatusFollowsLog` |
| `PgImplementsAtomicStore` | PgStoreProofs | `StrayHeartbeats` implies `PgSpec => ImplementsAtomicStore` |

for any tasks, limits, delays and horizon, any number of digits of a fraction, from
`SweepQueueAssumption` and `SecondIsPositive` (a second is `Base ^ Digits` instants; that
a power of a positive number is positive is stated as an assumption, which TLC evaluates,
since the provers know nothing of `^`):

| Theorem | Module | States |
|---|---|---|
| `SweepTypeCorrect` | SweepQueueProofs | `Spec => []TypeOK` |
| `SweepsEndWhatWasOverdue` | SweepQueueProofs | `Spec => SweptWasOverdue` |
| `LeasesAreLessThanASecondEarly` | SweepQueueProofs | `Spec => LeasedEarlyBySubsecond` |
| `PoisonDoesNotStarve` | SweepQueueProofs | `Spec => PoisonLeavesRoom` |

and for any ids and any steps that are put, from `WorkflowBuilderAssumption` and
`BackoffAssumption`:

| Theorem | Module | States |
|---|---|---|
| `BuilderTypeCorrect` | WorkflowBuilderProofs | `Spec => []TypeOK` |
| `OrderIsComplete` | WorkflowBuilderProofs | `Spec => []OrderListsSteps` |
| `BuildIsSound` | WorkflowBuilderProofs | `Spec => []BuiltIsWellFormed` |
| `BuildIsComplete` | WorkflowBuilderProofs | `Spec => []RefusedIsIllFormed` |
| `RetriesWaitLonger` | WorkflowBuilderProofs | `Spec => []RetriesSlowDown` |

Together they make a chain: what `Build` accepts is what `WorkflowAssumption` says
(`BuildIsSound`); on it the invariant of a run rests (`Invariant`); from it follows what
workers and clients may rely on (`RunImplementsTaskLease`, `RunImplementsSaga`); and all
of it holds of commands that are one step, and of the calls the service really makes
(`CallsKeepTheInvariant`, `CallsKeepTheHistory`, `CallsKeepThePromises`).

**The run.** None of its properties is inductive. That a run is not stuck, for
one, needs to know that a running run has an open forward task, which needs that no
step of it has failed or been cancelled, that outputs are those of completed
tasks, and, when the last open task reports, that the graph is acyclic. `IInv` is

- `TypeOK` and `ViewsAgree`;
- `Consistent(state)`: outputs, completion order and compensation marks tell what
  the tasks tell. Every single event keeps it, also in the middle of a batch;
- `StatusInv(state)`: what each run status says of the tasks. It holds between
  commands only, since a batch passes through states where it does not.

The proof follows that split. `RunInvariantProofs` types each `Apply…` of the reducer,
each decision and each step, then describes what each event does to a state in a few
named effects (`JustScheduled`, `JustCancelled`, `TaskReported`, `RunEnded`, …), shows
that each keeps `Consistent`, and then shows that a batch that `PostProcess`,
`BeginCompensationOrFinish` or `AdvanceCompensation` ends is sound: whatever state it
started from in the course of the command, the status it leaves satisfies `StatusInv`.
`ReadyOpens` is the step that uses acyclicity: if not all steps have completed, none has
failed or been cancelled and no forward task is open, then some step is ready. The last
lemma has one step per action of `Next`. `RunTheorems` draws the properties from `IInv`;
`SettledRunsAreFinal` shows that no action is enabled, apart from the clock and the
sweep's bookkeeping, in a run that completed or was cancelled, since nothing is open
there. `IInv` is also checked by TLC, in `join`.

The refinement of TaskLease, in the second half of `RunTheorems`, describes a command by
what it does to task rows: the task it is about becomes what the report says
(`TaskBecomes`), every other one stays or is scheduled for the first time
(`OnlySchedules`). That no compensation is scheduled twice is where `IInv` is needed
(`Marked`). Each resulting row change is a step of TaskLease (`RowChange`, `RowSteps`),
once it is known that a leased row has a worker as its owner (`LeasesHaveOwners`), which
the row changes themselves preserve.

The refinement of Saga, the last part of `RunTheorems`, describes the same commands by
what the client sees of them. `Left` is what an order of completions has left to undo,
and a decision either begins to undo its last step (`Began`, `Undid`) or ends the run
with nothing left (`Stopped`): `NewCompensationUndoes`, `FinishStops`,
`BeginCompensationUnwinds`, `PostProcessForward` and `PostProcessUnwinding` say which.
`NextIsLast` is the heart of it: what `nextCompensationStep` finds going backwards is the
last place of the order that is left. `CompleteTaskMoves`, `FireTimerMoves`,
`FailTaskMoves` and `CancelRunMoves` then show that each command takes a `SagaStep`; that
a step which completes was not there before and has its dependencies before it comes from
`IInv`, and so does the status after it, read off the `StatusInv` of the *new* state. Two
facts are needed besides: a run marked as compensating has begun at least one
compensation (`Started`, an invariant of its own), and the compensations that have a row
are those that are marked (`UndoingIsMarked`).

**The history.** What a run decides is a function of `state`; what was promised to
operators is about `history`. `HistoryInv` is `Told(history, state)`, and in it

- `Replayed`: the fold of the history over a row with any failure stored is the state,
  but for a failure that no event carries (for any, since the row's failure may change
  at the next command); `FailureLogged`: a run that unwinds after a failure has it there;
- `StatusTold`: the last event of a task is one that leaves it in the status the state
  gives it, and a task without a status has no event; a lease names the owner;
- `LivesTold`: each event follows the one that `TaskLifeCycle` allows before it;
- `LeasesTold`: a task was leased as often as its attempt says, one time fewer while it
  waits. `LeasesBounded` is not inductive without that;
- `OrderTold`: the completion order of the state is the order of the completions in the
  history, which is what makes `NextCompensationStep` pick what `UnwindOrder` asks for;
- `MarksTold`, `UnwindingTold`: compensation marks have their events, and each
  compensation that was scheduled came after those it had to wait for.

`Told` is kept by every single event that may happen in a state (`MayHappen`), so it
holds in the middle of a batch, where `IInv` does not: one lemma per conjunct
(`ReplayGoesOn`, `StatusGoesOn`, `LivesGoOn`, `LeasesGoOn`, `OrderGoesOn`, `MarksGoOn`,
`UnwindingGoesOn`). Events that a command emits for a set of tasks are added one by one
(`ManyGoOn`), and a command is shown to emit only what may happen. Where a compensation
is chosen, `IInv` is needed again. The replay is a fold, and a fold is a recursive
function: `FoldExists` builds one for every length, by induction over a *set* of
naturals (`SetInduction`, from the well-foundedness of `<`), which needs no theorem with
an operator for a parameter; `FoldAppend` is what the rest uses.

**The calls.** `OptimisticInv` adds to the two properties who makes which request
(`RequestsByRole`), that what the sweep of RunEngine has seen is the request of the
sweep's call (`SweepIsCall`), that a decision stands while the version does
(`FreshDecisionsStand`: the clock only adds deadlines), and that a replay over the stored
row gives the state (`Reloaded`). Two facts carry it: every command writes at least one
event (`CommandGrows`), so every commit, lease and heartbeat moves the version and no
call that read before is fresh any more (`NoStaleCallIsFresh`); and everything else
leaves the store alone (`CallMoves`). `StepImplements` maps `Commit` to the command it
decided on, the check of an expired lease to `RecoverExpiredLease`, and a sweep that is
refused, out of tries or cut off to `Restart`.

**The slots.** Nothing is assumed of ids. `ExecutionsInv` says that executions under way
are of different attempts (`AttemptsApart`), none later than the task's, and earlier than
it while the task waits (`AttemptsBegun`), so that the attempt that is handed out is new;
and that a slot which is executing while its id holds the lease executes that lease or
shares the id (`LeaseIsOwn`): a lease by another slot of its pool is what may come
between. A report that the task takes comes from a slot whose id holds the lease
(`ReportEndsLease`), which is the theorem. `shared_id` shows that the second case occurs.

**The Postgres store.** `PgInv` relates what each session holds in hand to what is
committed. `UnderWay` says which call a session is in and what it will write. `Numbered`
says that events are numbered from a version that was there, and that from the insert to
the commit it still is: the session's keys are the next ones, and the unique index lets
nobody else have them. Hence `InsertAlone`: two sessions never have inserted both, and
commits do not overlap. `Decided` says that as long as the version a command loaded is
there, its decision is what the engine decides on the log, so at its commit it is;
`Selected` says that the row a lease locked is still available, because every update of
it needs the lock (`LocksApart`, and the rows a command will write are locked or still in
`todo`). `CommandRecords` shows that the events of a command make the log derive the rows
it writes; `CommitRows` puts that together with the locks. The proof never uses the lock
on the run row or the check of the version in its UPDATE: on Postgres the primary key of
`history_events` and the locks on task rows already keep the log and the rows together,
and the version check decides only which error a late command gets, hence whether it is
retried.

`PgImplementsAtomicStore` maps `CommitTx` to the operation of the call and every other
step to a stutter. It assumes `StrayHeartbeats`, the freedom that section 5 shows to be
needed.

**The sweep.** `PoisonLeavesRoom` is a count (`ListingLeavesRoom`): a full list is
longer than `Poison`, and one that is not full holds everything that is due.
`SweptWasOverdue` rests on `FoundIsAsLoaded`: the deadline of the lease that the sweep
has loaded is the one it loaded, or its row was written since. Every write shows the time
(`WritesRow`), so it is seen in `updated`.
`LeasedEarlyBySubsecond` rests on `TextIsRightToTheSecond`:
whatever zeros were dropped, text that sorts before another one is of the same second or
of an earlier one.

**The builder.** `BuilderInv` says that the stack is a path of dependencies that holds
exactly the grey steps, that the black ones depend on black ones only and no set of them
waits for itself, and that the ids the cursor has passed are not white. A grey dependency
closes a cycle, namely the part of the stack above it
(`GreyDependencyClosesCycle`); a step that turns black keeps the black ones free of
cycles (`LeaveKeepsBlackDone`), since it has all its dependencies there already.

The backoff is a recursive function too: `BackoffDefined` shows that it exists, from
tables of the first `n` delays that agree (`BackoffExtends`, `BackoffAgrees`), and
`DelaysGrow` follows by induction over the attempts. `Normalized` remembers what
`Normalize` leaves: a positive first backoff, and a maximum that is either not below it or
the default one.

**Only model-checked.** `EventuallySettled`, `LostLeaseNoticed`, `CallsEnd`,
`OverdueAreSwept` and `BuildReturns`: liveness under fairness, which the prover does not
do. Every safety property of a passing run is a theorem as well, one of them under a
hypothesis that the model names: `StrayHeartbeats` for `ImplementsAtomicStore`.

## 7. What is not modelled

- HTTP API, Go client, `orchctl`, browser UI, telemetry, daemon, example: no state
  of their own; each request is one call of the service, which is an action.
- Lease configuration: default durations, and time is abstract.
- `ListRuns`, `GetRun`, `GetHistory`: reads. `ReplayRun` is a read too, but one that
  reports on reads as if they were one: a commit in between makes a healthy run look
  wrong. It changes nothing and the next report is right.
- The registry's maps: written at start-up, read afterwards. A workflow that is not
  registered is a task in `Poison` of SweepQueue.
- `CreateRun` as a transaction: its rows become visible together and nobody knows them
  before. It is the initial state.
- What `database/sql` and pgx make of a statement sent while rows are still open on the
  same connection (`postgres/store.go:250`): the driver's behaviour is not in this
  repository. The model takes the statement as accepted.
- Inputs, outputs, metadata, ids, timestamps (but for their order), wording, HTTP
  shutdown.

## 8. Plan

Done: the run and its commands, as one step and as interleaving calls, with what it
promises to its workers and to its client; the slots of the pools; both stores; the sweep;
the builder and the backoff; their properties, configurations and theorems. Possible
extensions, none of which the results above depend on:

1. Several runs in one store. They share no row; what they share is the queues' order and
   the lists of a sweep, which SweepQueue has.
2. AtomicStore under OptimisticEngine: the run's commands over a store whose heartbeats
   may be stray, as on Postgres. Section 5 shows that the agreement of rows and replay
   (`ViewsAgree`) is then lost for the owner of a lease; which of the other theorems
   survive is open.

The slots of a pool need no refinement of their own: the steps that WorkerPool makes on
its `task` are those of TaskLease, by INSTANCE, and that they may be is
`RunImplementsTaskLease`.
