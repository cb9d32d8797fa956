# Zudojs in TLA+

Formal models of the parts of [Zudojs](../src/README.md) in which order,
concurrency and failure decide whether the code is right. Zudojs is a set of 40
TypeScript packages; most of them transform data, and a few keep state that many
calls share across `await`s. Those few are what this project is about: each is
a TLA+ module translated from the source, checked by TLC on small instances, and
what matters most about it is proved with TLAPS for every value of its
constants.

- [The system](#the-system): the inventory of packages, state and hazards
- [How the code is modelled](#how-the-code-is-modelled)
- [Connection pool](#connection-pool), [Transactions](#transactions),
  [Job queue](#job-queue), [Worker](#worker), [Scheduler](#scheduler),
  [Lifecycle](#lifecycle): what is modelled and checked
- [Runs and bounds](#runs-and-bounds)
- [Proofs](#proofs)
- [Where code and comments disagree](#where-code-and-comments-disagree)
- [Not modelled](#not-modelled) and [the plan](#plan)

To check: `tlc -config ConnectionPoolSafety.cfg MCConnectionPool` (and so on for
the other configurations, see [Runs and bounds](#runs-and-bounds)), `tlapm
ConnectionPoolProofs.tla` (and the other `*Proofs` modules) for the proofs.
`PROJECT.json` maps every definition to the lines it translates.

## The system

A Zudojs application is composed by `runtime`/`core`, which start and stop the
services through `lifecycle`. Everything runs on one JavaScript thread: two calls
interleave at their `await`s and in timers, never in between. That is enough to
get wrong what every such service does: read its state, await a driver, a hook,
a user's callback or a timer, and act on what it read.

| Package: component | State | Operations | Hard behaviours | What makes it correct |
|---|---|---|---|---|
| `storage`: connection pool | idle list, issued set, wait queue, reserved slots, closed flag | acquire, release, use, initialize, drain, healthCheck | slots reserved across `create()`, retirement, dead pings, acquire timers, drain beside everything | limit kept, no sharing, nobody stranded, nothing leaked |
| `transactions`: manager, propagation, savepoints, retry | state, rollback-only and timed-out marks, callbacks, timer per transaction; AsyncLocalStorage context | run, begin, commit, rollback, participants, savepoints, callbacks | timeouts at every await, racing completions, replay, work that outlives its transaction | what is reported, what the adapter did and what callbacks see agree |
| `queue`: in-memory queue | jobs, deduplication index, stall counts, in-flight map, order of settling, timers | add, claim, release, run, reclaim, pause, close | two kinds of consumers, lost claims, timeouts with running processors, close beside runs | one processor per job, settled is final, bounded history, every job settles |
| `queue`: worker | state machine, active jobs, abort controller, poll timer | start, poll, stop with drain, forceStop | claims awaited across stop; a drain that outlives a restart; a timer used up while a claim is awaited | concurrency kept, a running worker always polls, no job outlives its worker unaborted |
| `scheduler` | heap of fire times, one timer, executions per job and schedule, held-back runs | schedule, pause, resume, cancel, tick, dispatch, drain, start, stop | held-back runs have no timer of their own; handlers that reenter a loop that is dispatching; stop with drain | ceilings and overlap policies kept, no fire time lost or doubled, silence after cancel and stop |
| `lifecycle` | status per component, phases reached, one startup, one shutdown, hooks under timeouts | startup in stages with rollback, shutdown, deadline, retries | shutdown amid startup, abandoned hooks that still run, a rollback and a shutdown that wait for each other | hooks in dependency order and never side by side, what was started is torn down once |
| `storage`: lock manager | holder, fence, expiry, waiters per key | acquire, extend, release | expiry beside hand-over | one live holder, growing fences |
| `cache` | entries, tags, locks, expiry | getOrSet, invalidate, evict | a write that overtakes an invalidation | stale values are not stored after their tag was invalidated |
| `database` | connection status, migration table, locks | connect, disconnect, migrate, transaction | two migration runners | a migration runs once |
| `events`, `messaging`, `cqrs`, `rpc`, `middleware` | registries of handlers | publish, dispatch, call | handler timeouts, aborts | snapshot semantics, one answer per call |
| `runtime`, `core`, `plugins`, `container` | registries, status | start, stop, resolve | as `lifecycle` | dependency order |
| `http`, `adapters`, `auth*`, `security`, `crypto`, `api`, `openapi`, `docs`, `cli`, `zudojs`, `testing`, `logger`, `observability`, `config`, `tenancy`, `permissions`, `feature-flags`, `schema`, `validation`, `serialization`, `types`, `constants`, `errors` | little or per request | I/O, conversions, pure evaluation | | functional, covered by the unit tests |

How they meet: the queue's poller and its workers are two kinds of consumers of
one claim protocol (`claimNextJob`, `runJob`, `releaseJob`); a transaction run
uses a connection through its adapter, which a pool provides; the lifecycle
package starts pools, workers, schedulers and queues and calls their drains;
`database` wraps adapters and locks. The modelled components call each other
only through the interfaces of their environment (factory, adapter, hooks,
processor, dead letter store), so each is modelled against everything those
interfaces may do. The worker's queue, for one, may lose it a claim, refuse it a
release, or be closed under it.

`PROJECT.json` lists the hazards of this code by line, with the properties that
would notice each.

## How the code is modelled

An action is what happens between two `await`s of a call, of a timer or of a
callback: its guard is what the code tests, and where the call awaits next is
part of the state (`pc`). A promise that may resolve or reject is two actions.
Chains of microtasks that nothing else can interleave with are one step, and the
modules say where. Parallel calls are model values: a `Caller` of the pool, an
attempt (`Txn`) of a transaction run, a claim (`Run`) of a queue, a `Poll` of a
worker, an execution (`Execs`) of a scheduler. Time is not counted: a timer that
may fire is an action that may happen, comparisons of ages are choices, switched
on by a constant that names the option, and a fire time of the scheduler is due
or not yet.

What the code assumes of its users and their drivers is a constant as well, such
as "a caller releases once" (`DoubleRelease`) or "a processor stops within its
grace" (`Graceful`): runs and theorems name the assumptions they need, and
without them the counterexamples listed
[below](#where-code-and-comments-disagree) are reachable.

| Module | Content |
|---|---|
| `ConnectionPool`, `TransactionManager`, `JobQueue`, `Worker`, `Scheduler`, `Lifecycle` | state and actions of the component; also the mutated actions, next to the ones they mutate |
| `ConnectionPoolProperties`, `TransactionProperties`, `JobQueueProperties`, `WorkerProperties`, `SchedulerProperties`, `LifecycleProperties` | its properties and refinement mappings |
| `Lease`, `UnitOfWork` | abstract specifications: what a pool, what `run()` promises |
| `MCConnectionPool`, `MCTransactions`, `MCJobQueue`, `MCWorker`, `MCScheduler`, `MCLifecycle` | functions over model values and symmetry, for TLC |
| `ConnectionPoolProofs`, `TransactionProofs`, `UnitOfWorkProofs`, `JobQueueProofs`, `WorkerProofs`, `SchedulerProofs`, `LifecycleProofs` | theorems and their proofs |
| `SequenceLemmas` | lemmas about sequences the proofs share |

## Connection pool

`ConnectionPool` models `storage/src/database/connectionPool.*.ts`. `available`,
`inUse`, `waitQueue`, `pending`, `initialized` and `closed` are the fields of the
class. `pc[c]` and `conn[c]` are the call of a caller: it awaits a ping, a
`create()`, a `close()` or its turn in the queue, or holds a connection.
`initLeft`, `drainPc`/`drainConn`/`forced` and `probePc`/`probeConn` are the
loops of `initialize()`, `drain()` and `healthCheck()`. `open` is what the
database sees: connections created and not closed. `acquire()` is `Acquire` up
to its first await and `PingAlive`, `PingDead`, `Discarded`, `Created`,
`CreateFailed` after it, each of which re-enters the loop (`AcquireLoop`) as the
code does; `release()` is `Release`, then `Retired` or `ReleaseClosed`;
`replenishForWaiters()` is `Replenished` and `ReplenishFailed`. `use()` is an
acquire and a release.

*Safety.* `SlotsAreKept` (idle, issued and reserved connections within `max`, and
every reserved slot belongs to one call that awaits the factory),
`ExclusiveHolding`, `QueueIsExact` (the queue holds the parked callers, each once,
and nobody waits beside an idle connection), `NothingIsLeftBehind` (a closed pool
parks nobody, a drained one has no idle connection, and every open connection has
somebody who will close it), `WaitersAreServed` (first come, first served; a slot
that becomes free beside a parked caller is on its way to somebody, unless it
comes back from a `create()` that failed).
*Refinement.* The pool implements `Lease`: each of its steps grants, returns or
transfers one lease, or concerns no user.
*Liveness.* `ParkedIsAnswered`, `DrainClosesAll`.

*Assumptions.* `EagerInit`: `initialize()` overlaps neither `acquire()` nor
`drain()`. One that overlaps `acquire()` exceeds `max`, and one that overlaps
`drain()` leaves open connections in a drained pool, because nothing is looked at
after its await (`connectionPool.core.ts:69`). `RoomToInit`: it is called with room
for all it creates. A call that fails half way leaves what it created on the idle
list and may be repeated, also on a pool that is in use (`:58`); the repeated call
creates `min` more whatever is there, and so exceeds `max` unless there is room for
them (`ConnectionPoolRetryFull`). With that room, as in `ConnectionPoolSafety`, the
limit holds over any number of retries. `~DoubleRelease`: a second release of a
connection that was issued again in between is taken for the new holder's. One
`drain()` is modelled.

*Fairness.* What a promise of the driver is awaited for happens (`Settle`,
`InitializeCreated`, `DrainIdleClosed`, `DrainForceClosed`): drivers settle, or
`withConnectionTimeout` rejects for them. Holders release. The timer of the
drain fires. Nobody has to acquire, drain or probe, and the `acquireTimeout` is
not relied on: it is switched off, so an answer is an answer. Connections may
outlive their `maxLifetime`: a parked caller is then served by the replacement.
`ParkedIsAnswered` says so once retirements come to an end, because a newcomer may
take the slot while the `close()` of the retired connection is awaited, and a pool
that retires every connection may leave the oldest waiter to the `acquireTimeout`.

## Transactions

`TransactionManager` models `transactions/src/manager`, `transaction`, `context`
and `utils.signal`. A value of `Txn` is one attempt of one `run()` and the handle
it got, whether root, savepoint, participant or non-transactional (`kind`).
`up` is the transaction it joined or whose savepoint it is, `outer` the attempt
whose callback started it, `replays` the failed attempt it repeats, `signal` the
transactions whose timeouts abort it. `state`, `rollbackOnly`, `timedOut` and
`timer` are those of the handle, `held` the callbacks registered on it (in pairs,
one for the commit and one for the rollback), `ran` and `undone` the callbacks
that ran. `hooks.onError`, which is told of failed after-commit callbacks, may
reject like the other hooks. A handle may be completed by the run that opened it and by hand:
`pc[<<t, k>>]` is what the call `k` of the two awaits. The adapter is external:
`db[t]` is what it did to the connection or savepoint.

`run()` is `Open`/`Begin`, `Begun`, `Started`, the callback (`body`), then
`CommitStart`, `BeforeCommit`, `AdapterCommits`, `AfterCommit` or
`RollbackStart`, `BeforeRollback`, `AdapterRollsBack`, `AfterRollback`, with a
failing variant at each await, and `Replay` or `GiveUp`. `Timeout` and `Abandon`
may come at any point. The two adapter calls that roll a savepoint back are one
step: both succeed, the first is refused, or the second is, after the first undid
the work. The states `committing` and `rolling_back` are entered and
left between two awaits and are never seen. The registry and the events follow
the state and are left out.

*Safety.* `OutcomeFollowsAdapter`, `ReportedCommitIsKept` and `ReplayedWorkIsGone`
relate what callers are told to what the adapter did, also for what was marked
rollback-only; `HeldOnce` and `CallbacksFollowOutermost` follow callbacks outward
through savepoints, to the one place where they run; `TerminalIsFinal` says what
no later call, timer or failure may do: a finished transaction stays as it finished,
and no work that outlives it joins it or nests in it.
*Refinement.* `run()` implements `UnitOfWork`: an outermost unit is kept in one
step with every unit inside it that was reported to have succeeded, and nothing
reported failed is ever kept.
*Liveness.* `TimeoutEndsRun`: a run settles and closes its connection although no
callback ever returns.

*Assumptions.* Callbacks await the runs they start (`Awaited`) where results of
inner and outer runs are compared; `Vetoes`, `FailingHooks` and
`FailingAdapter` name who may mark and which hooks and operations may reject.
The properties that are false for the ones a run leaves out are named under
[disagreements](#where-code-and-comments-disagree). `tx_unruly` has no `Awaited`
and allows completions by hand and on the handle.

*Fairness.* The adapter, the hooks and the timers settle. Callbacks need not.

## Job queue

`JobQueue` models `queue/src/inMemoryQueue`. `state[j]` is a job's state (`none`
before `add()`, `gone` when forgotten); `attempt`, `key` and the maps
`stalledCounts`, `deduplicationIndex`, `inFlight`, the array `settledOrder` and
the counter `activeCount` are the queue's. A value of `Run` is one claim and the
run it becomes: `OwnRun` are the poller's, `OtherRun` those of workers and
applications, which may run, release or lose what they claimed (`External`).
`taken` and `snapshot` are the job as it was when it was claimed, which is what
`processJob()` writes back. `processing` are the processors that have not
settled, abandoned ones included.

`add()` is `Add`; the poller's tick is `TickStarts` (due delayed jobs become
waiting), `TickClaims`, `TickDispatches` and `TickEnds` (stalled jobs are
reclaimed); a run is `RunJob`, then
`Succeeds`, `Fails` or `TimesOut`, `SettlesInGrace` or `GraceExpires`, and
`DeadLettered` when the store answered; `recordSettled()`/`pruneSettled()` are
`RecordSettled`. Retry and delay timers are the states `retrying` and
`scheduled` of a queue that is not disposed. A tick begins on a timer and awaits
its claims in microtasks: only what the processors it started do can intervene,
which `BetweenTurns` and `InATurn` say. Which of several runnable jobs is taken
depends on priorities and ages and is left open.

*Safety.* `OneProcessorPerJob`, `SettledIsFinal`, `KeyFollowsJob`,
`SlotsAreCounted`, `LimitsAreKept` (the poller's concurrency and the history).
*Liveness.* `EveryJobSettles`, and `close()` returns.

*Assumptions.* `~Slow`: a consumer keeps a claim no longer than `stalledAfter`.
`Graceful`: a timed out processor ends within `timeoutGraceMs`. `Drains`: running
jobs end within `closeTimeout`. The liveness run and the theorems of
`JobQueueProofs` do without.

*Fairness.* The poller arms its timer again after every tick, also one that
failed; retry and delay timers fire; the dead letter store settles; consumers
run, release or lose what they claim. That a stalled job is reclaimed takes
strong fairness per job: the tick that looks at it happens again and again, but
the job may be in flight when it does. That abandoned processors end at all
serves the bound on `Run` values only.

## Worker

`Worker` models `queue/src/worker/worker.core.ts` against the `Queue` interface.
`state`, `activeJobs`, `armed` (`pollTimer`) and `polling` are the variables of
the closure; `controller` numbers the abort controllers that `start()` makes and
`aborted` those that were aborted. `poll[p]` is where a poll awaits the queue and
`hand[p]` the job it was given; `drains` are the `stop()` calls that wait for
`activeJobs` or for their deadline. `job[j]` is the queue's side of a job, and
`signal[j]` the controller whose signal its run was given.

`poll()` is `PollSkips`, or `PollClaims`, `PollFindsNone` or `PollRejects` up to
`claimNextJob()`, which takes effect when it is called, then `StartsJob`,
`ClaimedNone`, `ReleasesJob` or `ReleaseRejects`, then `Released` or `PollFails`.
Between claim and start anything may happen: `Stop`, `ForceStop`, `Start`,
`Close` of the queue. `runClaimedJob()` ends in `JobEnds`; `onJobReady()` is
part of `JobReady`.

*Safety.* `ConcurrencyIsKept`; `NoJobOutlivesItsWorker`: a job that was started on a
live worker has an aborted signal once that run of the worker is over, whoever
ended it, and a worker that drains has a `stop()` under way that will end it. `strays` are the jobs that a claim awaited across `stop()` starts on a
stopped worker, see [disagreements](#where-code-and-comments-disagree).
*Liveness.* `WaitingJobIsTaken`: the poll loop never stops looking, although its
timer is cleared, used up and armed again in a dozen places.

*Assumption.* The user's `onError` does not throw. One that throws as `runPoll()`
reports a failure leaves no poll armed (`worker.core.ts:126`), and one that throws
as `stop()` reports jobs left over leaves the worker draining for good. Both are in
the model, switched on by `"onError" \in Failing`: concurrency is proved to be kept
all the same, while the run and two theorems exclude them.

*Fairness.* Timers fire, calls of the queue are answered, jobs end, the deadline
of a drain passes. Strong fairness on `PollClaims` says that a queue which has a
job to hand out does not reject every claim. Nobody has to start or stop.

## Scheduler

`Scheduler` models `scheduler/src/scheduler` with its executor, queue and
handles. `running`, `pending` and `pendingRuns` are fields of the class;
`due` is the part of the heap whose time has come, in order, and `later` the
rest; `timer` is off, armed for the head, or armed for the 24 days of an empty
queue or a reached ceiling (`far`). `exec[e]` is one execution: whose, its attempt,
its abort signal and its phase. `tick()` and `drainPending()` are synchronous
loops which call the handlers of what they dispatch up to their first await. They
are turns of several steps (`turn`), in which only the handler that is being
called may act, by the operations in `Reentrant`; it counts for `inFlight` only
when it returns (`HandlerAwaits`).

`dispatch()` decides in `Fate`: an unknown job is an orphan, a cancelled, paused
or skipped fire time is dropped, one the policy `queue` or the job's ceiling
forbids is held back (`Defer`), any other starts (`Begin`), aborting what it
supersedes. `Reschedule` is the next fire time or the retirement of a one-shot.
`Settle` is the end of an execution, which begins the drain of held-back runs.
`stop()` is `Stop` and then `StopReturns`, or `StopTimesOut` if its `timeoutMs`,
which any call may have, runs out first: it then returns while executions go on. A
call to a stopped scheduler is `StopAgain`, which waits, aborts nothing and
discards nothing. `stopper`, `awaited` and `aborting` remember the last call.

*Safety.* `LimitsAreKept`: the ceiling over all executions, the ceiling of each
job and the overlap policies, on both dispatch paths. `FireTimesAreKept`: an active
schedule is queued once, a gone one is not, and what is held back will be found.
`SilenceIsKept`: a cancelled recurring schedule runs nothing that was not told to
abort; once `stop()` has returned nothing runs, unless it timed out, and while it
waits or after it timed out only what was under way when it was called goes on, told
to abort if the scheduler was stopped without `drain`. One-shots are left out of the
first part: for them it is false (`SchedulerCancelled`).
*Liveness.* `DueIsServed`; `HeldRunStarts`: while something runs, held-back runs
are started, once no recurring schedule keeps filling the ceiling before them.

*Assumptions.* A handler that calls `stop()`, or pauses and resumes its own
schedule, before its first await is not in the runs (`Reentrant`); recurring
triggers do not run out of fire times; of calendars and priorities only the
order of fire times is left.

*Fairness.* A turn runs to its end and the armed timer fires. `Progress(e)`, the
end of an attempt or a sleep, is strongly fair: it is disabled during turns, and
every attempt has a timeout. Nobody has to call anything.

## Lifecycle

`Lifecycle` models `lifecycle/src`: the manager's startup, rollback and shutdown
and the executor of hooks. `app` and `comp` are the state machines; `at` and
`stage` tell in which phase and stage startup and shutdown are, which may be
under way together; `exec[o][c]` is where the executor of orchestrator `o` is with
component `c`, `tries` its retries; `hook[c][p]` is the history of each hook,
from `on` to `over`, or `abandoned` by its timeout and `late` when it ended after
all. The stages are Kahn's rounds over `DependsOn`: `Rank` is the one ranking in
which a component comes one round after the last of its dependencies. Priorities
and the concurrency limit within a stage only delay hooks: the model lets each hook
of a stage begin when it will, which includes every such order.

Startup is `Start`, `StageBegins` (or `StageSkipped` when dependencies have
failed), the executor's steps, `StageEnds`, `PhaseEnds`; a critical failure or a
requested shutdown leads to `Rollback`, which joins the one shutdown there is.
Shutdown waits for the stage in flight (`TeardownBegins`), stops and disposes in
reverse order what reached the phase that is undone, and `DeadlineExpires` may
cut it short at any point.

*Safety.* `HooksTakeTurns`: hooks of one component never overlap, abandoned ones
included, the startup hooks of its dependencies are over while its own run, and its
teardown hooks are over before theirs begin. Over means ended, well or not: a
dependency that is not critical may have failed. `TeardownIsComplete`: within the deadline nothing stays started or
initialized. `NoHookAfterShutdown`: once `shutdown()` has resolved no hook begins.
A stage that outlasts the deadline begins no hook, but writes over the state of the
application (`LifecycleOverwritten`).
*Liveness.* `BothSettle`: a startup that rolls back waits for the shutdown, which
waits for the startup's stage, and both settle without the deadline.

*Fairness.* The orchestrators go on, hooks and retries end, abandoned hooks end
late. Neither the deadline nor a timeout has to come.

## Runs and bounds

| Run (`.cfg`) | Instance | Question |
|---|---|---|
| `ConnectionPoolSafety` | 5 callers, 4 connections, max 3, min 2, every option, any `create()` fails, `initialize()` is repeated | is the limit kept, is nothing shared, is nobody stranded or left behind, is the pool a `Lease`? |
| `ConnectionPoolLiveness` | 3 callers, max 1, retirement, fairness | is everybody parked answered, does a drain end? |
| `TransactionsSafety` | 3 attempts, 5 propagation modes, replay, vetoes, failures | do reports, adapter and callbacks agree, is `run()` a `UnitOfWork`? |
| `TransactionsTimeouts` | 3 attempts, timeouts at any await, fairness | is a resolved run kept, does every run end? |
| `TransactionsUnruly` | 2 attempts, unawaited runs, completions by hand and on the handle, timeouts, failures, `onError` included | does a finished transaction stay finished and alone, does a callback run once? |
| `TransactionsDecided` | 1 attempt with a timeout | shows a commit reported as failed |
| `JobQueueSafety` | 2 jobs, 2 claims of the poller and 2 of others, 1 key, 2 attempts, 2 stalls | one processor per job, settled stays settled, keys, slots |
| `JobQueueLiveness` | 2 jobs, 2 claims and 1, consumers that die, processors that never stop in time | does every job settle, does `close()` return, are the limits kept? |
| `SchedulerSafety` | 3 schedules of 2 jobs, ceilings 2 and 1, every policy, retries, reentrant handlers, both stops and their timeouts, a recurring schedule that catches up | ceilings and policies, fire times, silence |
| `SchedulerLiveness` | 3 schedules, 2 executions, policies that hold back or replace | is what is due dispatched, do held-back runs start? |
| `Worker` | 3 jobs (one retried, one whose processor comes late), 2 slots, 2 polls, 2 drains, 3 starts | are the slots kept, is every job taken, is none left unaborted? |
| `Lifecycle` | a server over a store, a critical cache, one retry, one timeout | turns, completeness, nothing after shutdown, both settle |

`ConnectionPoolStranded`, `ConnectionPoolRetryFull`, `JobQueueRevived`,
`JobQueueWrittenBack`, `SchedulerCancelled`, `LifecycleOverwritten` and
`LifecycleReentrant` are small configurations that show further counterexamples,
see [disagreements](#where-code-and-comments-disagree).

*Bounds.* Connection identities are recycled when nothing refers to them: four let
a pool of three be full while one more connection is being closed, and a
`create()` that would need a fifth waits for that `close()`. Three slots and five
callers give three holders and two waiters; a minimum of two is the least for
which `initialize()` can fail half way, and a maximum above it leaves room to
repeat it. `ConnectionPoolLiveness` has an identity for every caller of its one
slot. Three attempts are an outermost run, what nests in it and a replay, or what
runs beside it while it is suspended; `MaxOutermost` is one, as two runs made outside
callbacks share only the registry. Two jobs with one key, one retained job and two attempts make
every counter meet its limit, and two claims on each side let a job be claimed
again while its former claim is remembered. Claims are recycled when their
processor has settled. A job of two schedules with a ceiling of one is reached
by both dispatch paths, and two held-back runs reach `MAX_PENDING_RUNS`; executions
are recycled, one more than the ceiling needs. Three starts let a drain
of the first run meet the second and the third; `Poll` has one value more than the
one poll that `polling` allows. Three components make two stages, the second
depending on one member of the first and unrelated to the other.
No counter is unbounded.

`CHECK_DEADLOCK` is off for the pool, the transactions and the queue: a drained
pool, a set of settled runs and a closed queue stop. It is on for the scheduler,
the worker and the lifecycle, whose end states are a step of their own
(`AllOver`).

*Symmetry* is used where only safety is checked, on `Caller` and `Conn`, on
`Txn` and on the jobs and claims; never in a run with liveness.

*Vacuity.* Beside each property stand mutated definitions, bugs one could plausibly
write in that place (a slot counted twice, a check before the await instead of
after, a missing reset, a queue served from the wrong end). TLC finds each
property violated by a mutant listed in `PROJECT.json`.

## Proofs

TLAPS proves these for every value of the constants that satisfies the `ASSUME`
of the module (`ConstantsAssumption`, `TransactionConstants`, `QueueConstants`,
`WorkerConstants`, `SchedulerAssumption`, `LifecycleConstants`: types, finiteness of
callers, jobs, executions and components, positive sizes). `DependenciesAreAcyclic`
is what the code ensures: `topologicalSort()` refuses a cycle before anything
is started.

| Theorem | Statement | Assumption |
|---|---|---|
| `TypeCorrect` | `Spec => []TypeOK` (pool) | |
| `ExclusiveUse` | `Spec => []ExclusiveHolding` | `~DoubleRelease` |
| `CapacityIsBounded` | `Spec => []SlotsAreKept` | `EagerInit`, `RoomToInit` |
| `QueueStaysExact` | `Spec => []QueueIsExact` | `EagerInit`, `RoomToInit` |
| `DrainLosesNothing` | `Spec => []NothingIsLeftBehind` | `EagerInit` |
| `PoolImplementsLease` | `Spec => ImplementsLease` | `EagerInit`, `RoomToInit`, `~DoubleRelease` |
| `WaitersComeFirst` | `Spec => WaitersAreServed` | `EagerInit`, `RoomToInit` |
| `TypesAreKept` | `Spec => []TypeOK` (transactions) | |
| `FinishedStaysFinished` | `Spec => TerminalIsFinal` | |
| `ResolvedRunIsKept` | `Spec => []ReportedCommitIsKept` | no `commit()` on the handle |
| `CallbacksRunOnce` | `Spec => []HeldOnce` | |
| `OutcomesFollow` | `Spec => []OutcomeFollowsAdapter` | `Orderly` |
| `ReplaysRepeatNothingKept` | `Spec => []ReplayedWorkIsGone` | `Orderly`, `Tidy`, `CommitsAreFinal`, no rollback of a connection fails |
| `CallbacksBelong` | `Spec => []CallbacksFollowOutermost` | `Orderly`, `Undoable` |
| `ManagerImplementsUnitOfWork` | `Spec => ImplementsUnitOfWork` | `Orderly`, `Tidy`, `CommitsAreFinal` |
| `QueueTypes` | `Spec => []TypeOK` (queue) | |
| `LimitsHold` | `Spec => []LimitsAreKept` (queue) | |
| `OneProcessor` | `Spec => []OneProcessorPerJob` | `Orderly` |
| `SettledJobsStay` | `Spec => SettledIsFinal` | `Orderly` |
| `SlotsFollowRuns` | `Spec => []SlotsAreCounted` | `Orderly` |
| `KeysFollowJobs` | `Spec => []KeyFollowsJob` | `Orderly` |
| `WorkerTypes` | `Spec => []TypeOK` (worker) | |
| `WorkerKeepsConcurrency` | `Spec => []ConcurrencyIsKept` | |
| `JobsEndWithTheirWorker` | `Spec => []NoJobOutlivesItsWorker` | `onError` does not throw |
| `WorkerKeepsPolling` | `Spec => []NeverDeaf` | `onError` does not throw |
| `SchedulerTypes` | `Spec => []TypeOK` (scheduler) | |
| `FireTimesKept` | `Spec => []FireTimesAreKept` | |
| `LimitsHold` | `Spec => []LimitsAreKept` (scheduler) | |
| `SilenceHolds` | `Spec => []SilenceIsKept` | no `stop()` before a handler's first await |
| `LifecycleTypes` | `Spec => []TypeOK` (lifecycle) | |
| `HooksKeepTheirTurns` | `Spec => []HooksTakeTurns` | `~Reentrant` |
| `ShutdownLeavesNothing` | `Spec => []TeardownIsComplete` | `~Reentrant` |
| `NothingBeginsAfterShutdown` | `Spec => NoHookAfterShutdown` | `~Reentrant` |

`Orderly` of the queue is `~Slow /\ Graceful /\ Drains`; `~Reentrant` excludes
hooks and listeners that call `shutdown()` as their stage begins.

`Orderly` of the transactions is the program the package documents: callbacks
await the runs they start, `run()` alone completes what it opened, no timeout
abandons a callback, and no hook marks a transaction rollback-only. `Undoable`
says that savepoints are undone and released when asked: the adapter refuses
neither, and no `beforeRollback` hook fails. `Tidy` adds that no `afterBegin` hook
fails, and `CommitsAreFinal` that no hook fails a `run()` whose transaction has
committed: neither `afterCommit`, nor `onError` when it is told that an after-commit
callback failed. What a theorem does not exclude is open in it: any nesting and
propagation, replays, failing callbacks, begins, commits and savepoints, failing
`beforeBegin` and `beforeCommit` hooks, callbacks that mark their transaction.
`ReplayedWorkIsGone` speaks of each attempt that is replayed, root or inner; that
what was kept inside an undone root is gone with it is part of `UnitOfWork`.
`TransactionsSafety` is an instance that satisfies all of these assumptions, and
`CallbacksRunOnce` needs none of them.

No theorem assumes what it could do without, but for one thing: for each of these
assumptions TLC finds a counterexample to each theorem that makes it when the
assumption is dropped, with two or three attempts. With a timeout
`OutcomeFollowsAdapter` is false (`TransactionsDecided`); a run that is not
awaited outlives the transaction it joined; a commit by hand ends the
transaction under the run that opened it, and a completion on the handle passes
the adapter by; a hook that marks is too late for the adapter; a failing
`beforeRollback` or `afterBegin` hook leaves the connection open, and a failing
`rollbackToSavepoint` or release leaves a savepoint in a transaction that
commits; a failing `afterCommit` hook, or an `onError` that rejects after a failing
after-commit callback, makes `run()` report as failed, and `withRetry()` replay,
what is kept ([below](#where-code-and-comments-disagree)). The one thing is a rollback by hand
(`manager.rollback()` in the callback): TLC finds no violation with it, but
`Orderly` excludes it.

The arguments:

- *Pool types* (`TypeInv`). `pending` stays a natural number because it counts
  the callers that await the factory, and that is kept by
  answering a parked caller because every queued caller is parked and queued
  once (`QueueInv`).
- *Exclusive use* (`ExclusiveInv`). It becomes inductive when it speaks of every
  connection a call refers to, also one being closed, and says that the idle list
  has no duplicates: what is popped from it is nobody's.
- *Capacity and queue* (`CapacityInv`). Inductive is the bound on the connections
  there are *and those `initialize()` has yet to add*, with the fact that
  `initialize()` runs alone; each of its calls, retries included, begins with room
  for what it adds. A connection is parked idle only if nobody waits.
- *Drain* (`DrainInv`). Every open connection is pooled or in the hands of one call,
  of the drain or of the probe (`OpenKept`). Nothing that fills the idle list is
  under way once the drain has emptied it (`DrainFlow`), and the forced close
  visits each connection once (`DrainHands`). The attempt to prove the last showed
  that the model had let a factory reuse an identity that was visited, which hid
  an open connection from the drain when `max` is three or more; an identity in
  `forced` is no longer fresh.
- *Lease* (`LeaseStep`). A grant takes place when a call goes from awaiting to
  holding: the slot it holds then is the one it reserved or the idle connection
  it took, so it is within the limit by `CapacityInv`; that nobody else uses the
  connection is `ExclusiveInv`. A release to a waiter is a return and a grant in
  one step, which is why `Lease` has a transfer.
- *Waiters* (`WaitersStep`). Only the head of the queue is ever answered. A slot
  becomes free beside a waiter only if its connection dies or is retired, and
  then it is reserved for the replacement in the same step, or is on its way.
- *Finished transactions* (`Untouched`). The state machine refuses to leave a
  final state, so the only danger is a `begin()` that arrives late: nothing can
  complete a handle before its `begin()` is done.
- *Resolved runs* (`KeptWhenCommitted`). Whoever is past the adapter's commit, and
  every handle whose state is `committed`, has `db = "kept"`: the state changes
  after the adapter, unless a callback commits the handle itself.
- *Callbacks run once* (`Once`). Callbacks of one handle move as a whole: outward
  when a savepoint is released, out of every handle when they run. The hook a
  savepoint registers at its commit is registered right before the adapter is
  asked, of two commits of one handle at most one is under way, and after it the
  handle is finished: so it is not registered again.
- *Nesting* (`Shape`). What `t` joins is around it, `signal[t]` grows inward and
  holds exactly one root. Callbacks nest to any depth, yet nothing recurses: `a`
  is around `t` when it is in every set that holds `t` and, with a handle, the one
  whose callback opened it.
- *Outcomes* (`Wait`, `Course`, with the steps flattened in `Proceeds`). Every run
  around an active one is in its callback (`Wait`), so what a run completes has no
  active run inside it, and nobody else completes it. `Course` then relates, for
  each point a run can be at, its state, its mark and what the adapter did.
- *Replays* (`LeavesTidy`). A run that ended leaves nothing open but a connection
  that would not roll back; a failed one was not kept; a failed participant has marked the transaction it joined, which
  therefore is not replayed before it is undone.
- *Callbacks and the outermost transaction* (`Followed`). A callback kept by `u` was
  registered in `u` or in a savepoint inside `u` that was released, outward without
  a gap (`Belongs`), so when it runs, everything around it is kept, and when it is
  undone, something around it is undone and will never be kept.
- *Unit of work* (`ProceedsUnit`). What lasts changes only when a root commits
  (`KeptWithRoots`). By then every unit inside it was answered, and was told it
  succeeded exactly when its savepoint was released, so the root keeps itself
  and those all of whose surroundings succeeded (`RootKeeps`).
- *Limits of the queue* (`TickHoldsItsClaim`, `RunsAreCounted`, `RoomIsKept`,
  `SettledAreListed`). `activeCount` is the number of runs under way and the claim
  a tick awaits still finds room when it arrives, because nothing else starts one
  of the poller's runs meanwhile. Every settled job is in the order of settling,
  whose length is bounded; the pruned prefix is forgotten, unless it was revived.
- *Ownership* (`Ownership`). One claim or run per job (`OneHolder`), which knows
  where the job is (`HolderKnows`); no processor is abandoned, what is in flight
  is held, what is listed stays settled, a closed queue is quiet. A reclaim finds
  only jobs that nobody holds: that is where `~Slow` enters.
- *Worker* (`OnePoll`, `RoomIsKept`, `ControllersAreFresh`). `polling` admits one
  poll at a time, so the slot it saw free before its await is free after it;
  what it holds is a claimed job, which nothing else can start; the controllers
  that were aborted are those of runs that are over. A draining worker has a
  `stop()` that waits (`DrainsAreAwaited`). `NeverDeaf` says where the
  next poll comes from, and is what the liveness property rests on.
- *Fire times* (`FireInv`). While `tick()` calls a schedule's handler, that
  schedule is out of the queue, so queueing it afterwards doubles nothing; and
  it is queued then only if the handler left it alive.
- *Ceilings and policies* (`NoSync`, `LimitsInv`). Outside the call of a handler
  every execution is in flight, so what `tick()` compares with the ceiling is
  exact although it is counted late. A schedule has no executions before it
  exists, so its policy is fixed before anything runs under it.
- *Silence* (`SilenceInv`). A stopped scheduler takes no turn, so nothing starts;
  what `stop()` waits for are all executions there are, and no other joins those
  it left when it timed out; a cancelled recurring
  schedule has no place left from which it could start.
- *Turns of hooks* (`TurnsInv`). Until a shutdown is requested every component is
  before, in or past the phase as its rank is to the stage, or has failed
  (`InOrder`), so what a component depends on is up when its stage begins. The
  teardown begins only when no stage of the startup is in flight (`Apart`), which is
  where a reentrant `shutdown()` breaks in. A hook that a timeout abandoned is not
  joined by another: its component has failed, or the executor waits for it
  (`AbandonedHasFailed`).
- *Complete teardown* (`TornDown`). What a phase of the teardown has to undo is
  undone, under way, or in a stage still to come (`Undoing`); when the last stage
  is through, only the first is left. The deadline gives all this up, hence
  `~expired`.
- *After shutdown* (`ResolvedIsDone`, `AtRest`). A shutdown has resolved with nothing
  in flight on either side, or with its deadline expired, when no executor calls a
  hook.

Every invariant, action property and refinement that a passing run checks is
stated by one of these theorems. Only model-checked is liveness, and what
involves `ENABLED`, which TLAPS does not reason about here. No module declares a
`RECURSIVE` operator, and no theorem needs induction over data: sequences are
used through lemmas of `SequenceLemmas` and of the standard library, and the
stages of the lifecycle are a ranking, chosen by what it satisfies.

## Where code and comments disagree

Shown by configurations in which TLC finds the counterexample:

- `TransactionsDecided` (a listed run): "once `adapter.commit()` has returned there
  is nothing left to decide" (`manager.commit.ts:4`), but `transaction.commit()`
  reads the rollback-only flag again after it, so a timeout during that await
  reports a committed transaction as failed (`transaction.core.ts:143`).
- `ConnectionPoolRetryFull`: the pool "never opens more than `max`"
  (`site/docs/packages-storage.md:303`), but `initialize()` creates `min` connections whatever is
  there: repeated after a failure, as `:58` allows, it exceeds `max`.
- `JobQueueWrittenBack`: "a job can never write back into a cleared
  queue" (`inMemoryQueue.core.ts:401`), but a run that outlasts `closeTimeout` does,
  and takes `activeCount` below zero.
- `LifecycleOverwritten`: a stage that settles after the deadline
  lets startup write FAILED over DISPOSED (`lifecycleManager.startup.ts:332`,
  against the comment at `:128`).
- `ConnectionPoolStranded`: when the replacement of a retired connection cannot
  be created, `replenishForWaiters()` rejects one waiter and gives the slot back
  without looking at the others, who stay parked beside spare capacity, although
  "a retirement never strands a waiter" (`connectionPool.core.ts:265`, `:282`).
- `JobQueueRevived`: "terminal states a job never leaves"
  (`inMemoryQueue.core.ts:45`), but `processJob()` writes the job it was handed
  as active without looking at what became of it
  (`inMemoryQueue.processing.ts:135`).
- `SchedulerCancelled`: `cancel()` of a one-shot that was dispatched, and held back
  at its job's ceiling, aborts nothing and drops nothing: its record is retired
  already, and its run starts later (`scheduler.core.ts:686`).
- `LifecycleReentrant`: a start hook or a listener that calls `shutdown()`
  before the stage is recorded as in flight (`lifecycleManager.shutdown.ts:78`)
  is not waited for, so the teardown overlaps the start hooks.

Reachable once an assumption is dropped, or stated by no property:

- Pool: `initialize()` overlapping `acquire()` or `drain()`; a connection
  released twice; a parked caller that newcomers overtake for as long as every
  connection is retired when it is released.
- Transactions: a `beforeCommit` hook that marks its transaction rollback-only is
  too late for the adapter; a failing `afterCommit` hook, or an `onError` that
  rejects when it is told of a failed after-commit callback
  (`manager.commit.ts:173`), makes `withRetry()` replay what committed; a release
  that fails after `rollbackToSavepoint` makes a rollback reject that was carried
  out; a failing `beforeRollback` or `afterBegin` hook leaves
  the connection open (`manager.commit.ts:223`); a failing `rollbackToSavepoint`
  leaves failed work in a transaction that commits; a callback registered after
  its transaction finished never runs; a `commit()` on the handle bypasses the
  adapter; a joined run whose owner finished before the timeout is aborted by
  nobody (`manager.propagation.ts:105`).
- Queue: a timed out processor that outlives its grace runs beside the retry; a
  consumer slower than `stalledAfter` releases or
  runs a job that is somebody else's.
- Worker: a claim awaited across `stop()` starts its job on a stopped worker,
  which nobody drains, and `forceStop()` does not abort it once the worker was
  started again; a second `stop()` during a drain returns at once; a drain that
  outlives `forceStop()` and `start()` stops the new run; an `onError` that throws
  leaves the worker without a poll, or draining with a `stop()` that rejected.
- Scheduler: `stop()` in the synchronous part of a handler neither ends the tick
  nor waits for that execution; a handler that pauses and resumes its own
  recurring schedule there queues it twice; runs held back when a scheduler was
  stopped wait, after `start()`, for the end of some execution; pausing drops
  held-back runs; a held-back run may starve behind a recurring schedule
  of its job; handlers that ignore their timeout outlive what the ceilings count.
- Lifecycle: a component whose `dispose()` failed stays where it was before.

## Not modelled

- *Of modelled components*: the wording of errors and events, counters, metrics,
  logging, lengths of delays and back-off, priorities (any runnable job may be
  taken), calendars, contents of jobs, results and dead letters, execution
  history, the transaction registry, a second concurrent `drain()` of a pool,
  changes of `autoProcess` and processors registered after the queue's start.
- *Merged awaits*: a worker's `getJob()` after `runJob()` (`worker.core.ts:150`) is
  part of `JobEnds`: the job is settled, and its slot held, a little longer in the
  code; the
  `clear()` of the queue's own dead letter store inside `close()`
  (`inMemoryQueue.core.ts:429`), which nothing but microtasks separates from what
  surrounds it, is part of `ClearAll`; the two adapter calls that roll a savepoint
  back are one step. Whether a hook of the lifecycle returned or threw is not in its
  history (`over`), only in what became of its component.
- *Data packages* (`schema`, `validation`, `serialization`, `types`, `errors`,
  `crypto`, `config`, `permissions`, `feature-flags`, ...): functions of their
  input, which unit tests reach.
- *I/O packages* (`http`, `adapters`, `auth`, `cli`, ...): what they do is
  sockets, files, protocols of others and generated code. Nearly all of the
  repository's lines are in these and the data packages.
- *Handler registries* (`events`, `messaging`, `cqrs`, `rpc`, `middleware`): one
  call at a time through a chain of functions.

## Plan

1. `ConnectionPool`, `TransactionManager`, `JobQueue`, their abstract
   specifications and proofs: done.
2. `Scheduler` and `Worker` with their proofs, `Lifecycle`: done.
3. `LockManager`: expiry, fences, waiters; fences grow, one live holder. To
   prove: both, for any number of keys and clients.
4. `Cache` (tags beside late writes) and `Migrations` (two runners and a lock).
5. The claim protocol as an abstract queue that `JobQueue` implements and
   `Worker` uses, in place of the worker's own view of it.
6. Proofs that the pool implements `Lease` and the manager `UnitOfWork`, and of
   every safety property the runs check: done. Left: rollbacks by hand in the
   theorems on transactions (no inner run is under way when the callback makes
   one, and nothing joins the transaction after it, so what has to change is what
   `Course` says of a callback), and the safety half of the claim protocol of 5.
