# Verification of Forgejo's concurrent core

TLA+ models of the parts of Forgejo (the program in `src/`) whose correctness depends on
concurrency, failure and ordering, the TLC configurations that check them on small instances, and
TLAPS proofs of what holds for all instances. Modelled, checked and proved are: the queues, the
jobs and the status of an Actions run, the pull request checker with the exclusive pool, webhook
delivery, and the event source.

## Inventory

Forgejo is a monolithic web application: HTTP, SSH and hook handlers work on a database and on
Git repositories, and hand everything slow or deferred to background components. The handlers
themselves are mostly single database transactions, rendering and permission checks. What is
hard is in the background.

| Component | State | Operations | Interacts with | What is hard | What makes it correct |
|---|---|---|---|---|---|
| Worker pool queue (`modules/queue/workerqueue.go`, `workergroup.go`) | base queue, batch buffer, undelivered batch, workers and their batches, contexts, limits | Push, Has, FlushWithContext, RemoveAllItems, SetWorkerMaxNumber, ShutdownWait, Cancel, Run | base queues, the handler of each user, graceful contexts | one run loop, one pop goroutine, many workers and callers; flush inside the run loop; requeue by the workers; a shutdown with and without timeout | no accepted item vanishes or is handled twice; a batch and a buffer are never stranded; the limit of workers holds; a flush is synchronous; a shutdown ends |
| Channel base queue (`base_channel.go`) | Go channel, set, mutex | PushItem, PopItem, HasItem, RemoveAll | worker pool | channel and set change in separate steps | no duplicates; a refused payload is queued; calls return |
| Redis base queue (`base_redis.go`) | list and set in Redis, a mutex per process | same | every process of a cluster | no transactions, failing commands | same, over the whole cluster; bounded length |
| Level base queues (`base_levelqueue*.go`) | LevelDB | same | worker pool | the simple one has no mutex; a crash loses what is in memory | same |
| Queue manager (`manager.go`) | the registry of queues | AddManagedQueue, FlushAll, GetManagedQueue | admin pages, tests | little | flush repeats until all are empty |
| Actions (`models/actions`, `services/actions`, `routers/api/actions/runner`) | rows of runs, jobs, tasks, steps; a unique queue of runs | trigger, approve, rerun, cancel, fetch a task, update a task, emit jobs, clean up | runners, cron, the emitter queue | racing transactions, rows read outside the transaction that writes them, missing wake-ups | one task per attempt of a job; the status of a run agrees with its jobs; a job whose needs are done starts; nothing finished changes |
| Graceful manager (`modules/graceful`) | state, four contexts, wait groups | doGracefulShutdown, doHammerTime, doGracefulRestart, RunAtShutdown | servers, queues, cron | signals in any phase, a restart that hands listeners over | contexts end in order; everybody is waited for, but not beyond the hammer time |
| Exclusive pool, status table (`modules/sync`) | locks and reference counts by name; running marks | CheckIn, CheckOut; StartIfNotRunning, Stop | wikis, pull requests, cron | count and lock are two things | mutual exclusion per name; no entry leaks or is deleted while wanted |
| Pull request checker, automerge (`services/pull`, `services/automerge`) | status of pull requests, scheduled merges, unique queues | AddToTaskQueue, test, merge, schedule | Git, queues, exclusive pool, commit statuses | stale answers of `Has`; a merge that races with a push | no pull request stays in checking; no merge of what was not checked |
| Webhook delivery (`services/webhook`) | hook tasks with a delivered mark, unique queue | PrepareWebhook, Deliver, populate, replay | HTTP | a crash between mark and delivery | at most once per task; every task is settled |
| Event source (`modules/eventsource`) | messengers and their channels by user | Register, Unregister, SendMessage, UnregisterAll | browsers, graceful shutdown | a messenger found under one lock and used after it | a registered channel receives or is closed |
| Process manager, cron (`modules/process`, `services/cron`) | processes by id, running tasks | Add, Remove, Cancel; Run | all the above | overlapping runs, cancellation | unique ids; no two runs of a task |
| Resource index (`models/db/index.go`) | greatest index per group | GetNextResourceIndex, SyncMaxResourceIndex | issues, commit statuses, runs | databases with different isolation | indices are unique and grow |
| Log writers (`modules/log`) | queue, shared writers, pause and close flags | Log, Pause, Release, Close | every component | closing while others send | no blocked logger, no lost event before Close |
| Mirrors, tasks, migrations (`services/mirror`, `services/task`) | rows and a queue each | AddToTaskQueue, sync, run | queues, Git, network | repeated or lost queue entries | each row is settled |
| Indexers (`modules/indexer`) | external index, a queue | update, delete, populate | queues, search engines | handlers that return items as unhandled | index follows the database |
| Repositories, issues, packages, LFS, quota | rows, files | single transactions | database, storage | little that is concurrent | database constraints |
| Git, markup, highlighting | none | wrap the git program, parse, render | Git | data transformation | functional |
| Web, API, command line | sessions | decode, authorise, present | all the above | presentation | functional |

`PROJECT.json` lists the hazards of these components one by one, with the line at which each
bites and the properties that cover it.

## Plan

Done, in this order: the queues (`BaseChannel`, `BaseRedis`, `WorkerPool`, `QueueContract`), since
all other background components sit on top of them; Actions (`RunStatus`, `ActionJobs`); the
exclusive pool and its main user (`ExclusivePool`, `PullChecker`); webhooks (`WebhookDelivery`);
server sent events (`EventSource`).

Left, in the order of what they would add:

1. Log writers (`modules/log`): pausing, releasing and closing a writer while loggers send.
2. The graceful manager, composed with the shutdown of the pool: a shutdown ends within the
   hammer time.
3. `ChangeTargetBranch`, which needs a second target branch in `PullChecker`: a push to the new
   target between the test and the write of the row is not noticed (see the hazards).
4. `WorkerPool` over the steps of the channel queue instead of an atomic base queue, which would
   show what the races of that queue do to the contract of the pool.
5. Automerge, the status table, the resource index, the simple level queue.

## Modules

`BaseChannel` — `base_channel.go`. `c`, `set` and `mu` are the fields of the same names; `pc` and
`data` are, per goroutine, the position in the call and its argument. One action per step that
other goroutines can see: the look into the set, the send or its timeout, the update of the set;
the receive and the update of the set; lock, test of the length, receive, reset. Short critical
sections are one step; `RemoveAll` holds the mutex across steps.

`BaseRedis` — `base_redis.go`. `list` and `set` are the two keys, `pc` and `data` the call of each
process. One action per Redis command, and one more for the same command failing, with and
without an effect on the server. A process that dies is one whose next command failed without
effect. The mutex of the code belongs to one process, hence one call at a time per process.

`WorkerPool` — `workerqueue.go`, `workergroup.go`, `popItemByChan` of `base.go`. The threads are
the callers, the pop goroutine (`popPc`, `popItem`), the run loop (`runPc`; `buffer` is
`wg.batchBuffer`, `batch` the argument of the second select of `doDispatchBatchToWorker`, `timer`
the debounce timer, `skipFlush` whether that call was given `skipFlushChan`), and the workers
(`workerPc`). `inHandler[t]` is the batch thread `t` is handling, `unhandled[t]` what it has still
to requeue. Each disjunct of a select is an action; `runPc` walks through `doRun`,
`doDispatchBatchToWorker`, `doFlush` and the deferred shutdown in the order of the code. The fates
`handled`, `lost`, `removed` and `merged`, and `accepted`, record what happened to the items: the
code keeps no such record, and no action reads them in a guard but `accepted`, which makes an
item be pushed once.

`QueueContract` — what a queue promises the code that uses it, in terms of fates only. It is the
interface for the models of the queue's users. `WorkerPool` implements it, with `pending` mapped to
everything between `Push` and a fate, and `closing` to `ctxDone`.

`RunStatus` — `UpdateRunJob`, `aggregateJobStatus` (`run_job.go`) and `UpdateRun` (`run.go`), one
action per SQL statement. `job` and `run` are the committed rows; `written`, `row` and `locked`
what open transactions wrote, `seen` what a caller loaded. A caller in `Unwrapped` has no
transaction (`CancelPreviousJobs`).

`ActionJobs` — the jobs of one run and their tasks. `job` and `task` are the rows, `held` and
`result` what a runner executes and reports, `current` and `fresh` who knows the present version
of the tasks, `queued` and `emitter` the queue of the job emitter and its handler, `op` the
cleaner or button at work. What a handler reads is an action, what it writes in one transaction is
another, and everything may happen in between. The status of the run is left to `RunStatus`.

`ExclusivePool` — `exclusive_pool.go`: the map of mutexes, the counts, and every user with the
mutex it waits for or holds. A module of its own specification that `PullChecker` extends.

`PullChecker` — `services/pull/check.go` and those who share the place of a pull request in the
pool: the workers of the patch checker, `Merge`, `MergedManually` and `Update`. `git` is the number
of the latest change of the branches and whether the patch is empty, `row` the row with the change
its status is about, `seen` a worker's copy of it.

`WebhookDelivery` — `services/webhook` and `hooktask.go`: the rows of `hook_task`, the queue, the
workers, the population at start with its pages (`boot`, `lower`, `page`), the cleanup, and the
deletion of a webhook, which takes its undelivered rows along.

`EventSource` — `modules/eventsource` and the handler `Events`: the map of messengers, the channels
of each, which of them hold an event or are closed, and the goroutines of the connections, of the
sign outs and of `Run`.

`MC*` — instances for TLC: symmetry, which items push the same payload, which job needs which.
`*Proofs` — theorems and proofs.

Definitions commented as mutants (`RequeueLostAtOnce`, `ClaimJobAnyway`, ...) are not part of any
specification. Each is an action with a plausible mistake; substituting it makes the property it
is paired with in `PROJECT.json` fail, which shows that the property depends on that code.

### Abstractions of WorkerPool

- An item is one push. `Payload` says which pushes carry equal data, because a unique queue
  refuses those; with distinct payloads the base queue behaves as a simple queue.
- The base queue is an atomic set with a capacity, which is what the mutex of the unique level
  queue gives. Its order is left out; no property depends on it. Persistence, and so crashes, are
  not in this module.
- Durations are left out: a timer may fire whenever it is armed. The only durations compared in
  the code are `shutdownTimeout` with 0, and that comparison is kept, with both of its reads.
- `batchChan` is unbuffered: sending is a rendezvous. It is closed only after `ctxRun` is
  cancelled, and then a receive from it has the same effect as `ctxWorker.Done()`.
- A `ShutdownWait` stores the timeout and cancels in one step: before the cancellation the timeout
  is read only by `basePushForShutdown`, where any outcome is possible either way. `Cancel` and
  several `ShutdownWait` may follow each other at any moment, so the timeout may change between the
  two reads of a shutdown.
- A deadline may pass at any moment after it was set, before the first attempt as well, and with
  room in the base queue: `backoffRetErr` looks at the context first. So once `ctxRun` is cancelled
  any item to be requeued may be lost (`RequeueLost`), and at any point of putting back what the
  run loop holds the rest of it (`PutBackExpired`), since all of it shares one deadline. Before a
  shutdown the seconds an attempt has begin with its own call, and are taken to suffice for a first
  look at the queue: a `Push` fails then only if it finds the queue full or the storage failing.
- `basePushForShutdown` also tries when the queue is not shutting down, since the timeout is 2
  seconds from the start, not 0. So it is one more attempt with the same outcomes as the first,
  and the two attempts are one action each for success and failure. Two equal items that one
  worker requeues are separate steps.
- A handler that panics counts as one that handled its items (`safeHandler` recovers and
  returns nil). A handler may return any subset of its batch, `FailBudget` items in total.
- `workerActiveNum` is read only by statistics and is left out, as are items that cannot be
  unmarshalled, which are dropped with a log line, and backoff delays.
- When the storage of the base queue fails, the pop goroutine sends an error and closes its
  channel; the run loop stops on either.
- A worker's exit is one step with its `wg.Done`. No pop goroutine stays blocked with an item:
  the shutdown reads `chanItem` to its end. It does not read `chanErr` any more, so a goroutine
  that has an error to report (`base.go:30`) may stay behind with it; it holds no item and counts
  as closed.
- The handler the run loop calls in a shutdown without a timeout (`HandleRest`) may hang as any
  other; that it returns is part of `HandlersReturn`.

### Abstractions of the other modules

Common: a transaction that writes several rows is one action at the time it commits, unless the
interleaving of its statements is the question, which it is in `RunStatus` only. There,
transactions read committed data and hold the lock of a row they wrote, the weakest isolation of
the databases the program runs on. The queues are the persistent (level) base queue: a set, out of
which workers take items; the pool around it is `WorkerPool`. A crash keeps rows and queue, and
loses goroutines. Faults are counted and bounded where they would otherwise happen for ever.

History variables, which no action reads: `calm` (BaseChannel), `lost` (RunStatus), `raced`,
`disturbed`, `silent` (ActionJobs), `missed` (PullChecker, WebhookDelivery), `orphaned`
(EventSource). They name the histories a property does not speak about; each is set by one kind
of event that is written at the definition.

- `ActionJobs`: one run; what a job does, its steps, logs, outputs and artifacts are left out, as
  are the age limits of the cleaners (any job or task that qualifies may be found). One cleaner or
  button is at work at a time; runners and the emitter are concurrent with it and with each other.
  `JobID` is the name of a job in the workflow, which the jobs of a matrix share: needs name names,
  and `GetAllRerunJobs` collects dependents by name, in passes, which is the order in which they are
  rerun. `Cancel` reads the task of each job (`CancelLook`) before its transaction writes, without
  a condition, what it read as running.
- `PullChecker`: one pull request. Status `tested` stands for mergeable, conflict and ancestor,
  which a test sets whatever the status was before; `empty` is apart because a test does not always
  overwrite it. A push or a merge begins only while `Pusher` has a goroutine besides those that the
  merges under way will start (`Spare`): a bound on the requests, so that `MergeEnd`, which is
  inside the pool, never waits for a goroutine, as in the code it does not. The hook that marks a
  merge runs while the merge waits for its push.
- `WebhookDelivery`: of a request only that it was sent, and whether its response was a success.
  `missed` holds the tasks an error was logged of since the start of the server; a start repeats
  them and clears it.
- `EventSource`: a messenger is named by the connection it was made for. A critical section that
  cannot block is one action.

## Runs

| Run | Bounds | Question and result |
|---|---|---|
| `channel` | 2 payloads, 2 producers, 2 consumers, 1 remover, length 2 | Channel and set change in separate steps: is a payload queued twice, do calls return? As long as pushes do not overlap and nobody removes all, what is queued is registered and queued once. A push returns unless a `RemoveAll` waits, with the mutex, for an item that a consumer took. |
| `redis_cluster` | 3 payloads, 3 processes, length 2, 1 RemoveAll, 2 failing commands | Do processes that share a queue without transactions keep list and set together? Payloads are queued once until a RemoveAll, nothing stays registered until a command fails, and the length is exceeded by less than the number of processes. |
| `pool_shutdown` | 3 items, two of them equal, 2 workers, length 2, batches of 2, timeouts 0 and 5, 2 unhandled items, failing storage | Is an item ever lost track of or doubled, on any path to a stop? No; a stopped queue holds nothing it could have put back, and before the stop an incomplete batch always has a timer. |
| `pool_workers` | 2 items, 3 worker identities, limits 2, 0 and 1, 2 flushers, length 1, batches of 1 | Do dispatch, ending workers, flushes and a changing limit agree? `workerNum` counts the live workers, the limit holds, a waiting batch has a worker, `FlushWithContext` returns nil only when no worker runs and the run loop holds nothing, and every step is one the contract allows. |
| `pool_live` | 2 items, 2 workers, 1 flusher, length 1, batches of 2, timeout 0 or the default, handlers may hang | If handlers return, is every item settled and every flush answered, or the queue cancelled? Yes. Does a shutdown end although handlers hang? Yes, unless the run loop itself waits for one of them: in a flush, or in the last call of a shutdown without a timeout. |
| `run_status` | 2 jobs, 2 transactions and 1 unwrapped caller, version up to 4 | Can two transactions that end the last two jobs both overlook the other? No: the committed status is the aggregate of the committed jobs. |
| `actions` | 2 jobs, one needs the other, 2 runners, 3 tasks, 1 rerun, approval or not | Do runners, emitter, cleaners and buttons agree on who may work on what? A job is claimed by one runner at a time, never left with a task it cannot get rid of, waits for its needs, and is not stranded between a transaction and the push that follows it; no runner is told that it knows all while a job waits. |
| `event_source` | 1 user, 2 connections, 1 sign out | Nobody sends to a closed channel, a paused `Run` is woken, a listener is in reach, connections and sign outs end: except for a connection that registered with a messenger that was gone (`orphaned`), and when a sign out is stuck. |
| `event_source_sign_out` | same | Violated: a sign out may be stuck for ever. |
| `pull_checker` | 2 workers, 1 request (merge, mark as merged, update), 2 goroutines of pushes, 2 changes, 1 crash or failure | One at a time holds the place in the pool; an open pull request that is checking or outdated has a check on its way; a merge is final; checks end once users stop asking for updates. |
| `pull_checker_empty` | 2 workers, 2 pushers, 2 changes, no faults | Violated: a pull request with content may stay empty. |
| `webhook` | 2 tasks, 1 caller, 2 workers, pages of 1, 2 faults | A task is sent at most once, an undelivered one is on its way or its error was logged, a record is final. |

Why these bounds: the capacity of a queue matters when it is reached, so it is 1 or 2 and the
items are as many or more (a length of 2 where an equal payload has to be found in a queue that
still has room); a batch length of 2 gives incomplete batches and the timer, one of 1 gives
blocked dispatches; two workers are needed for one to end while the other is busy, three and the
limits 0 and 1 for the limit to be lowered below what is running and for the one worker a limit of
0 still gets; two flushers for a request that arrives while another is served. Two consumers or
three processes are the least for two of them to be between their two steps on the same payload
while a third acts. Two jobs, one of which needs the other, give every status that
`aggregateJobStatus` and the resolver tell apart (longer chains of needs, along which a skipped
job skips others, are the matter of the theorems about `ActionJobs`); three tasks let a job be
claimed, rerun and claimed again while the other has one too. Two connections are the least for a
messenger to outlive one of them, and for an unregistration to meet a registration. In
`pull_checker` two changes make one push overtake the test of another, and two workers are needed
for one to wait in the pool while the other judges; with no change left, `MergePush` and
`UpdateHead` only stop, which ends nothing early because `MergeFails` remains. Pages of one id
make every task a page boundary; two faults allow a crash in the repetition after a crash. What is
proved holds without the bounds.

`CHECK_DEADLOCK FALSE` stands, with its reason, in the runs in which the system may really stop or
in which nobody has to do anything more.

Type invariants are proved instead of checked, except for `EventSource`, where `TypeOK` is an
invariant of the run as well: it says that nobody fetches a messenger that is not there.

### Fairness

- Goroutines that can take a step keep being scheduled: weak fairness of the pop goroutine, of
  the run loop, of each worker's loop, of each thread's requeueing (`SchedulerFairness` of
  `WorkerPool`), and of the steps of started goroutines in the other modules. It is not assumed
  that idle workers time out, that callers call, users connect, press buttons or push, or that
  faults happen.
- Where a step waits for a mutex it has strong fairness (`PushStep`, `PopRemove`; `UnregisterLock`,
  `SignOutLock`): after a waiter has been starved for a millisecond Go's
  `sync.Mutex` hands the lock to it. `RemoveAll` owns the mutex, so weak fairness is enough for it.
- That handlers return is not part of `FairSpec`. The two properties that need it say so
  (`HandlersReturn => ...`); `ShutdownEndsUnlessRunWaits` does without.
- `PullChecker` assumes less: while some started goroutine can take a step, one of them does
  (`Due`). Which one, and who gets the mutex of the pool, is left open: those who compete with a
  check run out of things to do.
- `CheckingEnds` holds once users stop asking for updates (`RequestsCease`), because a failing
  `Update` starts another check and every check gives way to one that waits.
- `ActionJobs` and `RunStatus` state no fairness: runners may die and users need not act.

## Proofs

All for any number of payloads, processes, workers, flushers, items, jobs, runners, connections of
callers and tasks, any length and limits.

`BaseChannelProofs`. Types (the capacity of the channel is never exceeded). `CalmQueueRegisters`
and `CalmQueueHoldsOnce`, until two pushes overlap or a `RemoveAll` begins. The property is not
inductive: `CalmInv` adds that at most one producer is active, that the payload it holds between
check and send is not registered, and that the payloads in the hands of the consumers differ from
those in the channel, from what the producer adds, and from each other.

`BaseRedisProofs`. Types; `LengthBound`, from `LengthInv`, which counts with the length of the list
the processes that have passed the check and may still add one item each; `RegisteredIsQueued`,
inductive together with `SimpleInv` (a simple queue has no set); `QueuedOnce`, from `QueuedOnceInv`:
who holds a payload between SADD and RPUSH, or between LPOP and SREM, holds it alone, and it is
then not in the list.

`WorkerPoolProofs`. `TypeOK` and `WorkerCount` are inductive together (`LiveStep` says what a step
does to the set of live workers). `WorkerLimit` needs that the present limit is one that was set.
`ControlInv` is the inductive invariant of the control flow: where `buffer`, `batch`, `popItem`
and the hands of each thread may be non-empty, when `ctxRun` must be cancelled, when workers must
be gone. It contains `BlockedHasWorker` and `BufferHasTimer` and implies `StoppedHoldsNothing`; that
`WorkerCount` is exact is what makes the last worker stay for a blocked batch. `FlushIsSynchronous`
is an action property: only `FlushEnd` answers a request, and `ControlInv` says what holds there.
`Accounted` and `Exclusive` come from `ItemInv`, which takes the items of all threads together
(`Carried`) and adds that an item being pushed is not accepted yet. A step moves items only in the
run loop's variables (`ItemKept`) or in the hands of one thread (`ItemMoved`). The refinement
`ImplementsContract` needs no more than these: an item is given up where the base queue is full
with an item in hand besides, where its storage fails, or after `ctxRun` was cancelled.
`LossNeedsCrowdOrShutdown` follows: with a working storage, nothing is lost before a shutdown while
the base queue has room for all that is pending, whatever handlers return. A shutdown may lose
items for lack of time alone, so nothing of the kind holds of it.

`RunStatusProofs`. `RunIsAggregate` speaks of committed rows; the inductive `Inv` adds what an open
transaction knows: one that has the version of the run as it is has seen, or will see, every job
that was committed before, and only one transaction at a time can have written the run.

`ActionJobsProofs`. `UnclaimedHasNoTask` and `RunningHasLiveTask` are inductive together with what
handlers hold: a picked job, a held task and the task a cleaner found exist and are of the job
they name, so do the tasks a cancellation has read, and a rerun is only of statuses that were
final. `ClaimedOnce` follows step by step.
`ToldWhatWaits` comes from `Told`, which says the same of a runner wherever it is and of the
handler about to answer it. `NeedsRespected` comes from `Undisturbed`: as long as nothing was
cancelled, abandoned or rerun, jobs only go forward (`Orderly`), so what the emitter read as done
is still done when it writes, a job that was picked is still free or has been claimed, and a run
that waits for approval has not begun. `ReadyIsCovered` comes from `Covered`, in which the emitter
has read the job as a blocked one and only runners at work hold tasks; a job that the emitter
makes ready without releasing it needs one that ended after the read, hence it is in `Missed`. The
last two need to know what the passes of `Resolve` compute, for any number of jobs and any graph
of needs, circles included: `PassesEnd` (as many passes as there are jobs reach a fixed point, by
counting what each of them adds), `SkipsNoMore` (the least one) and `ResolveComplete` (no job
stays blocked whose needs are done or skipped). The recursive function is shown to exist by
building its initial segments. These inductions go through sets of numbers: `NatSetInduction`,
from the well-foundedness of `<` on the naturals.

`PullCheckerProofs`. The pool alone first (`PoolInv`: who waits or is inside has the mutex of the
map, it is locked exactly if one is inside, and the count is the number of users). Then the
checker: `Places` ties the program counters to the pool, so that no two of its users judge or merge
at once; `StaleIsFollowed` says that a worker about to write a verdict on an older state is followed
by another check, which is what `OutdatedIsRechecked` needs to be inductive; `Unmerged` makes the
write of an error, which has no condition, harmless to `MergedIsFinal`.

`WebhookDeliveryProofs`. `SentOnce` because a request is sent only between the mark and the record,
and only one worker gets to mark a task; `UndeliveredIsUnderway` because a page leaves out no
undelivered id above the lower bound (`PageIsDense`), and ids above it are still to come.

`EventSourceProofs`. One inductive invariant of eight parts, each of which needs others. `LockHeld`:
the mutex of the manager has one holder, and who keeps it to unregister a connection has found a
messenger. `Named`: messengers in the map and in the hands of connections are of the right user.
`Registered`: a channel is registered once, with the messenger its connection fetched, and is open.
`Sending`: what a sign out has yet to send to stays registered, since it keeps the mutex of that
messenger; with `Registered` this is `RegisteredIsOpen`. `Reachable`, for `ListeningIsReachable`,
adds that a closing `UnregisterAll` will come to the messenger of whoever still listens or has yet
to unregister; a messenger that leaves the map had no other channel. `Woken` is `NoLostWakeup`.
`DrainingIsClosed` is the safety half of `LeaversGo`, stated in the proofs only: since `Unregister`
finds the channel of whoever was not orphaned, it closes it, and draining it has an end.

Assumptions: those of the modules. The sets of items, workers and processes are finite, lengths
are positive, and there are as many worker identities as the limits allow, since goroutines are
not scarce. The jobs of a run are finitely many; connections and sign outs are different things.

Only model-checked: the liveness properties (`PushReturnsUnlessStuck`, `EventuallyHandled`,
`FlushReturns`, `ShutdownEndsUnlessRunWaits`, `LeaversGo`, `SignOutEndsUnlessStuck`,
`CheckingEnds`, `EventuallyDelivered`), which depend on fairness and so are out of the prover's
reach. Every other property of a passing run is proved.

What a proof changed: `ReadyIsCovered` held in every instance with two jobs, and its proof failed
for the step that writes what the emitter decided. With four jobs TLC then showed why (2 needs 1,
and 4 needs 2 and 3): the emitter reads the jobs, a cleaner ends job 3 and emits nothing, and the
emitter skips 2 with what it read. Job 4 is ready, and nobody looks at the run again unless
another task of it ends. So `silent` names these jobs as well; it did name only those that a
cleaner or a button made ready itself.

## Where the code and its documentation disagree

Two runs are violated:

- `event_source_sign_out`, against `messenger.go:70` ("sends the message to all registered channels
  and ensures it gets sent"). The sign out sends to a channel of capacity one, with the mutex of
  the messenger, while the connection has left its loop and waits for that mutex to unregister; its
  `Unregister` has the mutex of the manager by then, so no other user can connect either.
- `pull_checker_empty`, against `check.go:174-179`. A test whose copy of the row says `empty` keeps
  that status for a patch with content (`patch.go:105`). The copy may be older than the push that
  set the row to checking, and the question whether another test waits does not help when this is
  the last one.

Elsewhere a property that holds names the exception, and so where a comment promises more:
`PushReturnsUnlessStuck` against `queue.go:42` ("doesn't block forever");
`ShutdownEndsUnlessRunWaits` against `workerqueue.go:26` ("predictable time"); `Lose` of
`QueueContract` against `queue.go:26-29` ("no item is skipped or lost"): the worker that would make
room in a full base queue is the one that requeues, and in a shutdown the time may be up; `calm`
against `queue.go:68` on what a unique queue refuses: a consumer may unregister a payload before its
producer registers it, and two producers may both pass the check. Two remarks that no run is about:
when a RemoveAll of the Redis queue fails on its second command, the members of the set stay and
their payloads are refused until somebody clears the set; and after a flush no worker is running,
although the comment at `workergroup.go:333` can be read that way; the next dispatch starts one.

## Not modelled

Of the queues: the level queue's files and its simple variant, whose concurrency is that of a
library outside the repository; `Close` of the base queues, which no production code calls;
`HasItem`, which only reads; the manager, which calls queues one after the other. Of Actions:
steps, logs, outputs, artifacts and schedules. Of pull requests: `ChangeTargetBranch`, automerge, and
a hook that outlives its push. Of webhooks: the last status of the webhook and the contents of
requests. The status table of `modules/sync`, and the components of the plan that are left.

The other components of the inventory are data transformation, presentation or single
transactions, and most of the repository is: about 300 000 lines of request decoding, permission
checks, database rows, templates' data and wrappers of the git program, in which nothing is
concurrent but the database. So the models cover the code that has protocol state, a small share of
all lines.
