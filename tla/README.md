# Bridra: TLA+ models, model checking and proofs

This directory holds TLA+ models of the Bridra backend framework
(`src/backend/framework`) and of the stateful commands of its command line interface
(`src/backend/cmd/bridra`), TLC configurations that check them on small instances, and
TLAPS proofs of their central safety properties. Paths below are relative to
`src/backend/framework` unless they start with `src/`.

## 1. Inventory

Bridra is a framework for Flutter applications with a Go backend. The backend runs
as a sidecar process (JSON lines over stdin and stdout), as an HTTP server, or
embedded in a mobile application. Around the request path the framework offers
background jobs, scheduled tasks, file transfers and subscriptions.

| Part | State | Operations | Interacts with | What is hard |
|---|---|---|---|---|
| `JobStore` contract (`job_store.go`) | job records: pending, reserved under a lease, failed | Enqueue, Reserve, Release, Complete, Fail, RetryFailed, ForgetFailed | called by persistent workers of several processes | leases that expire while held, stale holders, clocks that disagree |
| `FileJobStore` | map in memory, append-only log | the same, and replay on open | one process | crash inside an append, failing writes, replay written apart from the operations |
| `SQLJobStore` | one table | the same, as single statements; Reserve is a select and a compare-and-set | several processes | interleavings between the select and the update |
| `RedisJobStore` | sorted sets and hashes | Lua scripts, atomic each | several processes | several indexes of one record, bounded recovery batches |
| `JobQueue`, in memory (`jobs.go`, `jobs_delayed.go`) | channels, slots, heap, worker pool | dispatch, delayed dispatch, Start, Shutdown | handlers may dispatch | closing channels in the right order, back pressure, drain |
| `JobQueue`, persistent (`jobs_persistent.go`) | a store, wake channel, workers | dispatch, reserve-execute-finish loop | store | crashes, lost answers, late handlers, shutdown |
| `Scheduler` (`scheduler*.go`) | tasks, loops, states | register, Start, Shutdown, dynamic tasks | `SchedulerStore` | overlapping runs, missed occurrences, retries after a crash |
| `SchedulerStore`: file, SQL, Redis | task state with a lease | Initialize, State, Reserve, Complete | several processes | the same as the job stores |
| `Server` (`server.go`, `stream.go`) | pending requests, stream windows | request, cancel, acknowledge, end of input | router, encoder | cancellation racing completion, flow control |
| `Subscription` (`subscription*.go`) | replay buffer | Publish, Next, Close | streams | slow readers, cursors that fell out of the buffer |
| `EmbeddedRuntime` | requests by handle | CallJSON, StreamJSON, NextJSON, Cancel, Close | mobile bridge | Close racing requests |
| `Application` | providers, state | Register, Boot, Shutdown | providers | failure in the middle of boot, one provider failing to stop |
| `FileTransferStore` (`file_transfer.go`), its HTTP handler | entries with expiry, files beside them | stage, begin, append, status, import, open a download, consume, Close | HTTP handler, server, mobile bridge | the mutex is free while a file is written: expiry, removal and Close meet a write under way |
| `ResourceBroker` (`resource_broker.go`) | leases by capability, pending grants | Grant, Release, Close | server, mobile bridge | the native resolver and the release run outside the mutex; a lease must be given back exactly once |
| `RateLimiter` (`rate_limiter.go`) | token buckets by key | Allow | HTTP handlers | the clock is read before the mutex; eviction at the limit; rounding; the honesty of RetryAfter |
| `Container` (`container.go`) | bindings, scopes | register, alias, resolve, scope | providers, handlers | mutexes held through nested factories; a singleton that captures a scoped service |
| `Migrations` (`migrations.go`, `migration_store.go`) | the ledger table, the schema | Register, Migrate, Rollback | database | a batch that fails in the middle, a lost answer to a commit, releases in between |
| Cron (`scheduler_cron.go`) | none | parse, `next` | scheduler | boundaries of months, two day fields, wall times that a time zone skips or repeats, a search that may skip or not end |
| `bridra dev` (`cmd/bridra/dev.go`, `dev_watch.go`) | children, watcher, executables | build, start, watch, rebuild, replace, stop | subprocesses, signals | edits during a rebuild, exits during a stop, interrupts at any time |
| `bridra upgrade` (`cmd/bridra/upgrade*.go`, `semantic_version.go`) | project files, snapshots | plan, apply, roll back | file system, subprocesses | one of several writes failing, a rollback that fails, processes that outlive their timeout, requirements passed over |
| `Events`, `Database`, HTTP handlers, configuration, validation, observability | tables, pools or counters | request mapping | router | mostly formatting |
| other CLI commands, code generation, scaffolding, release tools | files | create, make, build, package | file system, subprocesses | one pass over files that the next run makes anew |
| Flutter packages and runners `src/packages`, `src/lib` | client connections | calls, streams, reconnection | server | restart of the sidecar with calls under way |

## 2. Plan

Done, in this order: the durable job path (`JobStore`, its three implementations,
`JobQueue`, `PersistentJobQueue`), the scheduler and its stores, the request path
(`Server`, `Subscription`, `EmbeddedRuntime`), the life cycle (`Application`, composed
with the runtime in `EmbeddedApplication`), the stores behind the server's control methods
(`FileTransferStore` with `FileTransferHTTPHandler`, `ResourceBroker`), the services of one
process (`RateLimiter`, `Container`, `Migrations`, `CronSchedule`) and the stateful
commands (`DevSession`, `UpgradeCatalog`, `Upgrade`).

Proved, in this order: the two store contracts, the shutdown of the in-memory queue, the
request path, the broker, the transfers, the persistent queue, the life cycles (runtime,
application, session, container), the refinements of the SQL and Redis stores, the persistent
scheduler and the one in memory, the refinements of the file stores with their replay, the rate
limiter, the migrations, the upgrade with the order of its versions, and the cron search
(section 5).

Next, the most important first:

1. The Flutter sidecar client across restarts of its process, composed with `Server`.
2. A proof of the plan's shortest chain (`PlanIsSound`) for every catalog, from the order of
   versions that is proved already.

## 3. Modules and code

Every module that models code has, in `PROJECT.json`, the source lines of each of its
definitions. Definitions whose comment begins with "Mutant" are wrong on purpose: each
is the variant of a definition after it that a plausible mistake would produce, and
the property named in `PROJECT.json` fails when it takes that definition's place.

| Module | Code | State | Actions |
|---|---|---|---|
| `JobStore` | `job_store.go` | `record` per job; history: reservations granted | one per operation of the interface, atomic, with the caller's clock reading as an argument |
| `FileJobStore` | `file_job_store.go` | map in memory, `log`, the operation being appended | operation = change of the map after its append; a crash leaves nothing, part or all of the line; `Open` replays with `applyEvent` |
| `SQLJobStore` | `sql_job_store.go` | rows; per caller the row it selected | one per SQL statement |
| `RedisJobStore` | `redis_job_store.go` | two hashes, three sorted sets | one per Lua script |
| `SchedulerStore`, `File`/`SQL`/`RedisSchedulerStore` | `scheduler_store.go` and its implementations | next occurrence and lease per task | as above; Redis cuts times to its `Resolution` |
| `JobQueue` | `jobs.go`, `jobs_delayed.go` | channels `ready`, `scheduled`, slots, heap, workers, dispatch and Shutdown calls | one per step between two channel operations or critical sections |
| `PersistentJobQueue` | `jobs_persistent.go`, `jobs.go` | the contract's state, workers of several processes, wake tokens | `JobStore`'s operations from the workers' loop; crash, restart, lost answers |
| `PersistentScheduler` | `scheduler_persistent.go`, `scheduler.go` | the contract's state, loops of several processes | start, initialisation task by task, sleep, reserve, run, plan, complete, with each clock reading and each store call a step of its own; crash, failed or slow start, lost answers |
| `Scheduler` | `scheduler.go`, `scheduler_dynamic.go` | registered tasks, handles with interval, revision, trigger and wake signal | registration, Start, StartTask, handle operations, the sections of each loop, Shutdown |
| `Server` | `server.go`, `stream.go`, `router.go` | registry, job channel, requests, stream windows, encoder | one per branch of the scanning loop; the steps of a worker; credits one by one |
| `Subscription` | `subscription.go`, `subscription_buffer.go`, `rpc_subscription.dart` | buffer, producer, wire, client loop | publish, the passes of `Next`, heartbeats, lost connections, reconnection, pause, restart of the process |
| `EmbeddedRuntime` | `embedded_runtime.go`, `stream.go`, `router.go` | requests, their goroutines, Close calls | call, stream, pull, cancel, Close and `finishClose` |
| `Application` | `application.go` | providers and how far each got, shutdown calls, time | Register, Boot, Shutdown, one step per provider |
| `EmbeddedApplication` | `mobilebridge/runtime.go`, `app/application.go` | the two above | the runtime's shutdown callback is `Application.Shutdown` |
| `FileTransferStore` | `file_transfer.go` | entries, the files on disk, the step each call is in, Close, time | one per critical section, and one per file operation between two of them; each may fail where the code handles an error |
| `FileTransferHTTPHandler` | `file_transfer_http_handler.go`, `server.go`, `mobilebridge/runtime.go` | the store's, and what clients were told is gone | which call each request makes and the status it is answered with |
| `ResourceBroker` | `resource_broker.go`, `server.go`, `mobilebridge/runtime.go` | leases, pending grants, Close, the state of each native lease | the sections of Grant, Release and Close, the resolver between them |
| `Container` | `container.go` | bindings, published values, each thread's stack of factories | register, resolve, enter and leave a factory, fail |
| `RateLimiter` | `rate_limiter.go`, `http_rate_limit.go` | buckets, handlers between clock and mutex | read the clock; decide, with refill, pruning and RetryAfter, each rounded within `Error` |
| `Migrations` | `migrations.go`, `migration_store.go`, `database.go` | definitions, ledger, schema, callers | Register; Migrate and Rollback one statement at a time; crash and restart |
| `CronSchedule` | `scheduler_cron.go` | the expression, the location, the candidate of the search | one per branch of the loop of `next`; the jumps go through `time.Date` (`Date`) in the location |
| `UpgradeCatalog` | `cmd/bridra/upgrade_catalog.go`, `upgrade_requirements.go`, `semantic_version.go` | none: operators | order of versions, the registered releases and migrations, the search for a path, the plan |
| `Upgrade` | `cmd/bridra/upgrade.go`, `upgrade_apply.go` | the managed files, snapshots, the phase of `--apply`, the report | plan; each write, process and restoration, which may fail; a lock file that a process writes after its timeout; a kill; changes by hand |
| `DevSession` | `cmd/bridra/dev.go`, `dev_watch.go`, `dev_process_unix.go` | sources, watcher, executables, children, the supervisor | edits, polls, builds, starts, exits, stops, interrupts |

`JobStore` and `SchedulerStore` are the abstract specifications. The persistent queue
and the persistent scheduler are built on them, and each of the six implementations is
shown to implement its contract: `MCJobStores` and `MCSchedulerStores` run one of three
implementations per behaviour, derive the contract's `record` from that store's own
representation (for the file stores: what a restart would find), and check the contract's
`Spec` as a property.

Five MC modules gather components that do not interact: `MCPersistent`, `MCInProcess`,
`MCStreams`, `MCLifeCycles` and `MCServices` have a variable `subject`. Every behaviour is one component's, chosen in the first state;
the variables of the others stay as they began. The reachable states are thus the union
of the components' own, and a liveness property is an implication from the subject and
its fairness.

Abstractions that all modules share: payloads, names, error texts and reports are left
out; identifiers and tokens are model values; time is a small number that the reader of
a clock picks or that `Tick` advances. Random tokens are never repeated. Bounds such as
`MaxTime`, `MaxFaults`, `MaxLog` and `MaxEvents` are constants named in the modules and
stand in guards of the environment's actions only, or end a model long after the cases
of interest have occurred.

## 4. Runs

| Run | What it shows | Bounds |
|---|---|---|
| `job_stores` | Fencing on the stores' own states (`OneHolder`, `TakeoverAfterExpiry`); all three implement `JobStore`; replay agrees with the operations after a crash anywhere in an append (`RecoveryFaithful`); the update of the SQL loop takes the row that its select found until another caller changes that row (`MissMeansChanged`); the five Redis keys of a job agree (`KeysAgree`) | 2 jobs (a tie to break, and a neighbour that must not change), 3 tokens (a holder, a successor and one more), 2 callers, leases of 1, recovery batches of 1 for 2 expired jobs, 5 log lines, 1 crash |
| `scheduler_stores` | The same for scheduled tasks: leases of an occurrence stay apart, only the last claimant completes it (`FinishedByLast`), and all three implement `SchedulerStore`, the file store across a crash inside an append | 2 tasks, 3 tokens, 2 occurrences, time in half microseconds |
| `persistent` | *queue*: handlers stay within the attempt budget, overlap only after a lease ran out, jobs leave the store only when done, and settle. *scheduler*: two processes work on one occurrence only after a lease ran out; missed occurrences are skipped, not piled up, however late the plan for the next one reaches the store; every occurrence is completed | 2 processes with a worker each, 1 job, 2 attempts, 2 faults (crash, lost answer, shutdown), time for all attempts and leases; 2 processes, 1 task, 2 occurrences, leases of 2, 2 faults (a slow start or a lease that runs out is one), time for both occurrences and every plan |
| `in_process` | *queue*: no send on a closed channel, Shutdown ends, and a stopped queue has handled all it accepted. *scheduler*: a task never overlaps itself, even when its name is used again, and an outdated delay does not fire; a trigger leads to an invocation. *cron*: the search finds exactly the next occurrence, compared with a direct definition, also where the clocks change; two of the texts tried are refused | capacity 1, so that every channel gets full, a handler that dispatches, 2 delayed jobs for one slot, 2 Shutdown callers, 1 worker (the least that back pressure can stall), 2 attempts; 2 handles for one name, a registered task of that name, 1 change of the interval, time to 3; hours of 2 minutes, days of 3 hours, weeks of 3 days, months of different lengths, a search that reaches its end, from every fifth minute; 3 locations: west and east of Greenwich, each of which skips a midnight and later repeats an hour, and an island that changes sides of the date line and skips a day |
| `streams` | *server*: registry and live requests agree; credits are neither lost nor invented; frames leave in order with one completion; Serve returns after the end of the input. *subscription*: deliveries are gapless and in order or the client is told, and the client catches up | 2 requests with equal or different ids, 2 workers, a queue of 1 (both can be refused), windows of 2 for 3 frames; a buffer of 2 for 3 events, 2 epochs, 2 lost connections with a budget of 1, a window of 1 |
| `life_cycles` | *embedded*: requests run on booted providers only, frames are pulled in order, Close ends and reports success only when all were terminated, in reverse order. *container*: one value per singleton and per scope, none built from a scope it outlives; no threads wait for each other when no service needs itself. *session*: no child is left when the command returns, and no edit is lost | 1 request, 2 frames, 2 closers, 2 providers of which one ignores its context; 3 services in every lifetime, 2 threads, 1 scope; 2 edits (one of them during the rebuild of the other), either transport |
| `services` | *transfers*: files and entries account for each other and a transfer that was reported gone stays gone. *broker*: every lease is released exactly once and the limit holds. *limiter*: budget and RetryAfter are honest up to the rounding while no call is overtaken. *migrations*: the ledger is true and Rollback reverts the newest first. *upgrade*: reports are true of the disk, plans are shortest and skip nothing to be done by hand | 2 ids, 2 calls, files of up to 2 bytes, time for an expiry during a write; 3 threads for 2 leases; 2 keys, 2 handlers, room for 1 bucket, an error of a quarter of a tick's refill; 4 versions, one outside a transaction and one without Down, 2 callers, restarts with other definitions; patches beyond the targets for the resolver to take, 1 process that outlives its command; the installed catalog, and one with several paths and numbered prereleases |
| `job_stores_write_error`, `redis_scheduler_answer`, `server_anonymous_stream`, `container_cycle`, `cron_missing_midnight` | violated; see section 6 | the least that shows it |

Deadlock checking is off in every run: a stopped queue, a closed runtime or a log at its
bound really has nothing left to do. What must not get stuck is stated as liveness.

### Fairness

Weak fairness is given to what the Go runtime and the Dart event loop schedule: goroutines
with a step to take, timers whose time has come, the loops of workers. Handlers and tasks
are assumed to return (the queue gives them a context with a deadline; the code waits for
them without a limit of its own). In the models with several processes, a process that
went down is started again and time passes. Callers are under no obligation: nobody has
to dispatch, cancel, pull or close, and faults need not occur. In `EmbeddedApplication`
only the providers in `Honest` return from Terminate by the end of their context. The
client of `Subscription` gets strong fairness because the application may pause and
resume it for ever; Dart runs a resumed loop before the next gesture can pause it again
for good. A select with several ready cases is a free choice; in `DevSession` strong
fairness says that a change or an interrupt that is ready again and again is taken in the
end, as Go's random choice among ready cases does. `Container` needs weak fairness of
each resolving thread, one at a time: factories return. In `PersistentScheduler` time passes
by weak fairness although a slow start and a lease that runs out count as faults; the bound
on faults ends these. `CronFairSpec`, of the run that is violated, says that
the goroutine that searches is not stopped. The services, the upgrade and the stores are
checked for safety only and need no fairness.

## 5. Proofs

TLAPS checks the eight proof modules to the last leaf. Their theorems hold for every value
of the constants that satisfies the named assumption of the module that declares them
(`StoreAssumption`, `QueueAssumption`, `TransferAssumption` and so on, of which TLC
evaluates each on the run of its module). The assumptions say what the
constants are: bounds are natural numbers, the "none" values are not members of their
sets, leases, windows and capacities are positive. None bounds the number of jobs,
callers, processes, requests or threads. Where a component is one of several subjects of an
MC module, the theorem either speaks of the MC module's specification or names the
component's assumption as its hypothesis.

* `JobStoreProofs`. `OneHolder` is not inductive: that the stored token belongs to the
  last reservation only survives the next Reserve if its attempt number is greater than
  all before it. `IInv` therefore adds `AttemptOnce` and `NumbersBehind` (every
  reservation of the current generation lies behind the record's attempt count) to
  `TypeOK` and `OneHolder`. `StoreFencing` follows, and `LeaseTakeover` is the action
  property that a lease is only replaced after its deadline, on the replacing caller's
  clock. Clock readings are arbitrary: no theorem assumes that callers agree on the time.

  `SQLImplements` and `RedisImplements` show, statement by statement and script by script,
  that every step of the store is a step of the contract or leaves its variables alone. For
  SQL the invariant is that a call that has looked at the table is about a job; the
  condition of the update does the rest. For Redis it is `KeyInv`: where each of the five
  keys has a job, and with which score. It gives `KeysCorrect` as well, for which the
  lemmas `Least`, `FirstByTime` and `FirstMembers` say what the first members of a sorted
  set are: the batch that recovery takes back is all that has expired or is full, and when
  it is not full and nothing is ready, no job is eligible. `MissesExplained` is about the
  progress of the SQL loop: the lemmas `SelectMatches` and `UpdateSelected` say that the
  condition of the select implies the one of the update, which are written apart in the code,
  so a row stops matching only by a step that changes it.

  `FileImplements` is about a log of any length. What replay computes is a recursive
  function over the lines; `ReplayEnds`, `ReplaysAgree` and their companions derive, from the
  least number at which it could fail, that the function exists and that one more line is
  one more `applyEvent`. The invariant `FileInv` then says that replay of the log gives the
  contract's record, that an open store has the same in memory, and that what callers were
  told differs from it at most in the job of an interrupted operation (`FilePlaces`). It
  needs `HeldPending`, since replay accepts a lease on a pending job only, and
  `GrantedIssued`. `RecoveryCorrect` and, with the two other stores, `StoresImplement` follow. The
  hypothesis `WriteErrors = FALSE` is the one the finding of section 6 is about: under it
  `NoOtherLoss` shows that acknowledged jobs survive, and without it TLC shows that
  they may not.
* `SchedulerStoreProofs`. `IInv` joins `TypeOK`, `OneClaimant`, `LeasesDisjoint`,
  `FinishedByLast` and `ClaimsBehind` (earlier claims of the occurrence end before the
  current one begins, and finished rounds lie behind). `ClaimsApart` and
  `CompletionFenced` follow. `SQLSchedulerImplements`, `RedisSchedulerImplements` and
  `FileSchedulerImplements` are the refinements, joined in `SchedulerStoresImplement`; the
  file store's replay is treated as that of the jobs. The Redis store cuts the caller's clock to its resolution, so the
  step it takes is one of the contract at the cut time (`MicroTimes`).
* `InProcessProofs`. `NoSendOnClosed` needs the order in which Shutdown brings the queue
  down: `ShutdownOrder` relates the queue's state, the open dispatch calls, the stop
  signal, the scheduler, the finisher and the workers. `ShutdownSafe` gives
  `NoSendOnClosed` and `ReturnedMeansStopped` for any number of jobs, workers and callers.

  For the scheduler in memory, `InvocationsApart` has two halves with an invariant each. That
  invocations under one name do not overlap needs `OwnersNamed` and `NamesApart`: a
  handle whose runner is between its start and the deletion owns its name, and a name has
  one owner. That a delay is waited for in full needs `DelayInv`: unless the interval
  changed after the runner read it, what the runner has read is the current interval, its
  timer is set no earlier than the whole delay, and a timer that fired was due. `SetInterval`
  falsifies the premise and the runner notices before it invokes.

  The cron search is proved for every expression that parses, every calendar (any lengths of
  hours, days, weeks, years and of the months one by one, the Gregorian calendar included)
  and every location with the properties of `ZoneOK` below. The days before a month (a
  recursive function) exist and grow, so every minute lies in exactly one month (`MonthFound`,
  `MonthUnique`). `FieldAgrees`, `FoldedAgrees` and `OccursIs` show that the sets the parser
  builds, the Sunday of two names included, say the same as the direct reading `Occurs` of the
  items. `DateOfMidnight` says what `time.Date` makes of a midnight: the instant that shows it,
  or, when none does, one next to the gap. `MonthEnclosed` and `DayEnclosed` say that the wall
  times between the candidate and that midnight are of the same month or day, `SameHour` that
  those up to the next hour are of the same hour; so a jump passes over no occurrence whose
  wall time does not come again (`JumpKeeps`, `SearchKeeps`). `CronIInv` adds the limits of the search to
  `NextOccurrence`. `SearchAdvances` says that each turn advances unless the midnight it jumps
  to is left out by the clocks, and none begins beyond the limit: the finding
  `cron_missing_midnight` is the only way for the loop not to end.

  `ZoneOK` asks of a location that offsets are below a day; that six days see one change at
  the most; that no change falls within an hour of the wall clock; that no change sets a
  midnight back before itself; and that one which leaves a midnight out begins its gap there
  and leaves out one day at the most. The usual changes keep this, those of Santiago,
  Havana and Beirut among them, and so does Apia's skipped day of 2011. Past rules that do not: St John's
  until 2011 (clocks set back at 00:01), Toronto in 1919 (a gap from 23:30 to 00:30). In a
  repeated hour the code runs an occurrence at each of the two instants or at one of them,
  as the candidate comes to lie; the property asks for no more than that none is lost.
* `PersistentJobQueueProofs`. The store's fencing is about tokens, the promise of the queue
  about handlers. What connects them is `HeldInv`: until its lease runs out, a worker that
  works on a reservation has its token in the store. It needs `SeenBehind`
  (workers reserve with readings of a clock that does not go back) and `HeldApart` (no two
  workers hold one reservation, across crashes and lost answers). `DeliveriesCorrect` and
  `NoJobLost` follow.
* `PersistentSchedulerProofs`. The same step from claims to loops: `RunInv` says that until
  its lease runs out a loop with its task or its completion has the claim that the store has,
  `HeldApart` that no two loops work under one claim, `ClaimsPast` that no claim was made before
  its occurrence or in the future, `SeenBehind` that no loop works with a reading from the future.
  The clock is read before the store is called, so a plan may have come due when it is stored;
  what remains true is that it lies after the end of the run it follows. `PlanInv` says so of
  the plans under way, `ReturnInv` of the stored occurrence. `OccurrencesCorrect` follows for any
  number of tasks, processes and crashes, with its action property that the stored occurrence
  never goes back.
* `ServerProofs`. For the server, `RegistryInv` adds to `RegistryAgrees` where a request
  between registration and its worker is; `CreditsInv` adds to `CreditsConserved` which
  number the producer's frame has at each stage; `FramesInv` adds how many frames are out.
  For the subscription the frames under way must be part of the invariant: `WireInv` says
  that they continue one by one from the client's cursor to the producer's, `BufferInv`
  that the buffer holds the last events, so that the producer's next item joins on.
  `EventsCorrect` also says that the client never takes a correct server for a broken one.
* `ServiceProofs`. Broker: `OnePlace` puts every native lease that is held in one place: with
  the thread that resolved it, in the table, or with a thread that gives it back.
  `CountsAgree` ties the counter of pending grants to the threads that are granting, by
  cardinality; `CloseOrder` says what Close has seen. Transfers: `IdInv` says for one id what
  entry, file and every call under way on it know of each other; `OneCall` that at most one
  of these calls may touch the file. Calls on other ids do not disturb it, so each
  operation is proved for its own id.

  Limiter: what the code computes in float64 is any number within `Error` of the exact one, and
  three errors are at most what a nanosecond refills (`LimiterAssumption`); with 53 bits that
  holds for windows of up to about eleven days. That no key exceeds its budget, an error per
  nanosecond included, between any two of its requests needs to know what its bucket still
  owes (`Covers`) and, when the bucket was pruned or evicted, that by the time
  at which a new one can be made all would have been refilled (`Recovered`, `NotBefore`);
  `Honest` says what a RetryAfter that was given out finds: at that time the token is full, or
  lacks less than a nanosecond's refill, and the second time it is full. Migrations: `Chronological` ties
  the order of application to the batches and versions of the ledger, `GoingUp` and
  `GoingDown` say what a task under way has left to do, and one task is under way at a time.
  Upgrade: `Written` and `Run` say which files are at the target in each phase, and while it restores, that
  every file not left to do is as it was, unless a stray process wrote the lock file meanwhile;
  `UpgradeHonest` follows for any catalog and any published versions.
  `VersionsOrdered` proves that the comparison of semantic versions, prereleases of any
  length included, is a strict total order, on the first identifier that differs.
* `LifeCycleProofs`. Frames: what a stream offers and what was pulled differ by at most
  the frame in the channel (`OfferInv`, `EndInv`). Application: `TerminationInv` says that
  the loop has terminated exactly what it passed; with `OrderInv` (the callback runs after
  the last request) and `CloseInv` it gives `ProvidersFound` and `CloseTruthful`. Session:
  `ChildrenInv` says who can be alive at each place of the supervisor. Container: `StackInv` and
  `ApartInv` say that a factory on some stack is of a value that does not exist and that
  no other thread makes; `SharedOnceWithinScope` alone would not survive its own publication.

Some definitions were changed because of the proofs. `FileTransferStore` had `CASE`
expressions with arms that overlap, which TLC reads in order and TLA+ leaves open; they are
`IF` expressions in the order of the code's returns. `Application` filtered the providers
to terminate into a sequence; `remaining` is now the set of the indices ahead of the loop, of
which the highest is next. Likewise the versions a migration task has left are a set, of
which the least (up) or greatest (down) is next. The upgrade restored its snapshots in a
fixed order, where the code ranges over a Go map: it now takes them in any order.
The search of `UpgradeCatalog` was a RECURSIVE operator, with which TLAPS proves nothing in the
modules above it; it is a recursive function over the rounds of the loop.
`MissMeansChanged` was an invariant; it is now a property of steps, about the rows themselves.
`CronSchedule` took texts that the parser refuses, some of which (weekdays beyond the last)
made `NextOccurrence` false; `Parses` now states the refusals. The clauses of `ZoneOK` are
what the proof of its jumps through `time.Date` needs.

Only model-checked:

* every liveness property: fairness and `ENABLED` are out of the prover's reach;
* `PlanIsSound`: that a breadth-first search finds a shortest chain is an induction over
  the paths of a catalog, and its loops go through releases and migrations in sorted
  sequences, whose existence for every finite set is an induction, too. TLC checks it for the
  catalog that the release installs, which is the one the command runs with, and for one with
  several paths. The order of versions that it relies on is proved.

## 6. Findings

* `job_stores_write_error`. `FileJobStore.append` returns the error of a write or a sync
  and leaves the bytes in the file. The next append continues the same line, or repeats an
  event that replay refuses; after a restart the log counts as corrupt and acknowledged jobs
  are unavailable, against `src/docs/GUIDE.md:1798`. The same append is in
  `file_scheduler_store.go`.
* `redis_scheduler_answer`. `RedisSchedulerStore.Reserve` compares the deadline from Redis,
  in microseconds, with the caller's, which is finer; with a clock that reads between two
  microseconds the script has assigned the occurrence and the caller gets an error.
* `server_anonymous_stream`. A streaming request without an id is not in the registry, so
  neither acknowledgements nor the end of the input reach it: Serve does not return. The
  `RequireRequestID` middleware, where it is installed, rules the case out.
* `container_cycle`. The stack on which a resolution looks for cycles is its own thread's,
  while a singleton's mutex is held through its factory (`container.go:378`). Two threads
  that begin a cycle at different ends wait for each other's mutex for ever, against
  `src/docs/ARCHITECTURE.md:326`, by which resolution stacks reject circular dependencies.
* `cron_missing_midnight`. The search leaves a day or a month with `time.Date` at the next
  midnight (`scheduler_cron.go:238`, `:251`). Where the clocks go forward at midnight in a zone
  west of Greenwich (America/Santiago, America/Havana), Go returns 23:00 of the day before, the
  day does not match again, and the loop repeats that turn for ever: `0 9 * * MON` searched
  across such a Saturday never returns. `src/docs/ARCHITECTURE.md:488` says that cron loops
  calculate their next occurrence in the configured time zone. East of Greenwich the
  result lies after the gap and the search goes on.

Observations without a run, which the models contain as behaviour:

* An attempt is counted when a job is reserved (`jobs_persistent.go:92` compares it with
  the limit). A process that stops between Reserve and the handler's call uses up an
  attempt; with `MaxAttempts = 1` such a job fails without one delivery, which the "at
  least once" of `src/docs/GUIDE.md:1892` does not say.
* `bridra dev` asks for signals only where it supervises (`cmd/bridra/dev.go:701`, `:780`,
  `:914`). An interrupt during the first readiness wait of an HTTP session ends the
  command alone; the backend, in a process group of its own, stays, although
  `src/docs/GUIDE.md:565` promises shutdown to every managed process tree. The property
  `NoChildOutlivesSession` is about commands that return.
* `RateLimiter.Allow` reads the clock before it takes the mutex (`rate_limiter.go:114`). A
  call that is overtaken there sets the bucket's time back, so that the next one refills
  the same span again. `BudgetHonest` is stated for behaviours in which no call is overtaken.
* Refill and RetryAfter are rounded (`rate_limiter.go:134-151`). With one request per 161 ns
  a client that comes back after the 161 ns it was told finds 161 times the rounded 1/161, which
  is below one token, and is refused once more, for a nanosecond.
* A scheduled task's next run is planned from a clock reading that precedes the store call
  (`scheduler_persistent.go:96`, and `:13` at a start). If the call takes longer than the
  delay, the occurrence is stored when it is due already, and runs at once.
* `--apply` writes `^target` into `pubspec.yaml` (`cmd/bridra/upgrade_apply.go:265`), so
  `flutter pub get` may lock a later patch than the target: the message of
  `upgrade_apply.go:171`, by which the lock files are updated "to Bridra" of the target version,
  and `--apply --to 0.24.0` of `src/docs/UPGRADING.md:133` name the least version that is locked.
* The timeout of a process kills that process alone (`upgrade_apply.go:48`). What `fvm` or
  `make` had started may go on and write `pubspec.lock` after the rollback, although
  `src/docs/UPGRADING.md:526` says that a failure restores every snapshot.
* An upgrade that is killed after `project.json` was written and before `go.mod` was
  leaves metadata that names the target: the next plan says that the project is current.

## 7. Not modelled

The Flutter sidecar client, which is on the plan. Beyond it: configuration,
validation, routing tables, middleware, authentication and HTTP handling (tables built
before the first request, and formatting); database pools (a library's); code generation,
scaffolding and release tools (text and files); the native runners and the example
application (user interface). In the modelled parts: panics of handlers count as failures,
nil arguments and option checks are preconditions, listings that change nothing are left
out, and the server's upload and resource methods are actions of the stores' models and unary
handlers in `Server`. Rate budgets are rounded within a bound, not bit by bit. The cron model
has no names of months and days, and the locations it does not cover are named in section 5.
The failing append of `file_scheduler_store.go:369-374` is examined on `FileJobStore`. Several
processes that migrate one database at once are outside, as `src/docs/ARCHITECTURE.md:379`
says of the runner. The development session is that of Unix process groups, and the
chunks in which the mobile bridge hands a download to its host are left out.
