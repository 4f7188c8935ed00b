# TLA+ models of kube-trigger

kube-trigger watches Kubernetes resources and schedules, filters the events it
sees, and runs actions for them. This directory holds TLA+ modules for its
queues, its executor, its sources, the life of its processes and the reconciler
that deploys them, TLC configurations that check them on small instances, and
proofs for TLAPS. `PROJECT.json` lists components, runs, mutants, the lines every
definition models, findings, hazards and theorems.

    tlc -config WorkQueue.cfg WorkQueue
    tlapm WorkQueueProofs.tla

## The system

| part | state | operations | interacts with |
|---|---|---|---|
| work queue (`pkg/workqueue/queue.go`) | queue, dirty, processing, shuttingDown, drain, a condition variable | Add, Get, Done, ShutDown, ShutDownWithDrain | workers, producers, metrics |
| queue metrics (`metrics.go`) | depth, addTimes, processingStartTimes | add, get, done | called under the queue's lock |
| delaying queue (`delaying_queue.go`) | channel, heap, stopCh | AddAfter, waitingLoop, ShutDown | wraps a work queue |
| rate limiters (`default_rate_limiters.go`, `rate_limiting_queue.go`) | failures per item, token bucket | When, Forget, NumRequeues, AddRateLimited | wraps a delaying queue |
| indexed delaying queue (`indexer_delaying_queue.go`) | knownPrepareEntries, processingEntries, queue, dirty, channel, heap, two condition variables | Add, AddAfter, waitingLoop, push, Get, Done, both shutdowns | producers, workers |
| parallelizer (`parallelizer.go`) | channel of chunks | ParallelizeUntil | a context |
| executor (`pkg/executor`) | rate-limited queue of jobs, runningJobs, wait group | AddJob, runJob, RunJobs | event handlers, actions, context |
| event handler, filter, action | none of their own | one call per event: filter, make a job, AddJob | sources, executor |
| resource controller and watcher (`k8sresourcewatcher`) | informer, rate-limited queue, configs by key, start time | informer callbacks, processNextItem, Init, Run | event handlers, one controller per cluster |
| cron source | cron runner | Init, Run | event handlers |
| command and runner (`pkg/cmd`) | sources by type, errChan, once | run, Start, leader election, runCli | everything above |
| TriggerService reconciler (`controllers/triggerservice`) | none; objects of the API server | Reconcile | API server, worker pods |

The manager turns a TriggerService into a config map and a worker deployment. A
worker process reads its configuration, merges its triggers into sources and runs
them, as leader if it is told to elect one. An event travels from a source
through an event handler into the executor's queue; a worker goroutine takes the
job, runs its CUE template and decides on a retry.

What makes these parts hard: a condition variable shared by two kinds of
sleepers, helpers that lock and unlock one after the other, checks followed by
uses (length and add, status and store), entries in a heap that outlive what
they stand for, one counter for two kinds of retries, a start time shared by all
controllers, configs merged in the order they come, leases that run out while
their holder still works, and shutdowns that cross running work. `PROJECT.json`
lists these hazards with their lines.

## Modules

| module | models | checked by |
|---|---|---|
| `QueueMetrics` | `metrics.go`, as operators the queues use | the runs of both queues |
| `StingyQueue` | the abstract promise of both queues: pending, active, closed | refined by `WorkQueue` and `IndexerDelayingQueue`, used by `DelayingQueue` |
| `WorkQueue` | `queue.go` | `WorkQueue.cfg`, `WorkQueueProofs` |
| `RateLimiters` | `default_rate_limiters.go`, as operators `DelayingQueue` uses | the runs of `DelayingQueue`, `DelayingQueueProofs` |
| `DelayingQueue` | `delaying_queue.go`, `rate_limiting_queue.go`, the workers of the resource controller | `MCDelayingQueue`, `DelayingQueueLiveness.cfg`, `DelayingQueueProofs` |
| `RetryHistory` | nothing more: `DelayingQueue` with a record of how long a failed item has to wait | `MCRetryHistory`, `DelayingQueueSafety.cfg`, `DelayingQueueProofs` |
| `IndexerDelayingQueue` | `indexer_delaying_queue.go`, `insert` of `delaying_queue.go` | `MCIndexerDelayingQueue`, `Indexer*.cfg`, `IndexerDelayingQueueProofs` |
| `Parallelizer` | `parallelizer.go` | `Parallelizer.cfg`, `ParallelizerProofs` |
| `Executor` | `executor.go` | `MCExecutor`, `Executor*.cfg`, `ExecutorProofs` |
| `Sources` | from configuration to running sources: `cmd.go`, `config`, `registry`, the set-up of both sources | the runs and proofs of `ResourceWatcher`, which extends it |
| `ResourceWatcher` | the resource controllers and their event handlers, over `Sources` | `MCResourceWatcher`, `ResourceWatcher.cfg`, `SourcesCron.cfg`, `ResourceWatcherProofs` |
| `Runner` | processes, flags, leader election, errors and signals: `cmd.go` | `MCRunner`, `Runner.cfg`, `RunnerProofs` |
| `TriggerService` | `triggerservice_controller.go` | `MCTriggerService`, `TriggerService.cfg`, `TriggerServiceProofs` |

Definitions named `X_Something` above a definition `X` are mutants: what `X`
would be with a plausible mistake. They take part in no specification; each one
makes one property of a run fail when it replaces `X`.

### WorkQueue

Every critical section of `cond.L` is one action, so that the calls a method
makes with the lock released in between (`setDrain`, `shutdown`,
`isProcessing`, `shouldDrain`, `waitForProcessing`) are separate steps. `waiting`
is the set of goroutines inside `cond.Wait`; `Signal` removes any one of them,
`Broadcast` all. `pc` says where a goroutine is between critical sections. Workers
loop on Get and Done as every user of the queue does; Add is called by anyone.
The variables `queue`, `dirty`, `processing`, `shuttingDown` and `drain` are the
fields of `Type`. The metrics are those of a named queue with a provider. `Len`
and `ShuttingDown` only read, and `updateUnfinishedWorkLoop` only reports.

### DelayingQueue and RateLimiters

The wrapped queue is `StingyQueue`: what `WorkQueue` is proved to implement is
all the delaying queue relies on. Time is relative. An entry of the channel
(`ch`) or of the heap (`known`, `left`, which stand for the priority queue and
`waitingEntryByData`) has the ticks left until it is due, and all that is overdue
is alike, so no clock has to be bounded. `waitingLoop` is split where it reads the
clock, adds ready entries one by one, selects, and drains the channel; `lag` lets
time pass once between the reading and the adding. AddAfter is split into its
tests, the direct Add and the send, which a full channel blocks. Workers take an
item, and either forget it or add it again with the delay their limiter returns,
up to `MaxRetries` times, as `processNextItem` does. The exponential delay is
computed beyond the width of a duration and converted back, so the cap is tested
at the edge. `promise` is a history variable: the earliest time an item was
accepted for and not added at yet. `RetryHistory` adds another, `retryIn`: what is
left of the wait the limiter asked for when an item failed. It follows the steps of
the queue without restricting them, and is given up when another caller asks for the
item, because then the item may come earlier.

### IndexerDelayingQueue

As for the work queue, one action per critical section; in addition the reading
of the clock in AddAfter, the decision between a direct push and the channel, and
the send are steps, because the clock and the other goroutines move in between.
`heap` stands for the priority queue together with `waitingEntryByData`: a
function from keys to times. A receive of waitingLoop together with what it does
to the received entry is one action, as is the pop of an entry and its push; what
lies between touches only the loop's own variables. The heartbeat is `LoopTimer`,
left out where it would only go round the loop. Items are a key and a version,
compared by `LessOrEqual`; `Compared = FALSE` stands for items that do not
implement the interface.

### Parallelizer

One call of ParallelizeUntil with any pieces, chunk size and workers up to the
bounds. The channel of chunks is filled and closed before anyone receives, so
`next` is all of its state. A goroutine receives a chunk, looks at the context
before each piece and works on it. `begun` and `finished` count.

### Executor

The positions of a worker are the points of `runJob` where another goroutine's
step can matter: before the check of the context, in Get, before the check of the
running status, before it is set, during the run, after it, before Done. A job's
run returns with or without an error, and its context is live, past its deadline
or cancelled. `RunJobs` and the goroutine that calls `ShutDownWithDrain` have
positions of their own. The queue is client-go's typed queue, which is not part of
the repository: `QueueAdd`, `QueueAddRateLimited`, `QueueForget`,
`QueueDelayOver` and `QueueDone` say what the executor relies on. `runs`,
`outcome` and `latePicks` are history variables. `allowRetries` is
`RetryJobAfterFailure`, either way; the command leaves it off.

### Sources and ResourceWatcher

`Sources` is `run` up to `RunJobs`: the files of the configuration are loaded and
validated, the triggers initialized one by one into `configs` and `handlers` of
the one watcher instance or into the one cronjob instance kept per type, and the
instances run. An environment is a directory of files, the way clients are made,
and the clusters that have credentials. A trigger stands for what decides its
way: source, key, events, clusters, whether its properties parse and its action
exists.

`ResourceWatcher` adds the controllers that were started, the objects of a
cluster, and the process, which may stop, crash and be started again. A controller is
a key, a cluster and a place in the list of clusters: `Run` starts one for each place
(`k8s_resource_watcher.go:140`), so a cluster that is named twice has two, each with
its own informer and queue, which both watch the same objects. An informer
(client-go) lists, watches, and lists again after a watch that expired; the order
of a list (`Listing`) is any fixed one, and no proof depends on it. Its
callbacks append to `queue`; the worker takes an event, filters it by type and by
`serverStartTime`, and calls the handlers one after the other. A handler's three
ways to fail (its filter drops the event, the job cannot be made, the executor is
full) are choices and are only logged. The clock counts half seconds because the
creation timestamp is cut to whole ones and the start time is not.
`Start` is modelled while the context is not done. Objects are known by their UID;
an object that is deleted and created again under its name while a watch is expired
is another object here, where client-go would report an update. `creates`, `last`
(what each controller told each trigger of each object) and `startedAt` are history
variables.

### Runner

Replicas of one or several versions are launched again whenever they end. `elector`
is client-go's leader election, `main` how far `run` got, `busy` that an action is
running, `age` the time since the lease of a version was renewed. `option` says
what the executor's flags hold: validate is called before they are parsed, so it
passes for all of them. `executor.New` refuses a zero for the size of the queue, the
workers, the delay of retries, the rate or the timeout (`executor.go:79`), a negative
number of workers panics in `wg.Add`, and a maximum of zero retries and all other
negative numbers are not looked at. `errChan` is unbuffered: a `run` that failed and an
elector that lost are blocked senders, the positions `failed` and `lost`, and
`RunnerErr` is runCli receiving from either of them, once. `Ends` takes an ending
process with all its goroutines.

### TriggerService

Reconcile is split at its calls of the API server; `pass` holds its position and
what it read of the service. The API server, its garbage collector, the controllers
that start pods, users, and the informers behind the manager's cached client
(`mgr.GetClient()`) are external and act between any two calls. The cache is
explicit where an outdated read changes what the pass does (the service, the
deployments, the pods, the account). Config maps and the binding are written with
a version check, so there an outdated read is a failed write. Every write of a
service gets the next generation; specs and UIDs are generations, which tells a
service from its predecessor of the same name. `Fail` is any failing call,
`AccountUnknown` the one failure that `createRoles` drops: the pass goes on to the
binding without an account. `Crash` is a restart of the manager, which lists
everything anew, and the list is assumed to be current. One manager runs and it reconciles one
service at a time, as `main.go` and `SetupWithManager` configure it. A pod needs
its service account and mounts the config map, as the worker's template
(`config/definition/default.yaml`) says; pods are collected in one step with their
deployment. `interrupted` is a history variable.

## Runs

| run | what it shows | instance |
|---|---|---|
| `workqueue` | the metrics agree with the queue; no lost wake-up; implements `StingyQueue`; added items are delivered; the drain ends | 3 items, 3 workers, 1 drainer, 1 stopper |
| `executor` | no job lost, retries bounded, status not stale; if jobs return, accepted jobs are decided and workers exit; RunJobs returns although jobs hang | 2 jobs of 1 action, 2 workers, 1 retry, retries on and off |
| `indexer_safety` | index, queue and workers agree; nothing early; no older version behind a newer one; implements `StingyQueue` | 1 key, 2 versions, delays 1 and 2, 2 adders, 2 workers, 3 calls, 2 ticks |
| `indexer_liveness` | overshoot of the capacity bounded by the adders; with Add only, keys reach a worker and, if no key function fails, blocked adders go on; ShutDownWithDrain returns, racing ShutDown | 2 keys, capacity 1, no delays, 2 adders, 1 worker, 3 calls |
| `delayingqueue_safety` | a failed item is never lost, and is not in the queue again before its backoff unless somebody else asks for it; the earliest promised time is kept; the backoff is what the limiters document | 1 item, 1 retrying worker, 1 caller, all three limiters, up to 4 retries |
| `delayingqueue_liveness` | what AddAfter accepted is added; callers at a full channel go on; the loop ends after either shutdown | 1 item, 1 worker, 1 caller, a channel of 1 |
| `resourcewatcher` | the watcher holds and starts what the triggers as a whole ask for; no creation from before a controller's start; from each controller creations once and events in order, across expired watches and restarts; new objects are reported by every controller to every handler | 10 environments, 2 keys, 2 clusters, one of them named twice, 1 object, 2 starts |
| `runner` | one active process per version; work goes on after every fault | 2 replicas of one version, 1 of another, 3 faults |
| `parallelizer` | no piece twice; a call that returned left nothing running, and nothing undone unless cancelled | all calls with up to 5 pieces, chunks of 3, 3 workers |
| `triggerservice` | a worker lacks its binding only after a pass was cut short; a config map never gets an older spec; where the account is installed, the service is served with its current spec again and again | 1 service written twice, with deletions, 1 fault |

Two further runs are expected to fail: each states what a comment of the
repository says and shows a behaviour of the code that differs.

| run | the comment | the behaviour |
|---|---|---|
| `executor_concurrent` | no concurrent runs (`executor.go:179`) | check and store are two steps |
| `sources_cron` | a source that is no singleton has an instance of its own (`source/types/types.go:49`) | instances are kept by type: of two cronjobs the second one is run (`cmd.go:224`) |

### What the models show besides

The following behaviours are in the models; no run states them.

* Work queue: a ShutDown between `shouldDrain` and `waitForProcessing` is missed by
  the drain it is said to force to an end (`queue.go:210`); of two callers of
  ShutDownWithDrain only one is woken by the last Done (`queue.go:193`); the drain
  looks at the processing set and not at the queue, although its comment speaks of
  all existing items (`queue.go:205`).
* Delaying queue: ShutDownWithDrain does not close `stopCh`, so that an AddAfter that
  passed the test of the shutdown and finds the channel full blocks for ever
  (`delaying_queue.go:181`), which `CallersGoOn` excepts. The exponential backoff of
  exactly 2^63 passes the comparison with the largest duration as a float and does
  not fit one; `BackoffRespected` excepts it, and only a base delay that is a power
  of two nanoseconds reaches it.
* Indexed queue: a heap entry left over by a key that was delivered in the meantime
  keeps its earlier time and swallows the later one (`delaying_queue.go:277`,
  `indexer_delaying_queue.go:341`), so that with AddAfter a key that was added may
  never reach a worker: `KnownDelivered` speaks of programs that call Add only. One
  addCond.Signal is sent for each Done; an adder that is woken by it and whose key
  function then fails leaves without adding, and another adder sleeps on until
  another Done (`indexer_delaying_queue.go:406`): `AddersGoOn` speaks of key functions
  that do not fail. The depth gauge counts an item in AddAfter and in push and never counts it
  back (`indexer_delaying_queue.go:349`).
* Executor: a job that met a running one is dropped after MaxJobRetries conflicts,
  without having run (`executor.go:180`); the queue may exceed its size, because the
  length is read before the job is added (`executor.go:151`); a job that failed and
  is not retried is not forgotten (`executor.go:209`), which `FailuresForgotten`
  excepts; a job that AddJob adds after the queue was shut down, and one whose delay
  ends after that, is reported accepted and never run (`executor.go:156`), and
  `JobsAccountedFor` speaks of the time before.
* Sources: triggers that share a key hear of the events any of them asks for; the
  clusters of the later ones are dropped; and one that names no events, which means
  all, loses those the other does not name. A cluster that is named twice starts two
  controllers (`k8s_resource_watcher.go:140`), and every action for one of its events
  is run twice. At a cluster without a client `Run` returns, and which of the other
  controllers were started by then depends on the order of the configs
  (`k8s_resource_watcher.go:141`). A deletion missed by an expired watch
  arrives as a tombstone and ends the process (`controller.go:149`).
* Runner: leases are named after the version, so two versions may be active at
  once; a SIGTERM does not wait for the drain of the executor; a RetryDelay of zero
  passes validate and is refused by the executor; a zero or negative number of
  retries and negative sizes and times pass both.
* Parallelizer: a call with pieces and no workers returns with nothing done; the
  model has at least one worker.
* Reconciler: in namespaces where the account is not installed there are three ways
  to leave a service without a worker, which is why `Served` speaks of installed
  accounts: an account left by a pass that was cut short is never bound
  (`triggerservice_controller.go:163`, against `config/manager/trigger-role.yaml:14`); an error of
  the Get at line 154 is dropped; and the account is owned by, and collected with,
  one of the services that use it (line 162). Two services with one name in two
  namespaces share one worker (line 95), and a service that is gone is retried for
  ever (line 77).

Seen in the code and not modelled: `Len` of the delaying queue reads the heap
without a lock (`delaying_queue.go:98`); the controller's Run does not return after
its stop channel is closed (`controller.go:183`); the help of a flag names
`cluster-gateway-kubeconfig` where the code knows `cluster-gateway-secret`
(`cmd.go:136`).

### Bounds

The work queue needs no bound: its state is finite for finite sets. Three workers
and three items let Signal meet several sleepers while others pass by.

The delaying queue's times are relative and end at `MaxDuration`, which stands for
2^63 - 1 and is small enough for a backoff to reach and pass it. `ChanCap` stands
for 1000; one is full at once. `MaxDebt` bounds what the token bucket may owe.
With one item a retry, a call of AddAfter and an Add meet in the channel, the heap
and the queue; items do not interact otherwise.

In the indexed queue `MaxTime` bounds the clock and `MaxCalls` the calls; two calls
for a key while a third is in the channel, and two different future times, are what
stale entries need, and `indexer_safety` has them. `Cap` and `ChanCap` stand for
128 and 1000. Symmetry is used in that run only, which checks no liveness.

The executor's failures are bounded by `MaxRetries`, which makes `runs` finite. Two
workers and two jobs with one ID produce conflicts, and a queue of one rejects.

For the watcher, `MaxTime` of three half seconds has an object created before, in
and after the second of a start; `MaxBacklog` keeps updates and expired watches
from filling the queues, creations and deletions are never held back; `MaxBoots`
allows one restart. `MaxTriggers` bounds the triggers of a configuration, and
`Controllers` are the places in lists of clusters that the environments ask for
(`TriggersAssumption`). The ten environments are two triggers of one key
with different events and clusters, a trigger with two clusters next to a cronjob, one
that names a cluster twice, a kind without a mapping after a trigger that does not
parse, the four ways to be refused, a cluster without credentials, and a getter that
has no client for any cluster.

`MaxFaults` of the runner bounds outages and signals, that of the reconciler failed
calls and crashes. A lease of four ticks and a deadline of two leave room for a
renewal, a loss and an exit between two ticks. `MaxGeneration` bounds what users
write: two writes are an edit, or a deletion and a new service of the same name.
The theorems are free of these sizes.

### Fairness

Weak fairness for the steps of goroutines that are inside a call: the Go
scheduler runs what is runnable, and its mutex does not starve a waiter. Time
passes and timers fire. Calls of the environment (Add, AddAfter, AddJob, ShutDown,
ShutDownWithDrain, the cancellation, changes of objects, signals) are never assumed.

* That workers call Done and that jobs return is not part of it: `FairSpec` of the
  work queue adds that workers call Done, and `JobsReturn` is the hypothesis of
  `JobsDecided` and `WorkersExit` but not of `ShutdownEnds`.
* Channels of Go serve blocked senders first in, first out, and a select chooses
  among ready cases at random: hence strong fairness for `Send` and `LoopReceive` of
  the delaying queue. `waitingLoop` empties the channel before it looks at the heap
  again, and callers that always refill it would keep it there; `Delivered` has
  `CallersPause`, that they do not, as its hypothesis.
* In the watcher each controller's start, its informer and its worker are goroutines
  that are scheduled, and the API server answers lists; nobody
  has to start a process that died, and `NewObjectsReported` ends with the process.
* Replicas of the runner are started again, outages end, and a lease that is free is
  taken. `Tick` holds two assumptions on time that `OneActive` needs: a leader that
  can renew does so and gives up at its deadline (`RenewsInTime`), and a process that
  lost its lease ends before the lease runs out (`ExitsInTime`). client-go documents
  the first for clocks of the same speed; the second is what `LeaseDuration` being
  longer than `RenewDeadline` is for, and nothing in the code enforces it: a process
  that took longer to end would overlap with its successor.
* The reconciler needs the periodic resynchronisation of controller-runtime (every
  ten hours unless configured, and it is not): it watches nothing but services, so
  what the garbage collector takes is only noticed then. Its queue is first in,
  first out, hence strong fairness for the start of a pass.

Deadlock is not checked where the system may come to rest: queues that nobody
calls or that are shut down, a process that is not started again, a call that
returned, a manager without services.

## Proofs

All theorems hold for every value of the constants that satisfies the assumptions
named in the modules. Each module proves that its invariant holds initially and
is kept by every action, and derives its properties from it.

`WorkQueueProofs`, from: workers, drainers and stoppers are disjoint, `NoItem` is
not an item, and there are finitely many workers.

* `Core` is the inductive invariant of the queue: the types, a worker holds an
  item exactly while it is at `work`, `QueueConsistent` and `OneWorkerPerItem`.
  The last two need each other: Done may append the dirty item only because no
  other worker holds it, and Get may hand out the head only because it is not in
  the processing set.
* `MetricsInv` adds that the dirty set is finite, so that its cardinality moves
  by one with the gauge. `TypeOK` follows: the gauge is never negative.
* `Sleep` relates the sleepers to their positions and to the phase.
* `NoLostWakeup` is inductive relative to `Core` and `Sleep`: queueing an item with
  a worker asleep wakes one, because before the shutdown only workers sleep
  (`EnqueueWakes`); taking an item lowers both sides by one.
* `DrainerIsNotStranded` assumes a single drainer; with two the last Done wakes
  only one of them and the other sleeps on.
* `Refinement` maps Add to Offer, Get to Take, Done to GiveBack and `shutdown` to
  Close; everything else stutters. `ShutdownIsFinal`: the queue never reopens.

`DelayingQueueProofs`, for any limiter, delays and channel. `RetryNotLost` is not
inductive: `Retried` adds that a worker about to give an item back has put it on
its way before, and `Holding` that no other worker can have taken it from there.
`Promised` is `PromiseKept` over the range of the channel; `LoopReceive` keeps it
because insert takes the smaller of two times. `RetriesWait` is about `RetryHistory`:
`Awaited` adds that as long as nobody else asks for a failed item, everything on its way
to the queue (the call of its worker, its entries in the channel and the heap) is due
no earlier than its backoff, and nobody else has it in hand. `BackoffsRespected` needs of the state
only that a worker about to call AddAfter has counted the failure and holds a delay
that When returned for it; the rest is `ExponentialDelay` and `LimiterDelay`, facts
about the limiters for every count of failures: the exponential one returns the
smaller of `MaxDelay` and the doubled delay, and the conversion to a duration never
gets a number that does not fit, but for the one that the property excepts.

`IndexerDelayingQueueProofs`, for any keys, versions, delays and goroutines, and
whether items are compared or not, from: the four kinds of goroutines are disjoint,
`NoItem` is not a key, and there are finitely many adders.

* `Inv` is the types (with `Holding`, a worker has a key exactly while it is at
  `work`) and the four safety properties together, which need each other. Get moves
  the entry of a key from the index to the processing entries, which is only right
  if the key has an entry (`IndexConsistent`) and no worker (`OneWorkerPerKey`).
  Nothing about the channel and the heap is needed but their types: push looks at
  the entry again and at the clock, so that an outdated notice is harmless
  (`PushSafe`). Index may replace the entry of a dirty key, and keeps `NeverEarly`
  because the time only gets earlier (`IndexSafe`).
* `Refinement` maps push to Offer, Get to Take, Done to GiveBack and `shutdown` to
  Close; the index, the clock, the loop and the adders stutter (`StingyStep`). The
  mapping takes the pending items from `dirty` and the active ones from the domain
  of the processing entries.
* `OvershootBounded` is not inductive by itself: `Room` adds that before the shutdown
  the adders that are past shouldAdd and have not indexed their item (`Past`) count
  like items; after it they add nothing.

`ResourceWatcherProofs`, for any environments, keys, clusters, objects, and any
number of restarts, from: a finite set of objects, each of one key and cluster, and
watched by any number of controllers;
`"cron"`, which stands for the cronjob instance in `toRun`, is not a key; and
`TriggersAssumption`, that the triggers of the files are a sequence of at most
`MaxTriggers` triggers that ask for controllers in `Controllers`. That assumption is a fact about the concatenation
`AllTriggers`, which would take an induction over the files, and TLC evaluates it.

* `SourcesInv` says what run has done so far: `AsAskedSoFar` is `SetUpAsAsked` for
  the triggers before `next`, and `Launched` that every config that is no longer to
  be run has its controllers, unless a cluster has no client. Merging one more
  trigger extends the first (`WatcherInitInv`), and at the end "so far" is the whole
  list (`SetUp`).
* `ControllerInv` is about one controller and its own objects. `Fresh` is what
  `NoStaleCreate` and `CreateHandledOnce` need: nobody was told of an object whose
  creation is queued and recent. After a restart everything is listed again, so
  that `ToldBefore` has to say that what an earlier process told of is not recent;
  after an expired watch `Unknown` says that objects missing in the cache are
  unheard of. `InSequence` and `Final` order the events of an object: none
  follows its deletion and none precedes its creation.
* A step of one controller leaves the invariant of the others alone
  (`ControllerKept`), because what a trigger was told is kept for each controller. A
  change of an object reaches all controllers that watch it (`NotifyInv`). What an informer queues in a
  list, another list or a notification is one lemma (`QueuedInv`).
* `Clocks` says that no controller started after `serverStartTime`: each one
  overwrites it, with a later time, so that the filter of an earlier controller only
  gets stricter (`CreatesAreRecent`).
* `Counted` and `Fresh` give `CreatesAreHandledOnce`, `Fresh` and `Final` give
  `EventsAreInOrder`, an action property.

`ExecutorProofs`, for any jobs, IDs and workers. `Holding` and `Queued` place each
job in one worker's hands or in one place of the queue; `Decided` says it is
somewhere until it has its outcome and nowhere afterwards; `Retried` that every run
but the current one was counted as a failure, which bounds the runs although
conflicts use the same counter. `Late` and `Stopped` give that a worker takes at
most one job after the cancellation (`BacklogLeft`) and that a successful shutdown
leaves nothing running (`SuccessIsStopped`).

`ParallelizerProofs`, for any pieces, chunk size and workers. `ChunksCover` and
`StartsApart` are the arithmetic: the chunks, rounded up, cover the pieces and do
not overlap. `Within` and `Disjoint` keep each goroutine in a chunk of its own,
`Fresh` and `Once` give that no piece is begun twice, `Settled`, `Missing` and
`Awaited` that a call that returned has done everything unless cancelled.

`RunnerProofs`, from `RenewDeadline < LeaseDuration`. `OneActive` rests on
`LeaseInv`: who is active holds the lease, and the lease has not run out while its
holder leads or is ending.

`TriggerServiceProofs`, for all sets of services and namespaces, shared namespaces
included, and all bounds, from `ServiceAssumption`: names and namespaces identify a
service, and the two special owners are not services.

* `Unbound` rests on `AccountInv`: an account that exists, or that the cache still
  has, is bound, was left behind by an interrupted pass, or belongs to the pass
  that binds it next. The property alone is not inductive, because `createRoles`
  decides by the cache whether it looks at the binding.
* `ConfigMonotone` rests on `SpecInv`, which orders the specs in flight: config map,
  pass, cache, service. The cache may lose the service, so that the order is kept
  against the generation as well.

TLC finds no violation of any of the inductive invariants on the instances of the runs
that pass, nor of the watcher's with two objects and no restart; `Room` is about programs that call
Add only, and was checked where `Delays` is empty.

Only model-checked: everything under fairness, which is out of the prover's reach
(`Delivered`, `DrainReturns`, `JobsDecided`, `WorkersExit`, `ShutdownEnds`,
`KnownDelivered`, `AddersGoOn`, `CallersGoOn`, `LoopEnds`, `NewObjectsReported`,
`WorkResumes`, `Served`), and what the concatenation of the triggers of several
files is. Every invariant, action property and refinement of the passing runs is
proved as well.

## Not modelled

* The evaluation of CUE templates and filters, which is a choice of outcomes.
* The contents of files and the parsing of properties: whether they parse is part of
  a trigger. Labels and namespaces are part of a key.
* The construction of clients, REST mappings beyond there being one or not, and the
  informers, leader election and typed queue of client-go, which are modelled from
  how they are used.
* The schedule of the cronjob, which is the cron library.
* Histograms and counters of the metrics, log levels, the version command,
  declarations and generated code.
* `AddHandlerBefore` and `AddHandlerAfter`, which the program does not call.
* A piece of the parallelizer that panics: HandleCrash ends the process.
* A composition of the executor with the watcher: the executor's room is a choice to
  the handlers, which is all they see of it.
