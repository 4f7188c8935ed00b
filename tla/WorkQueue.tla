------------------------------ MODULE WorkQueue ------------------------------
(***************************************************************************)
(* The basic work queue, pkg/workqueue/queue.go (type Type).               *)
(*                                                                         *)
(* Every critical section of the queue's single lock is one action.  The   *)
(* lock's condition variable is shared by the workers blocked in Get and   *)
(* by the callers of ShutDownWithDrain: waiting is the set of goroutines   *)
(* parked in cond.Wait, Signal unparks one of them (the package sync does  *)
(* not say which), Broadcast all.  An unparked goroutine goes back through *)
(* the loop that parked it, at a later step.                               *)
(*                                                                         *)
(* Workers run the loop Get; process; Done until Get reports the shutdown. *)
(* Add may be called by anyone at any time.                                *)
(***************************************************************************)
EXTENDS Integers, Sequences, FiniteSets, Functions, QueueMetrics

CONSTANTS
    Items,     \* what can be added
    Workers,   \* goroutines that loop on Get and Done
    Drainers,  \* goroutines that call ShutDownWithDrain, once each
    Stoppers,  \* goroutines that call ShutDown, once each
    NoItem     \* the item of a worker that holds none

ASSUME ActorsDisjoint ==
    /\ Workers \cap Drainers = {}
    /\ Workers \cap Stoppers = {}
    /\ Drainers \cap Stoppers = {}

ASSUME NoItemIsNoItem == NoItem \notin Items

ASSUME WorkersFinite == IsFiniteSet(Workers)

VARIABLES
    queue, dirty, processing, shuttingDown, drain,  \* the fields of Type
    waiting,  \* goroutines parked in cond.Wait
    pc,       \* where each goroutine is
    item      \* the item each worker got and has not given back

fields == <<queue, dirty, processing, shuttingDown, drain>>
vars == <<fields, waiting, pc, item, metrics>>

Actors == Workers \cup Drainers \cup Stoppers

Init ==
    /\ queue = <<>>
    /\ dirty = {}
    /\ processing = {}
    /\ shuttingDown = FALSE
    /\ drain = FALSE
    /\ waiting = {}
    /\ pc = [a \in Actors |-> IF a \in Workers THEN "get" ELSE "idle"]
    /\ item = [w \in Workers |-> NoItem]
    /\ MetricsInit

Goto(a, from, to) ==
    /\ pc[a] = from
    /\ pc' = [pc EXCEPT ![a] = to]

-----------------------------------------------------------------------------
(* sync.Cond *)

Signal ==
    \/ waiting = {} /\ UNCHANGED waiting
    \/ \E a \in waiting : waiting' = waiting \ {a}

Broadcast == waiting' = {}

\* Mutant of Enqueue: nobody is woken.
Enqueue_NoSignal(i) ==
    /\ queue' = Append(queue, i)
    /\ UNCHANGED waiting

\* append(q.queue, i) followed by q.cond.Signal()
Enqueue(i) ==
    /\ queue' = Append(queue, i)
    /\ Signal

-----------------------------------------------------------------------------
(* Add, Get and Done *)

\* Mutant of Add: the item is queued although a worker is processing it.
Add_QueuesWhileProcessing(i) ==
    /\ ~shuttingDown
    /\ i \notin dirty
    /\ MetricsAdd(i)
    /\ dirty' = dirty \cup {i}
    /\ Enqueue(i)
    /\ UNCHANGED <<processing, shuttingDown, drain, pc, item>>

Add(i) ==
    /\ ~shuttingDown
    /\ i \notin dirty
    /\ MetricsAdd(i)
    /\ dirty' = dirty \cup {i}
    /\ IF i \in processing THEN UNCHANGED <<queue, waiting>> ELSE Enqueue(i)
    /\ UNCHANGED <<processing, shuttingDown, drain, pc, item>>

\* Nothing to return yet: cond.Wait releases the lock and parks the worker.
GetWait(w) ==
    /\ pc[w] = "get" /\ w \notin waiting
    /\ queue = <<>> /\ ~shuttingDown
    /\ waiting' = waiting \cup {w}
    /\ UNCHANGED <<fields, pc, item, metrics>>

GetShutdown(w) ==
    /\ w \notin waiting
    /\ queue = <<>> /\ shuttingDown
    /\ Goto(w, "get", "exited")
    /\ UNCHANGED <<fields, waiting, item, metrics>>

GetItem(w) ==
    /\ w \notin waiting
    /\ queue # <<>>
    /\ Goto(w, "get", "work")
    /\ LET i == Head(queue)
       IN  /\ item' = [item EXCEPT ![w] = i]
           /\ queue' = Tail(queue)
           /\ MetricsGet(i)
           /\ processing' = processing \cup {i}
           /\ dirty' = dirty \ {i}
    /\ UNCHANGED <<shuttingDown, drain, waiting>>

Get(w) == GetWait(w) \/ GetShutdown(w) \/ GetItem(w)

\* Mutant of Done: the dirty item is not queued again.
Done_Forgets(w) ==
    /\ Goto(w, "work", "get")
    /\ item' = [item EXCEPT ![w] = NoItem]
    /\ MetricsDone(item[w])
    /\ processing' = processing \ {item[w]}
    /\ IF processing' = {} THEN Signal ELSE UNCHANGED waiting
    /\ UNCHANGED <<queue, dirty, shuttingDown, drain>>

\* Mutant of Done: no Signal when the last item is given back.
Done_NoDrainSignal(w) ==
    /\ Goto(w, "work", "get")
    /\ item' = [item EXCEPT ![w] = NoItem]
    /\ MetricsDone(item[w])
    /\ processing' = processing \ {item[w]}
    /\ IF item[w] \in dirty THEN Enqueue(item[w]) ELSE UNCHANGED <<queue, waiting>>
    /\ UNCHANGED <<dirty, shuttingDown, drain>>

Done(w) ==
    /\ Goto(w, "work", "get")
    /\ item' = [item EXCEPT ![w] = NoItem]
    /\ MetricsDone(item[w])
    /\ processing' = processing \ {item[w]}
    /\ IF item[w] \in dirty
       THEN Enqueue(item[w])
       ELSE UNCHANGED queue /\ IF processing' = {} THEN Signal ELSE UNCHANGED waiting
    /\ UNCHANGED <<dirty, shuttingDown, drain>>

-----------------------------------------------------------------------------
(* ShutDown and ShutDownWithDrain: each helper they call locks and unlocks *)

setDrain(a, value) ==
    /\ Goto(a, "idle", "shutdown")
    /\ drain' = value
    /\ UNCHANGED <<queue, dirty, processing, shuttingDown, waiting, item, metrics>>

shutdown(a, next) ==
    /\ Goto(a, "shutdown", next)
    /\ shuttingDown' = TRUE
    /\ Broadcast
    /\ UNCHANGED <<queue, dirty, processing, drain, item, metrics>>

ShutDown(s) ==
    \/ setDrain(s, FALSE)
    \/ shutdown(s, "returned")

isProcessing(d) ==
    /\ d \notin waiting
    /\ Goto(d, "isProcessing", IF processing # {} THEN "shouldDrain" ELSE "returned")
    /\ UNCHANGED <<fields, waiting, item, metrics>>

shouldDrain(d) ==
    /\ Goto(d, "shouldDrain", IF drain THEN "waitForProcessing" ELSE "returned")
    /\ UNCHANGED <<fields, waiting, item, metrics>>

\* Parks the caller unless processing is empty by now; either way, and for a
\* parked caller when it is unparked, the loop goes back to isProcessing.
waitForProcessing(d) ==
    /\ Goto(d, "waitForProcessing", "isProcessing")
    /\ waiting' = IF processing = {} THEN waiting ELSE waiting \cup {d}
    /\ UNCHANGED <<fields, item, metrics>>

DrainLoop(d) ==
    \/ shutdown(d, "isProcessing")
    \/ isProcessing(d)
    \/ shouldDrain(d)
    \/ waitForProcessing(d)

ShutDownWithDrain(d) == setDrain(d, TRUE) \/ DrainLoop(d)

-----------------------------------------------------------------------------
Terminated ==
    /\ shuttingDown
    /\ \A w \in Workers : pc[w] = "exited"
    /\ \A a \in Drainers \cup Stoppers : pc[a] = "returned"
    /\ UNCHANGED vars

Next ==
    \/ \E i \in Items : Add(i)
    \/ \E w \in Workers : Get(w) \/ Done(w)
    \/ \E s \in Stoppers : ShutDown(s)
    \/ \E d \in Drainers : ShutDownWithDrain(d)
    \/ Terminated

Spec == Init /\ [][Next]_vars

\* The Go scheduler and sync.Mutex keep a runnable goroutine from waiting for
\* ever; nobody is obliged to call Add, ShutDown or ShutDownWithDrain.
RuntimeFairness ==
    /\ \A w \in Workers : WF_vars(Get(w))
    /\ \A d \in Drainers : WF_vars(DrainLoop(d))
    /\ \A s \in Stoppers : WF_vars(shutdown(s, "returned"))

\* Workers that finish what they are working on and call Done.
DiligentWorkers == \A w \in Workers : WF_vars(Done(w))

FairSpec == Spec /\ RuntimeFairness /\ DiligentWorkers

-----------------------------------------------------------------------------
(* Properties *)

WorkerPC == {"get", "work", "exited"}
StopperPC == {"idle", "shutdown", "returned"}
DrainerPC == StopperPC \cup {"isProcessing", "shouldDrain", "waitForProcessing"}

\* The types of the queue's fields, its metrics and the goroutines' positions.
TypeOK ==
    /\ queue \in Seq(Items)
    /\ dirty \subseteq Items
    /\ processing \subseteq Items
    /\ shuttingDown \in BOOLEAN
    /\ drain \in BOOLEAN
    /\ waiting \subseteq Workers \cup Drainers
    /\ pc \in [Actors -> DrainerPC \cup WorkerPC]
    /\ item \in [Workers -> Items \cup {NoItem}]
    /\ depth \in Nat
    /\ addTimes \subseteq Items
    /\ processingStartTimes \subseteq Items

\* What the comment on Type.queue asks ("Every element of queue should be in
\* the dirty set and not in the processing set"), and its converse: a dirty
\* item nobody is processing is queued, so that Add and Done never lose one.
\* An item is queued at most once.
QueueConsistent ==
    /\ Range(queue) = dirty \ processing
    /\ \A m, n \in 1..Len(queue) : queue[m] = queue[n] => m = n

\* Get never hands an item to a second worker before the first called Done,
\* and the processing set is exactly what the workers hold.
OneWorkerPerItem ==
    /\ \A v, w \in Workers : item[v] = item[w] /\ item[v] # NoItem => v = w
    /\ processing = {item[w] : w \in Workers} \ {NoItem}

\* The gauges the queue reports agree with its contents at every unlock: the
\* depth counts the dirty items, and the two maps of start times have an entry
\* for each dirty and each processed item and no other, so they do not leak.
MetricsAgree ==
    /\ depth = Cardinality(dirty)
    /\ addTimes = dirty
    /\ processingStartTimes = processing

\* The workers that are on their way through Get
Awake == {w \in Workers : pc[w] = "get" /\ w \notin waiting}

\* One Signal per queued item is enough: while a worker sleeps in Get there are
\* at least as many workers awake in Get as there are items queued, although a
\* worker that was never asleep may take the item another one was woken for.
NoLostWakeup == waiting \cap Workers # {} => Len(queue) <= Cardinality(Awake)

\* No worker sleeps in Get once the queue is shutting down, and no drainer
\* sleeps before: Signal never wakes a drainer in place of a worker.
SleepersMatchPhase ==
    waiting \subseteq (IF shuttingDown THEN Drainers ELSE Workers)

\* With a single caller of ShutDownWithDrain, that caller only sleeps while a
\* worker is processing an item and will call Done.  (Of two callers, the one
\* that the Signal of the last Done misses sleeps on.)
DrainerNotStranded ==
    \A d \in Drainers : d \in waiting => processing # {}

\* Shutting down is for good, and no item enters the queue afterwards; what a
\* Done puts back was dirty before.
ClosedForGood ==
    [][shuttingDown => shuttingDown' /\ dirty' \subseteq dirty]_vars

\* The queue implements the abstract promise of its package comment.
Stingy == INSTANCE StingyQueue
    WITH pending <- dirty, active <- processing, closed <- shuttingDown

ImplementsStingyQueue == Stingy!Spec

\* Every added item is eventually taken by a worker, shut down or not: Get
\* empties the queue before it reports the shutdown.
Delivered == \A i \in Items : (i \in dirty) ~> (i \notin dirty)

\* ShutDownWithDrain returns when the workers call Done on what they got
\* ("As soon as the worker goroutines have drained [...] ShutDownWithDrain
\* will return").
DrainReturns ==
    \A d \in Drainers : (pc[d] = "isProcessing") ~> (pc[d] = "returned")
=============================================================================
