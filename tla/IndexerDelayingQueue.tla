------------------------ MODULE IndexerDelayingQueue ------------------------
(***************************************************************************)
(* The indexed delaying queue, pkg/workqueue/indexer_delaying_queue.go.    *)
(*                                                                         *)
(* Items are indexed by a key.  knownPrepareEntries holds, for each key    *)
(* that waits, the newest item and the time it becomes ready; a goroutine, *)
(* waitingLoop, keeps a heap of keys and times and pushes a key when its   *)
(* time has come.  The heap learns of keys through a buffered channel and  *)
(* never looks at knownPrepareEntries, nor the other way round.            *)
(*                                                                         *)
(* Every critical section of the lock is one action, and so is every       *)
(* reading of the clock that is followed by other goroutines' steps.  An   *)
(* item is a key and a version; LessOrEqual compares versions.             *)
(***************************************************************************)
EXTENDS Integers, Sequences, FiniteSets, Functions, QueueMetrics

CONSTANTS
    Keys,      \* what keyFunc returns
    Versions,  \* the versions of an item, a set of naturals
    Delays,    \* the delays AddAfter is called with
    Adders,    \* goroutines that call Add and AddAfter
    Workers,   \* goroutines that loop on Get and Done
    Drainers,  \* goroutines that call ShutDownWithDrain, once each
    Stoppers,  \* goroutines that call ShutDown, once each
    Cap,       \* queueItemCap
    ChanCap,   \* the capacity of waitingForAddCh
    Compared,  \* the items implement Compared
    KeysFail,  \* keyFunc may return an error
    MaxTime,   \* bound on the clock
    MaxCalls,  \* bound on the calls of Add and AddAfter
    NoItem     \* the item of a worker that holds none

ASSUME QueueAssumption ==
    /\ Versions \subseteq Nat /\ Delays \subseteq Nat
    /\ Cap \in Nat \ {0} /\ ChanCap \in Nat \ {0}
    /\ Compared \in BOOLEAN /\ KeysFail \in BOOLEAN
    /\ MaxTime \in Nat /\ MaxCalls \in Nat
    /\ NoItem \notin Keys
    /\ IsFiniteSet(Adders)

ASSUME ActorsDisjoint ==
    /\ Adders \cap (Workers \cup Drainers \cup Stoppers) = {}
    /\ Workers \cap (Drainers \cup Stoppers) = {}
    /\ Drainers \cap Stoppers = {}

VARIABLES
    now,                     \* the clock
    known, processing,       \* knownPrepareEntries and processingEntries
    queue, dirty, shuttingDown, drain,
    stopCh, stopOnce,        \* stopCh is closed; state of the sync.Once
    channel,                 \* waitingForAddCh
    heap,                    \* waitingForQueue and waitingEntryByData: key -> readyAt
    loop, loopNow,           \* position of waitingLoop and the time it read
    waiting, addWaiting,     \* goroutines parked on cond and on addCond
    pc, call, item,          \* positions, the adders' calls, the workers' keys
    calls                    \* how many calls of Add and AddAfter there were

entries == <<known, processing, queue, dirty>>
flags == <<shuttingDown, drain, stopCh, stopOnce>>
loopVars == <<channel, heap, loop, loopNow>>
conds == <<waiting, addWaiting>>
vars == <<now, entries, flags, loopVars, conds, pc, call, item, calls, metrics>>

EmptyMap == [k \in {} |-> 0]

Init ==
    /\ now = 0
    /\ known = EmptyMap /\ processing = EmptyMap
    /\ queue = <<>> /\ dirty = {}
    /\ shuttingDown = FALSE /\ drain = FALSE /\ stopCh = FALSE /\ stopOnce = "free"
    /\ channel = <<>> /\ heap = EmptyMap
    /\ loop = "top" /\ loopNow = 0
    /\ waiting = {} /\ addWaiting = {}
    /\ pc = [g \in Adders \cup Workers \cup Drainers \cup Stoppers |->
                IF g \in Workers THEN "get" ELSE "idle"]
    /\ call = [g \in Adders |-> NoItem]
    /\ item = [w \in Workers |-> NoItem]
    /\ calls = 0
    /\ MetricsInit

Goto(g, from, to) ==
    /\ pc[g] = from
    /\ pc' = [pc EXCEPT ![g] = to]

Put(f, k, v) == [x \in DOMAIN f \cup {k} |-> IF x = k THEN v ELSE f[x]]
Without(f, k) == Restrict(f, DOMAIN f \ {k})

Signal ==
    \/ waiting = {} /\ UNCHANGED waiting
    \/ \E g \in waiting : waiting' = waiting \ {g}

SignalAdd ==
    \/ addWaiting = {} /\ UNCHANGED addWaiting
    \/ \E g \in addWaiting : addWaiting' = addWaiting \ {g}

Enqueue(k) ==
    /\ queue' = Append(queue, k)
    /\ Signal

\* Mutant of MayPush: the shutdown is not looked at.
MayPush_AfterShutdown(k) ==
    k \in DOMAIN known /\ known[k].readyAt <= now /\ k \notin dirty

\* Mutant of MayPush: the time of the entry is not looked at.
MayPush_Early(k) ==
    ~shuttingDown /\ k \in DOMAIN known /\ k \notin dirty

\* Mutant of MayPush: an expired key is not ignored.
MayPush_Expired(k) ==
    ~shuttingDown /\ k \notin dirty /\ (k \in DOMAIN known => known[k].readyAt <= now)

\* The early returns of push
MayPush(k) ==
    ~shuttingDown /\ k \in DOMAIN known /\ known[k].readyAt <= now /\ k \notin dirty

push(k) ==
    IF MayPush(k)
    THEN /\ MetricsAdd(k)
         /\ dirty' = dirty \cup {k}
         /\ IF k \in DOMAIN processing THEN UNCHANGED <<queue, waiting>> ELSE Enqueue(k)
    ELSE UNCHANGED <<queue, dirty, waiting, metrics>>

Tick ==
    /\ now < MaxTime
    /\ now' = now + 1
    /\ UNCHANGED <<entries, flags, loopVars, conds, pc, call, item, calls, metrics>>

-----------------------------------------------------------------------------
(* Add and AddAfter *)

BeginCall(g, to, k, v, at) ==
    /\ calls < MaxCalls
    /\ calls' = calls + 1
    /\ Goto(g, "idle", to)
    /\ call' = [call EXCEPT ![g] = [key |-> k, data |-> v, readyAt |-> at]]
    /\ UNCHANGED <<now, entries, flags, loopVars, conds, item, metrics>>

\* Add calls shouldAdd, then AddAfter without a delay.
Add(g, k, v) == BeginCall(g, "shouldAdd", k, v, 0)

\* AddAfter begins with the reading of the clock.
AddAfter(g, k, v, delay) ==
    /\ now + delay <= MaxTime
    /\ BeginCall(g, "index", k, v, now + delay)

Size == Cardinality(DOMAIN known) + Cardinality(DOMAIN processing)

\* Mutant of Full: off by one.
Full_OffByOne == Size > Cap

Full == Size >= Cap

shouldAdd(g) ==
    /\ g \notin addWaiting
    /\ IF Full /\ ~shuttingDown
       THEN /\ pc[g] = "shouldAdd"
            /\ addWaiting' = addWaiting \cup {g}
            /\ UNCHANGED pc
       ELSE /\ Goto(g, "shouldAdd", "readClock")
            /\ UNCHANGED addWaiting
    /\ UNCHANGED <<now, entries, flags, loopVars, waiting, call, item, calls, metrics>>

ReadClock(g) ==
    /\ \/ /\ Goto(g, "readClock", "index")
          /\ call' = [call EXCEPT ![g].readyAt = now]
       \/ /\ KeysFail
          /\ Goto(g, "readClock", "idle")
          /\ call' = [call EXCEPT ![g] = NoItem]
    /\ UNCHANGED <<now, entries, flags, loopVars, conds, item, calls, metrics>>

LessOrEqual(old, new) == Compared /\ old <= new

\* Mutant of StaleFor: the item being processed is not compared.
StaleFor_Never(k, data) == FALSE

\* A newer version of the item is being processed.
StaleFor(k, data) == k \in DOMAIN processing /\ Compared /\ ~LessOrEqual(processing[k].data, data)

\* The critical section of AddAfter, up to needPush
Index(g) ==
    LET c == call[g]
        k == c.key
        old == known[k]
        indexed == [data |-> IF LessOrEqual(old.data, c.data) THEN c.data ELSE old.data,
                    readyAt |-> IF old.readyAt > c.readyAt THEN c.readyAt ELSE old.readyAt]
    IN  /\ pc[g] = "index"
        /\ \/ /\ shuttingDown \/ (k \notin DOMAIN known /\ StaleFor(k, c.data))
              /\ Goto(g, "index", "idle")
              /\ UNCHANGED <<known, metrics>>
           \/ /\ ~shuttingDown /\ k \in DOMAIN known
              /\ Goto(g, "index", IF old.readyAt > c.readyAt THEN "decide" ELSE "idle")
              /\ known' = Put(known, k, indexed)
              /\ UNCHANGED metrics
           \/ /\ ~shuttingDown /\ k \notin DOMAIN known /\ ~StaleFor(k, c.data)
              /\ Goto(g, "index", "decide")
              /\ known' = Put(known, k, [data |-> c.data, readyAt |-> c.readyAt])
              /\ MetricsAdd(k)
        /\ call' = [call EXCEPT ![g] = IF pc'[g] = "idle" THEN NoItem ELSE @]
        /\ UNCHANGED <<now, processing, queue, dirty, flags, loopVars, conds, item, calls>>

\* An item that is ready before now is pushed, any other one goes to the loop.
PushDirectly(g) ==
    /\ pc[g] = "decide" /\ call[g].readyAt < now
    /\ Goto(g, "decide", "idle")
    /\ call' = [call EXCEPT ![g] = NoItem]
    /\ push(call[g].key)
    /\ UNCHANGED <<now, known, processing, flags, loopVars, addWaiting, item, calls>>

PushLater(g) ==
    /\ pc[g] = "decide" /\ call[g].readyAt >= now
    /\ Goto(g, "decide", "send")
    /\ UNCHANGED <<now, entries, flags, loopVars, conds, call, item, calls, metrics>>

pushDelayQueue(g) ==
    /\ Goto(g, "send", "idle")
    /\ call' = [call EXCEPT ![g] = NoItem]
    /\ \/ stopCh /\ UNCHANGED channel
       \/ /\ Len(channel) < ChanCap
          /\ channel' = Append(channel, [key |-> call[g].key, readyAt |-> call[g].readyAt])
    /\ UNCHANGED <<now, entries, flags, heap, loop, loopNow, conds, item, calls, metrics>>

AdderStep(g) ==
    \/ shouldAdd(g) \/ ReadClock(g) \/ Index(g)
    \/ PushDirectly(g) \/ PushLater(g) \/ pushDelayQueue(g)

-----------------------------------------------------------------------------
(* waitingLoop *)

LoopTop ==
    /\ loop = "top"
    /\ loop' = IF shuttingDown THEN "exited" ELSE "pop"
    /\ loopNow' = IF shuttingDown THEN loopNow ELSE now
    /\ UNCHANGED <<now, entries, flags, channel, heap, conds, pc, call, item, calls, metrics>>

Ready(time) == {k \in DOMAIN heap : heap[k] <= time}

\* The head of the heap is ready: it is pushed and forgotten.
LoopPop ==
    /\ loop = "pop"
    /\ \E k \in Ready(loopNow) :
          /\ \A l \in DOMAIN heap : heap[k] <= heap[l]
          /\ push(k)
          /\ heap' = Without(heap, k)
    /\ UNCHANGED <<now, known, processing, flags, channel, loop, loopNow, addWaiting, pc, call,
                   item, calls>>

LoopWait ==
    /\ loop = "pop" /\ Ready(loopNow) = {}
    /\ loop' = "select"
    /\ UNCHANGED <<now, entries, flags, channel, heap, loopNow, conds, pc, call, item, calls,
                   metrics>>

LoopStop ==
    /\ loop = "select" /\ stopCh
    /\ loop' = "exited"
    /\ UNCHANGED <<now, entries, flags, channel, heap, loopNow, conds, pc, call, item, calls,
                   metrics>>

\* The timer for the head of the heap, or a heartbeat.  A heartbeat at another
\* time goes round the loop without doing anything.
LoopTimer ==
    /\ loop = "select" /\ Ready(now) # {}
    /\ loop' = "top"
    /\ UNCHANGED <<now, entries, flags, channel, heap, loopNow, conds, pc, call, item, calls,
                   metrics>>

insert(k, readyAt) ==
    heap' = IF k \in DOMAIN heap /\ heap[k] <= readyAt THEN heap ELSE Put(heap, k, readyAt)

\* The first entry of the channel, and then all that follow.
LoopReceive ==
    /\ loop \in {"select", "drain"}
    /\ channel # <<>>
    /\ channel' = Tail(channel)
    /\ loop' = "drain"
    /\ LET e == Head(channel)
       IN  IF e.readyAt > now
           THEN insert(e.key, e.readyAt) /\ UNCHANGED <<queue, dirty, waiting, metrics>>
           ELSE push(e.key) /\ UNCHANGED heap
    /\ UNCHANGED <<now, known, processing, flags, loopNow, addWaiting, pc, call, item, calls>>

LoopDrained ==
    /\ loop = "drain" /\ channel = <<>>
    /\ loop' = "top"
    /\ UNCHANGED <<now, entries, flags, channel, heap, loopNow, conds, pc, call, item, calls,
                   metrics>>

waitingLoop ==
    LoopTop \/ LoopPop \/ LoopWait \/ LoopStop \/ LoopTimer \/ LoopReceive \/ LoopDrained

-----------------------------------------------------------------------------
(* Get and Done *)

GetWait(w) ==
    /\ pc[w] = "get" /\ w \notin waiting
    /\ queue = <<>> /\ ~shuttingDown
    /\ waiting' = waiting \cup {w}
    /\ UNCHANGED <<now, entries, flags, loopVars, addWaiting, pc, call, item, calls, metrics>>

GetShutdown(w) ==
    /\ w \notin waiting
    /\ queue = <<>> /\ shuttingDown
    /\ Goto(w, "get", "exited")
    /\ UNCHANGED <<now, entries, flags, loopVars, conds, call, item, calls, metrics>>

GetItem(w) ==
    /\ w \notin waiting
    /\ queue # <<>>
    /\ Goto(w, "get", "work")
    /\ LET k == Head(queue)
       IN  /\ item' = [item EXCEPT ![w] = k]
           /\ queue' = Tail(queue)
           /\ processing' = Put(processing, k, known[k])
           /\ dirty' = dirty \ {k}
           /\ known' = Without(known, k)
    /\ UNCHANGED <<now, flags, loopVars, conds, call, calls, metrics>>

Get(w) == GetWait(w) \/ GetShutdown(w) \/ GetItem(w)

\* Mutant of Done: the key stays in processingEntries.
Done_KeepsEntry(w) ==
    /\ Goto(w, "work", "get")
    /\ item' = [item EXCEPT ![w] = NoItem]
    /\ MetricsDone(item[w])
    /\ IF item[w] \in dirty THEN Enqueue(item[w]) ELSE UNCHANGED <<queue, waiting>>
    /\ SignalAdd
    /\ UNCHANGED <<now, processing, known, dirty, flags, loopVars, call, calls>>

\* Mutant of Done: the dirty key is not queued again.
Done_Forgets(w) ==
    /\ Goto(w, "work", "get")
    /\ item' = [item EXCEPT ![w] = NoItem]
    /\ MetricsDone(item[w])
    /\ processing' = Without(processing, item[w])
    /\ IF DOMAIN processing' = {} THEN Signal ELSE UNCHANGED waiting
    /\ SignalAdd
    /\ UNCHANGED <<now, known, queue, dirty, flags, loopVars, call, calls>>

\* Mutant of Done: addCond is not signalled.
Done_NoSignalAdd(w) ==
    /\ Goto(w, "work", "get")
    /\ item' = [item EXCEPT ![w] = NoItem]
    /\ MetricsDone(item[w])
    /\ processing' = Without(processing, item[w])
    /\ IF item[w] \in dirty
       THEN Enqueue(item[w])
       ELSE UNCHANGED queue /\ IF DOMAIN processing' = {} THEN Signal ELSE UNCHANGED waiting
    /\ UNCHANGED <<now, known, dirty, flags, loopVars, addWaiting, call, calls>>

Done(w) ==
    /\ Goto(w, "work", "get")
    /\ item' = [item EXCEPT ![w] = NoItem]
    /\ MetricsDone(item[w])
    /\ processing' = Without(processing, item[w])
    /\ IF item[w] \in dirty
       THEN Enqueue(item[w])
       ELSE UNCHANGED queue /\ IF DOMAIN processing' = {} THEN Signal ELSE UNCHANGED waiting
    /\ SignalAdd
    /\ UNCHANGED <<now, known, dirty, flags, loopVars, call, calls>>

-----------------------------------------------------------------------------
(* ShutDown and ShutDownWithDrain: the sync.Once lets one caller in, others  *)
(* wait until it is done                                                     *)

setDrain(d) ==
    /\ stopOnce = "free"
    /\ stopOnce' = "busy"
    /\ Goto(d, "idle", "shutdown")
    /\ drain' = TRUE
    /\ UNCHANGED <<now, entries, shuttingDown, stopCh, loopVars, conds, call, item, calls,
                   metrics>>

shutdown(g, from) ==
    /\ Goto(g, from, "close")
    /\ stopOnce' = "busy"
    /\ shuttingDown' = TRUE
    /\ waiting' = {} /\ addWaiting' = {}
    /\ UNCHANGED <<now, entries, drain, stopCh, loopVars, call, item, calls, metrics>>

close(g, next) ==
    /\ Goto(g, "close", next)
    /\ stopCh' = TRUE
    /\ stopOnce' = "done"
    /\ UNCHANGED <<now, entries, shuttingDown, drain, loopVars, conds, call, item, calls, metrics>>

SkipOnce(g, next) ==
    /\ stopOnce = "done"
    /\ Goto(g, "idle", next)
    /\ UNCHANGED <<now, entries, flags, loopVars, conds, call, item, calls, metrics>>

ShutDownBegins(s) == stopOnce = "free" /\ shutdown(s, "idle")

ShutDown(s) == ShutDownBegins(s) \/ close(s, "returned") \/ SkipOnce(s, "returned")

isProcessing(d) ==
    /\ d \notin waiting
    /\ Goto(d, "isProcessing", IF DOMAIN processing # {} THEN "shouldDrain" ELSE "returned")
    /\ UNCHANGED <<now, entries, flags, loopVars, conds, call, item, calls, metrics>>

shouldDrain(d) ==
    /\ Goto(d, "shouldDrain", IF drain THEN "waitForProcessing" ELSE "returned")
    /\ UNCHANGED <<now, entries, flags, loopVars, conds, call, item, calls, metrics>>

\* Mutant of waitForProcessing: it parks without looking at processing again.
waitForProcessing_Blind(d) ==
    /\ Goto(d, "waitForProcessing", "isProcessing")
    /\ waiting' = waiting \cup {d}
    /\ UNCHANGED <<now, entries, flags, loopVars, addWaiting, call, item, calls, metrics>>

waitForProcessing(d) ==
    /\ Goto(d, "waitForProcessing", "isProcessing")
    /\ waiting' = IF DOMAIN processing = {} THEN waiting ELSE waiting \cup {d}
    /\ UNCHANGED <<now, entries, flags, loopVars, addWaiting, call, item, calls, metrics>>

DrainLoop(d) ==
    \/ shutdown(d, "shutdown") \/ close(d, "isProcessing")
    \/ isProcessing(d) \/ shouldDrain(d) \/ waitForProcessing(d)

ShutDownWithDrain(d) == setDrain(d) \/ SkipOnce(d, "isProcessing") \/ DrainLoop(d)

-----------------------------------------------------------------------------
Terminated ==
    /\ loop = "exited" /\ shuttingDown
    /\ \A w \in Workers : pc[w] = "exited"
    /\ \A g \in Drainers \cup Stoppers : pc[g] = "returned"
    /\ \A g \in Adders : pc[g] = "idle"
    /\ UNCHANGED vars

Next ==
    \/ Tick
    \/ \E g \in Adders, k \in Keys, v \in Versions :
          Add(g, k, v) \/ \E delay \in Delays : AddAfter(g, k, v, delay)
    \/ \E g \in Adders : AdderStep(g)
    \/ waitingLoop
    \/ \E w \in Workers : Get(w) \/ Done(w)
    \/ \E s \in Stoppers : ShutDown(s)
    \/ \E d \in Drainers : ShutDownWithDrain(d)
    \/ Terminated

Spec == Init /\ [][Next]_vars

\* Time passes, runnable goroutines run and workers call Done.  Nobody has to
\* call Add, AddAfter, ShutDown or ShutDownWithDrain.
FairSpec ==
    /\ Spec
    /\ WF_vars(Tick) /\ WF_vars(waitingLoop)
    /\ \A g \in Adders : WF_vars(AdderStep(g))
    /\ \A w \in Workers : WF_vars(Get(w)) /\ WF_vars(Done(w))
    /\ \A s \in Stoppers : WF_vars(close(s, "returned"))
    /\ \A d \in Drainers : WF_vars(DrainLoop(d))

-----------------------------------------------------------------------------
(* Properties *)

Entry == [data : Versions, readyAt : 0..MaxTime]

\* The types of the queue's fields.
TypeOK ==
    /\ now \in 0..MaxTime
    /\ DOMAIN known \subseteq Keys /\ \A k \in DOMAIN known : known[k] \in Entry
    /\ DOMAIN processing \subseteq Keys /\ \A k \in DOMAIN processing : processing[k] \in Entry
    /\ queue \in Seq(Keys) /\ dirty \subseteq Keys
    /\ shuttingDown \in BOOLEAN /\ drain \in BOOLEAN /\ stopCh \in BOOLEAN
    /\ stopOnce \in {"free", "busy", "done"}
    /\ channel \in Seq([key : Keys, readyAt : 0..MaxTime]) /\ Len(channel) <= ChanCap
    /\ DOMAIN heap \subseteq Keys /\ \A k \in DOMAIN heap : heap[k] \in 0..MaxTime
    /\ loop \in {"top", "pop", "select", "drain", "exited"} /\ loopNow \in 0..MaxTime
    /\ waiting \subseteq Workers \cup Drainers /\ addWaiting \subseteq Adders
    /\ item \in [Workers -> Keys \cup {NoItem}]
    /\ \A g \in Adders : call[g] = NoItem \/
          call[g] \in [key : Keys, data : Versions, readyAt : 0..MaxTime]

\* A queued key has an entry, so that Get finds the item it returns (it does not
\* look whether knownPrepareEntries has one); a key is queued once, exactly
\* while it is dirty and not being processed.
IndexConsistent ==
    /\ dirty \subseteq DOMAIN known
    /\ Range(queue) = dirty \ DOMAIN processing
    /\ \A m, n \in 1..Len(queue) : queue[m] = queue[n] => m = n

\* A key is processed by one worker at a time ("expect don't process the same
\* key at the same time").
OneWorkerPerKey ==
    /\ \A v, w \in Workers : item[v] = item[w] /\ item[v] # NoItem => v = w
    /\ DOMAIN processing = {item[w] : w \in Workers} \ {NoItem}

\* No item is offered to the workers before the earliest time it was asked for.
NeverEarly == \A k \in dirty : known[k].readyAt <= now

\* While a version is being processed, no older version of the item waits to be
\* processed after it.
NoStaleVersion ==
    Compared => \A k \in DOMAIN known \cap DOMAIN processing :
                   known[k].data >= processing[k].data

\* shouldAdd and AddAfter are separate critical sections, so that Add may exceed
\* the capacity, but not by more than the adders that are past shouldAdd.  AddAfter
\* called by itself does not look at the capacity at all.
OvershootBounded == Delays = {} => Size < Cap + Cardinality(Adders)

Stingy == INSTANCE StingyQueue
    WITH Items <- Keys, pending <- dirty, active <- DOMAIN processing, closed <- shuttingDown

\* Whatever delays, versions and the loop do, the workers see the queue that module
\* StingyQueue describes: a key is pending, active or both, taken by one worker at a
\* time, and nothing new is offered after the shutdown.
ImplementsStingyQueue == Stingy!Spec

\* In a program that calls Add only, every key that was added is taken by a worker in
\* the end, unless the queue is shut down.  Of AddAfter with a delay this cannot be said:
\* insert keeps the earlier time of a key that was delivered since, push drops the key
\* at that time, and the time asked for later is gone.
KnownDelivered ==
    Delays = {} => \A k \in Keys : []<>(k \notin DOMAIN known \/ shuttingDown)

\* An Add that waits for room goes on in the end, if keyFunc gives every item a key.
\* Done wakes one adder; if keyFunc fails for that one's item it leaves without
\* adding, and another that waits for the same room sleeps on.
AddersGoOn == ~KeysFail => \A g \in Adders : []<>(g \notin addWaiting)

\* ShutDownWithDrain returns when the workers call Done.
DrainReturns ==
    \A d \in Drainers : (pc[d] = "isProcessing") ~> (pc[d] = "returned")
=============================================================================
