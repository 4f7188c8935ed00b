---------------------------- MODULE DelayingQueue ----------------------------
(***************************************************************************)
(* The delaying and the rate limiting queue, pkg/workqueue/                *)
(* delaying_queue.go and rate_limiting_queue.go, with the workers that use *)
(* them the way processNextItem of the resource controller does.           *)
(*                                                                         *)
(* The queue they wrap is the abstract one of module StingyQueue, which    *)
(* module WorkQueue implements.  A point in time is the number of ticks    *)
(* left until it: an entry is due when none is left, and past that nothing *)
(* distinguishes how long ago it was.                                      *)
(***************************************************************************)
EXTENDS Sequences, FiniteSets, RateLimiters

CONSTANTS
    Workers,     \* goroutines that loop on Get and Done
    Callers,     \* other goroutines that call Add and AddAfter
    Delays,      \* the durations callers ask for
    ChanCap,     \* capacity of waitingForAddCh, 1000 in the code
    MaxRetries,  \* maxRetries of the workers
    MaxDebt,     \* bound of the model: reservations the bucket may owe
    NoItem       \* the item of a goroutine that has none

ASSUME QueueAssumption ==
    /\ Workers \cap Callers = {}
    /\ Delays \subseteq -(MaxDuration + 1)..MaxDuration
    /\ ChanCap \in Nat \ {0} /\ MaxRetries \in Nat /\ MaxDebt \in Nat
    /\ NoItem \notin Items

VARIABLES
    pending, active, closed,  \* the wrapped queue
    ch,                       \* waitingForAddCh: entries of an item and the time left
    known, left,              \* the heap: items that have an entry, time left of each
    stopCh,                   \* open, about to be closed by ShutDown, or closed
    loop, lag,                \* position of waitingLoop; ticks since it read the clock
    pc, item, delay,          \* of each goroutine: position, item, duration or time left
    promise                   \* history: time left until the earliest time an item was
                              \* accepted for and not added at yet, or None

Q == INSTANCE StingyQueue
queueVars == <<pending, active, closed>>
loopVars == <<known, left, loop, lag>>
actorVars == <<pc, item, delay>>
vars == <<queueVars, ch, loopVars, stopCh, actorVars, promise, limiterVars>>

Actors == Workers \cup Callers
None == MaxDuration + 1
Times == -1..MaxDuration

Init ==
    /\ Q!Init
    /\ ch = <<>>
    /\ known = {} /\ left = [i \in Items |-> 0]
    /\ stopCh = "open"
    /\ loop = "top" /\ lag = 0
    /\ pc = [a \in Actors |-> IF a \in Workers THEN "get" ELSE "idle"]
    /\ item = [a \in Actors |-> NoItem]
    /\ delay = [a \in Actors |-> 0]
    /\ promise = [i \in Items |-> None]
    /\ LimiterInit

Goto(a, from, to) ==
    /\ pc[a] = from
    /\ pc' = [pc EXCEPT ![a] = to]

\* Add of the wrapped queue, which ignores what comes after the shutdown.
QueueAdd(i) == IF closed THEN UNCHANGED queueVars ELSE Q!Offer(i)

\* waitingLoop adds i: what was promised for it is kept.
Release(i) ==
    /\ QueueAdd(i)
    /\ promise' = [promise EXCEPT ![i] = None]

-----------------------------------------------------------------------------
(* AddAfter, by worker or caller a *)

\* AddAfter returns: a worker goes on to Done with its item.
Return(a) ==
    /\ pc' = [pc EXCEPT ![a] = IF a \in Workers THEN "done" ELSE "idle"]
    /\ item' = [item EXCEPT ![a] = IF a \in Workers THEN @ ELSE NoItem]
    /\ delay' = [delay EXCEPT ![a] = 0]

\* The shutdown is tested, and the time the entry is due computed.
AddAfter(a) ==
    /\ pc[a] = "addAfter"
    /\ \/ closed /\ Return(a)
       \/ /\ ~closed
          /\ pc' = [pc EXCEPT ![a] = IF delay[a] <= 0 THEN "add" ELSE "send"]
          /\ UNCHANGED <<item, delay>>
    /\ UNCHANGED <<queueVars, ch, loopVars, stopCh, promise, limiterVars>>

\* No delay, or a plain Add
AddNow(a) ==
    /\ pc[a] = "add"
    /\ QueueAdd(item[a])
    /\ Return(a)
    /\ UNCHANGED <<ch, loopVars, stopCh, promise, limiterVars>>

\* Mutant of SendGivesUp: the caller does not listen to stopCh.
SendGivesUp_Never(a) ==
    /\ FALSE
    /\ UNCHANGED vars

\* The select: the channel takes the entry, or the queue was stopped.
SendGivesUp(a) ==
    /\ pc[a] = "send" /\ stopCh = "closed"
    /\ Return(a)
    /\ UNCHANGED <<queueVars, ch, loopVars, stopCh, promise, limiterVars>>

Send(a) ==
    /\ pc[a] = "send" /\ Len(ch) < ChanCap
    /\ Return(a)
    /\ ch' = Append(ch, [item |-> item[a], left |-> delay[a]])
    /\ promise' = [promise EXCEPT ![item[a]] = Smaller(@, delay[a])]
    /\ UNCHANGED <<queueVars, loopVars, stopCh, limiterVars>>

\* A caller begins Add(i) or AddAfter(i, d).
CallAdd(c, i) ==
    /\ Goto(c, "idle", "add")
    /\ item' = [item EXCEPT ![c] = i]
    /\ UNCHANGED <<queueVars, ch, loopVars, stopCh, delay, promise, limiterVars>>

CallAddAfter(c, i, d) ==
    /\ Goto(c, "idle", "addAfter")
    /\ item' = [item EXCEPT ![c] = i]
    /\ delay' = [delay EXCEPT ![c] = d]
    /\ UNCHANGED <<queueVars, ch, loopVars, stopCh, promise, limiterVars>>

-----------------------------------------------------------------------------
(* waitingLoop *)

\* Top of the loop: the shutdown is tested and the clock read.
LoopTop ==
    /\ loop = "top"
    /\ loop' = IF closed THEN "exited" ELSE "pass"
    /\ UNCHANGED <<queueVars, ch, known, left, lag, stopCh, actorVars, promise, limiterVars>>

\* Mutant of Ready: an entry is taken one tick before its time.
Ready_Early(i) == left[i] + lag <= 1

\* !readyAt.After(now), with the now read at the top of the loop
Ready(i) == left[i] + lag <= 0

\* The entry at the root of the heap is ready: popped and added.
LoopPop(i) ==
    /\ loop = "pass"
    /\ i \in known /\ Ready(i) /\ \A j \in known : left[i] <= left[j]
    /\ known' = known \ {i}
    /\ left' = [left EXCEPT ![i] = 0]
    /\ Release(i)
    /\ UNCHANGED <<ch, loop, lag, stopCh, actorVars, limiterVars>>

LoopSelect ==
    /\ loop = "pass"
    /\ \A i \in known : ~Ready(i)
    /\ loop' = "select" /\ lag' = 0
    /\ UNCHANGED <<queueVars, ch, known, left, stopCh, actorVars, promise, limiterVars>>

LoopStop ==
    /\ loop = "select" /\ stopCh = "closed"
    /\ loop' = "exited"
    /\ UNCHANGED <<queueVars, ch, known, left, lag, stopCh, actorVars, promise, limiterVars>>

\* Mutant of LoopHeartbeat: there is no heartbeat.
LoopHeartbeat_Never ==
    /\ FALSE
    /\ UNCHANGED vars

LoopHeartbeat ==
    /\ loop = "select" /\ stopCh # "closed"
    /\ loop' = "top"
    /\ UNCHANGED <<queueVars, ch, known, left, lag, stopCh, actorVars, promise, limiterVars>>

\* The timer set for the first entry fires.
LoopTimer ==
    /\ loop = "select" /\ \E i \in known : left[i] <= 0
    /\ loop' = "top"
    /\ UNCHANGED <<queueVars, ch, known, left, lag, stopCh, actorVars, promise, limiterVars>>

\* Mutant of insert: the later time replaces the earlier one.
insert_Overwrites(e) ==
    /\ known' = known \cup {e.item}
    /\ left' = [left EXCEPT ![e.item] = e.left]

\* Mutant of insert: only an entry that exists is updated.
insert_NoPush(e) ==
    /\ left' = [left EXCEPT ![e.item] = IF e.item \in known THEN Smaller(@, e.left) ELSE @]
    /\ UNCHANGED known

\* An item has one entry in the heap, with the earliest time asked for.
insert(e) ==
    /\ known' = known \cup {e.item}
    /\ left' = [left EXCEPT ![e.item] = IF e.item \in known THEN Smaller(@, e.left) ELSE e.left]

\* An entry is received, by the select or by the loop that drains the channel.
LoopReceive ==
    /\ loop \in {"select", "drain"} /\ ch # <<>>
    /\ ch' = Tail(ch)
    /\ loop' = "drain"
    /\ IF Head(ch).left > 0
       THEN insert(Head(ch)) /\ UNCHANGED <<queueVars, promise>>
       ELSE Release(Head(ch).item) /\ UNCHANGED <<known, left>>
    /\ UNCHANGED <<lag, stopCh, actorVars, limiterVars>>

LoopDrained ==
    /\ loop = "drain" /\ ch = <<>>
    /\ loop' = "top"
    /\ UNCHANGED <<queueVars, ch, known, left, lag, stopCh, actorVars, promise, limiterVars>>

waitingLoop ==
    \/ LoopTop \/ LoopSelect \/ LoopStop \/ LoopTimer \/ LoopReceive \/ LoopDrained
    \/ \E i \in Items : LoopPop(i)

-----------------------------------------------------------------------------
(* Workers: Get, then Forget or AddRateLimited, then Done *)

Get(w, i) ==
    /\ Goto(w, "get", "work")
    /\ Q!Take(i)
    /\ item' = [item EXCEPT ![w] = i]
    /\ UNCHANGED <<ch, loopVars, stopCh, delay, promise, limiterVars>>

GetShutdown(w) ==
    /\ closed /\ pending \ active = {}
    /\ Goto(w, "get", "exited")
    /\ UNCHANGED <<queueVars, ch, loopVars, stopCh, item, delay, promise, limiterVars>>

\* The item was processed, or failed too often.
Finish(w) ==
    /\ Goto(w, "work", "done")
    /\ Forget(item[w])
    /\ UNCHANGED <<queueVars, ch, loopVars, stopCh, item, delay, promise>>

\* Mutant of AddRateLimited: nothing is left to do once the delay is known.
AddRateLimited_OnlyCounts(w) ==
    /\ Goto(w, "work", "done")
    /\ tokens > -MaxDebt
    /\ NumRequeues(item[w]) < MaxRetries
    /\ \E d \in -(MaxDuration + 1)..MaxDuration : When(item[w], d)
    /\ UNCHANGED <<queueVars, ch, loopVars, stopCh, item, delay, promise>>

\* Processing failed: the limiter says how long to wait, AddAfter follows.
AddRateLimited(w) ==
    /\ Goto(w, "work", "addAfter")
    /\ tokens > -MaxDebt
    /\ NumRequeues(item[w]) < MaxRetries
    /\ \E d \in -(MaxDuration + 1)..MaxDuration :
          /\ When(item[w], d)
          /\ delay' = [delay EXCEPT ![w] = d]
    /\ UNCHANGED <<queueVars, ch, loopVars, stopCh, item, promise>>

Done(w) ==
    /\ Goto(w, "done", "get")
    /\ Q!GiveBack(item[w])
    /\ item' = [item EXCEPT ![w] = NoItem]
    /\ UNCHANGED <<ch, loopVars, stopCh, delay, promise, limiterVars>>

-----------------------------------------------------------------------------
(* Shutdown and time *)

\* ShutDown, once: the wrapped queue is shut down, then stopCh is closed and the
\* heartbeat stopped.
ShutDown ==
    /\ stopCh = "open"
    /\ stopCh' = "closing"
    /\ Q!Close
    /\ UNCHANGED <<ch, loopVars, actorVars, promise, limiterVars>>

CloseStopCh ==
    /\ stopCh = "closing"
    /\ stopCh' = "closed"
    /\ UNCHANGED <<queueVars, ch, loopVars, actorVars, promise, limiterVars>>

\* ShutDownWithDrain is the one of the wrapped queue and leaves stopCh open.
ShutDownWithDrain ==
    /\ ~closed
    /\ Q!Close
    /\ UNCHANGED <<ch, loopVars, stopCh, actorVars, promise, limiterVars>>

Sooner(t) == IF t = -1 THEN -1 ELSE t - 1

\* Time passes.  A pass of waitingLoop over the ready entries sees at most one tick.
Tick ==
    /\ loop = "pass" => lag = 0
    /\ lag' = IF loop = "pass" THEN 1 ELSE 0
    /\ ch' = [n \in DOMAIN ch |-> [item |-> ch[n].item, left |-> Sooner(ch[n].left)]]
    /\ left' = [i \in Items |-> IF i \in known THEN Sooner(left[i]) ELSE left[i]]
    /\ delay' = [a \in Actors |-> IF pc[a] = "send" THEN Sooner(delay[a]) ELSE delay[a]]
    /\ promise' = [i \in Items |-> IF promise[i] = None THEN None ELSE Sooner(promise[i])]
    /\ Refill
    /\ UNCHANGED <<queueVars, known, loop, stopCh, pc, item>>

WorkerStep(w) ==
    \/ \E i \in Items : Get(w, i)
    \/ GetShutdown(w) \/ Finish(w) \/ AddRateLimited(w) \/ Done(w)

AddStep(a) == AddAfter(a) \/ AddNow(a) \/ Send(a) \/ SendGivesUp(a)

Next ==
    \/ \E w \in Workers : WorkerStep(w)
    \/ \E a \in Actors : AddStep(a)
    \/ \E c \in Callers, i \in Items :
          CallAdd(c, i) \/ \E d \in Delays : CallAddAfter(c, i, d)
    \/ waitingLoop \/ LoopHeartbeat
    \/ ShutDown \/ CloseStopCh \/ ShutDownWithDrain
    \/ Tick

Spec == Init /\ [][Next]_vars

\* Runnable goroutines run, a channel serves those who wait on it in turn, a
\* select takes a case that is ready again and again,
\* time passes, the heartbeat ticks, ShutDown returns.
\* Nobody has to call the queue or to shut it down.
Fairness ==
    /\ \A a \in Actors : WF_vars(AddStep(a)) /\ SF_vars(Send(a))
    /\ \A w \in Workers : WF_vars(WorkerStep(w))
    /\ WF_vars(waitingLoop) /\ SF_vars(LoopReceive) /\ WF_vars(LoopHeartbeat)
    /\ WF_vars(CloseStopCh) /\ WF_vars(Tick)

FairSpec == Spec /\ Fairness

-----------------------------------------------------------------------------
(* Properties *)

\* The types of the queue's, the loop's and the goroutines' state; the channel holds no
\* more than its capacity.
TypeOK ==
    /\ pending \subseteq Items /\ active \subseteq Items /\ closed \in BOOLEAN
    /\ ch \in Seq([item : Items, left : Times]) /\ Len(ch) <= ChanCap
    /\ known \subseteq Items /\ left \in [Items -> Times]
    /\ stopCh \in {"open", "closing", "closed"}
    /\ loop \in {"top", "pass", "select", "drain", "exited"} /\ lag \in 0..1
    /\ pc \in [Actors -> {"get", "work", "done", "exited", "idle", "addAfter", "add", "send"}]
    /\ item \in [Actors -> Items \cup {NoItem}]
    /\ delay \in [Actors -> Int]
    /\ promise \in [Items -> Times \cup {None}]
    /\ LimiterTypeOK

Held(i) == \E w \in Workers : item[w] = i
Waiting(i, t) == \/ i \in known /\ left[i] <= t
                 \/ \E n \in DOMAIN ch : ch[n].item = i /\ ch[n].left <= t

\* An item that failed and was not forgotten is on its way back to a worker,
\* however its retry, other additions of it and the loop interleave: the queue, the
\* channel, the heap or a worker has it.
RetryNotLost ==
    \A i \in Items : failures[i] > 0 /\ ~closed =>
        i \in pending \/ Held(i) \/ Waiting(i, None)

\* What the earliest AddAfter of an item was promised is kept, whatever entries of
\* the item are in the channel and the heap: one of them is due by then.
PromiseKept == \A i \in Items : promise[i] # None => Waiting(i, promise[i])

\* baseDelay * 2^failures, up to the maximum: what the comment on the exponential
\* limiter says.
Documented(n) == Smaller(MaxDelay, BaseDelay * 2^n)

\* A worker waits at least as long as the limiters document and no longer than a
\* maximal wait allows.  Left out is the one backoff that fits the float but not the
\* duration, 2^63 nanoseconds exactly, which only a base delay that is a power of two
\* can reach.
BackoffRespected ==
    \A w \in Workers : pc[w] = "addAfter" =>
        LET n == failures[item[w]] - 1
        IN  BaseDelay * 2^n # MaxDuration + 1 =>
               CASE limiter = "fastSlow" ->
                       delay[w] = IF n < MaxFastAttempts THEN FastDelay ELSE SlowDelay
                 [] limiter = "maxOf" -> delay[w] >= Documented(n)
                 [] limiter = "maxOfWithMaxWait" ->
                       Smaller(MaxWait, Documented(n)) <= delay[w] /\ delay[w] <= MaxWait

\* Callers do not send so fast that the channel is never found empty.
CallersPause == SF_vars(LoopDrained)

\* What AddAfter accepted is added to the queue in the end, unless it is shut down.
Delivered ==
    CallersPause => \A i \in Items : []<>(promise[i] = None \/ closed)

\* A caller of AddAfter that finds the channel full goes on, and ShutDown frees it.
\* ShutDownWithDrain does not: it ends the loop that empties the channel.
CallersGoOn ==
    \A a \in Actors : []<>(pc[a] # "send" \/ (closed /\ stopCh = "open"))

\* The loop ends with the queue, also when nobody closes stopCh.
LoopEnds == closed ~> loop = "exited"
=============================================================================
