--------------------------- MODULE WorkQueueProofs ---------------------------
(***************************************************************************)
(* Proofs about WorkQueue, for every set of items, workers, drainers and   *)
(* stoppers.                                                               *)
(***************************************************************************)
EXTENDS WorkQueue, FiniteSetTheorems, TLAPS

(* The slice that holds the queue *)

Distinct(s) == \A m, n \in 1..Len(s) : s[m] = s[n] => m = n

\* Appending an item that is not there keeps the elements distinct and adds
\* the item to the range (append in Add and Done of the queues).
LEMMA AppendRange ==
    ASSUME NEW S, NEW q \in Seq(S), NEW x \in S
    PROVE  /\ Append(q, x) \in Seq(S)
           /\ Range(Append(q, x)) = Range(q) \cup {x}
           /\ Distinct(q) /\ x \notin Range(q) => Distinct(Append(q, x))
<1> DEFINE r == Append(q, x)
<1>1. /\ r \in Seq(S) /\ Len(r) = Len(q) + 1
      /\ \A n \in 1..Len(q) : r[n] = q[n]
      /\ r[Len(r)] = x
    OBVIOUS
<1> HIDE DEF r
<1>2. Len(q) \in Nat /\ DOMAIN q = 1..Len(q) /\ DOMAIN r = 1..Len(r)
    BY <1>1
<1>3. Range(r) = Range(q) \cup {x}
    BY <1>1, <1>2 DEF Range
<1>4. ASSUME Distinct(q), x \notin Range(q) PROVE Distinct(r)
    BY <1>1, <1>2, <1>4 DEF Range, Distinct
<1> QED BY <1>1, <1>3, <1>4 DEF r

\* Removing the head of a queue of distinct items removes that item from the
\* range (q.queue[1:] in Get of the queues).
LEMMA TailRange ==
    ASSUME NEW S, NEW q \in Seq(S), q # <<>>, Distinct(q)
    PROVE  /\ Head(q) \in S /\ Head(q) \in Range(q)
           /\ Tail(q) \in Seq(S)
           /\ Range(Tail(q)) = Range(q) \ {Head(q)}
           /\ Distinct(Tail(q))
<1> DEFINE r == Tail(q)
<1>1. /\ r \in Seq(S) /\ Len(r) = Len(q) - 1 /\ Len(q) >= 1
      /\ \A n \in 1..Len(r) : r[n] = q[n + 1]
      /\ Head(q) = q[1] /\ q[1] \in S
    OBVIOUS
<1>2. Len(q) \in Nat /\ DOMAIN q = 1..Len(q) /\ DOMAIN r = 1..Len(r)
    BY <1>1
<1> HIDE DEF r
<1>3. Distinct(r)
    BY <1>1, <1>2 DEF Distinct
<1>4. Range(r) \subseteq Range(q) \ {q[1]}
    BY <1>1, <1>2 DEF Range, Distinct
<1>5. ASSUME NEW n \in 1..Len(q), q[n] # q[1] PROVE q[n] \in Range(r)
    <2>1. n - 1 \in 1..Len(r) /\ r[n - 1] = q[n]
        BY <1>1, <1>2, <1>5
    <2> QED BY <2>1, <1>2 DEF Range
<1>6. Range(r) = Range(q) \ {q[1]}
    BY <1>2, <1>4, <1>5 DEF Range
<1>7. q[1] \in Range(q)
    BY <1>1, <1>2 DEF Range
<1> QED BY <1>1, <1>3, <1>6, <1>7 DEF r

-----------------------------------------------------------------------------

(***************************************************************************)
(* Type correctness, but for the depth gauge: that it never goes below     *)
(* zero rests on MetricsAgree, proved further down.                        *)
(***************************************************************************)

Types ==
    /\ queue \in Seq(Items)
    /\ dirty \subseteq Items
    /\ processing \subseteq Items
    /\ shuttingDown \in BOOLEAN
    /\ drain \in BOOLEAN
    /\ waiting \subseteq Workers \cup Drainers
    /\ pc \in [Actors -> DrainerPC \cup WorkerPC]
    /\ item \in [Workers -> Items \cup {NoItem}]

\* A worker is between Get and Done exactly while it holds an item.
HoldsWhileWorking == \A w \in Workers : pc[w] = "work" <=> item[w] # NoItem

\* Signal parks nobody.
LEMMA SignalWakes == Signal => waiting' \subseteq waiting
BY DEF Signal

\* A new queue is well typed and no worker holds an item.
LEMMA TypesInit == Init => Types /\ HoldsWhileWorking
<1> SUFFICES ASSUME Init PROVE Types /\ HoldsWhileWorking
    OBVIOUS
<1>1. pc \in [Actors -> DrainerPC \cup WorkerPC] /\ \A w \in Workers : pc[w] # "work"
    BY DEF Init, Actors, DrainerPC, StopperPC, WorkerPC
<1>2. item \in [Workers -> Items \cup {NoItem}] /\ \A w \in Workers : item[w] = NoItem
    BY DEF Init
<1>3. HoldsWhileWorking
    BY <1>1, <1>2 DEF HoldsWhileWorking
<1>4. queue \in Seq(Items)
    BY DEF Init
<1>5. shuttingDown \in BOOLEAN /\ drain \in BOOLEAN
    BY Zenon DEF Init
<1> QED BY <1>1, <1>2, <1>3, <1>4, <1>5, Zenon DEF Init, Types

\* Every critical section leaves the fields well typed and keeps the workers'
\* items in step with their positions.
LEMMA TypesStep ==
    ASSUME Types, HoldsWhileWorking, [Next]_vars
    PROVE  Types' /\ HoldsWhileWorking'
<1> USE DEF Types, HoldsWhileWorking, Actors, Goto, fields
<1> USE ActorsDisjoint, NoItemIsNoItem
<1>1. ASSUME NEW i \in Items, Add(i) PROVE Types' /\ HoldsWhileWorking'
    BY <1>1 DEF Add, Enqueue, Signal
<1>2. ASSUME NEW w \in Workers, GetWait(w) PROVE Types' /\ HoldsWhileWorking'
    BY <1>2 DEF GetWait
<1>3. ASSUME NEW w \in Workers, GetShutdown(w) PROVE Types' /\ HoldsWhileWorking'
    BY <1>3 DEF GetShutdown, WorkerPC
<1>4. ASSUME NEW w \in Workers, GetItem(w) PROVE Types' /\ HoldsWhileWorking'
    <2>1. Head(queue) \in Items /\ Tail(queue) \in Seq(Items)
        BY <1>4 DEF GetItem
    <2> QED BY <1>4, <2>1 DEF GetItem, WorkerPC
<1>5. ASSUME NEW w \in Workers, Done(w) PROVE Types' /\ HoldsWhileWorking'
    <2>1. item[w] \in Items
        BY <1>5 DEF Done
    <2>2. queue' \in Seq(Items)
        BY <1>5, <2>1 DEF Done, Enqueue
    <2>3. waiting' \subseteq waiting
        BY <1>5, SignalWakes DEF Done, Enqueue
    <2> QED BY <1>5, <2>2, <2>3 DEF Done, WorkerPC
<1>6. ASSUME NEW s \in Stoppers, ShutDown(s) PROVE Types' /\ HoldsWhileWorking'
    BY <1>6 DEF ShutDown, setDrain, shutdown, Broadcast, DrainerPC, StopperPC
<1>7. ASSUME NEW d \in Drainers, ShutDownWithDrain(d) PROVE Types' /\ HoldsWhileWorking'
    <2> USE DEF DrainerPC, StopperPC
    <2>1. CASE setDrain(d, TRUE)
        BY <2>1 DEF setDrain
    <2>2. CASE shutdown(d, "isProcessing")
        BY <2>2 DEF shutdown, Broadcast
    <2>3. CASE isProcessing(d)
        BY <2>3 DEF isProcessing
    <2>4. CASE shouldDrain(d)
        BY <2>4 DEF shouldDrain
    <2>5. CASE waitForProcessing(d)
        BY <2>5 DEF waitForProcessing
    <2> QED BY <1>7, <2>1, <2>2, <2>3, <2>4, <2>5 DEF ShutDownWithDrain, DrainLoop
<1>8. CASE UNCHANGED vars
    BY <1>8 DEF vars
<1> QED BY <1>1, <1>2, <1>3, <1>4, <1>5, <1>6, <1>7, <1>8 DEF Next, Get, Terminated

(***************************************************************************)
(* The queue's central invariant.  QueueConsistent needs OneWorkerPerItem: *)
(* Done may queue the dirty item only because no other worker holds it.    *)
(***************************************************************************)

Core == Types /\ HoldsWhileWorking /\ QueueConsistent /\ OneWorkerPerItem

\* QueueConsistent in the terms of the lemmas on sequences above.
LEMMA QueueConsistentDef ==
    QueueConsistent <=> Range(queue) = dirty \ processing /\ Distinct(queue)
BY DEF QueueConsistent, Distinct

\* Each critical section preserves the link between the queue, the two sets and
\* the workers' hands.
LEMMA CoreStep ==
    ASSUME Core, [Next]_vars
    PROVE  QueueConsistent' /\ OneWorkerPerItem'
<1>t. Types /\ HoldsWhileWorking /\ Types' /\ HoldsWhileWorking'
    BY TypesStep DEF Core
<1>q. Range(queue) = dirty \ processing /\ Distinct(queue)
    BY QueueConsistentDef DEF Core
<1>o. OneWorkerPerItem
    BY DEF Core
<1>s. ASSUME UNCHANGED <<queue, dirty, processing, item>>
      PROVE  QueueConsistent' /\ OneWorkerPerItem'
    BY <1>s DEF Core, QueueConsistent, OneWorkerPerItem
<1>1. ASSUME NEW i \in Items, Add(i) PROVE QueueConsistent' /\ OneWorkerPerItem'
    <2>1. OneWorkerPerItem'
        BY <1>o, <1>1 DEF Add, OneWorkerPerItem
    <2>2. CASE i \in processing
        BY <1>1, <1>q, <2>1, <2>2 DEF Add, QueueConsistent, Distinct
    <2>3. CASE i \notin processing
        <3>1. i \notin Range(queue)
            BY <1>1, <1>q DEF Add
        <3>2. queue' = Append(queue, i) /\ dirty' = dirty \cup {i} /\ processing' = processing
            BY <1>1, <2>3 DEF Add, Enqueue
        <3>3. Range(queue') = Range(queue) \cup {i} /\ Distinct(queue')
            BY <1>t, <1>q, <3>1, <3>2, AppendRange DEF Types
        <3>4. Range(queue') = dirty' \ processing'
            BY <1>q, <2>3, <3>2, <3>3
        <3> QED BY <2>1, <3>3, <3>4 DEF QueueConsistent, Distinct
    <2> QED BY <2>2, <2>3
<1>2. ASSUME NEW w \in Workers, GetItem(w) PROVE QueueConsistent' /\ OneWorkerPerItem'
    <2> DEFINE i == Head(queue)
    <2>1. /\ i \in Items /\ i \in Range(queue)
          /\ Range(queue') = Range(queue) \ {i}
          /\ Distinct(queue')
        BY <1>t, <1>q, <1>2, TailRange DEF Types, GetItem
    <2>2. /\ processing' = processing \cup {i}
          /\ dirty' = dirty \ {i}
          /\ item' = [item EXCEPT ![w] = i]
          /\ pc[w] = "get"
        BY <1>2 DEF GetItem, Goto
    <2> HIDE DEF i
    <2>3. QueueConsistent'
        <3>1. Range(queue') = dirty' \ processing'
            BY <1>q, <2>1, <2>2
        <3> QED BY <2>1, <3>1 DEF QueueConsistent, Distinct
    <2>4. i \notin processing /\ item[w] = NoItem /\ i # NoItem
        BY <1>q, <1>t, <2>1, <2>2, NoItemIsNoItem DEF HoldsWhileWorking
    <2>5. \A v \in Workers : item'[v] = IF v = w THEN i ELSE item[v]
        BY <1>t, <2>2 DEF Types
    <2>6. OneWorkerPerItem'
        BY <1>o, <2>2, <2>4, <2>5 DEF OneWorkerPerItem
    <2> QED BY <2>3, <2>6
<1>3. ASSUME NEW w \in Workers, Done(w) PROVE QueueConsistent' /\ OneWorkerPerItem'
    <2> DEFINE i == item[w]
    <2>1. /\ i \in Items /\ i # NoItem /\ i \in processing
        BY <1>t, <1>o, <1>3, NoItemIsNoItem DEF Done, Goto, Types, HoldsWhileWorking, OneWorkerPerItem
    <2>2. /\ processing' = processing \ {i}
          /\ dirty' = dirty
          /\ item' = [item EXCEPT ![w] = NoItem]
          /\ i \in dirty => queue' = Append(queue, i)
          /\ i \notin dirty => queue' = queue
        BY <1>3 DEF Done, Enqueue
    <2> HIDE DEF i
    <2>3. QueueConsistent'
        <3>1. CASE i \in dirty
            <4>0. i \notin Range(queue) /\ queue' = Append(queue, i)
                BY <1>q, <2>1, <2>2, <3>1
            <4>1. Range(queue') = Range(queue) \cup {i} /\ Distinct(queue')
                BY <1>t, <1>q, <2>1, <4>0, AppendRange DEF Types
            <4>2. Range(queue') = dirty' \ processing'
                BY <1>q, <2>1, <2>2, <3>1, <4>1
            <4> QED BY <4>1, <4>2 DEF QueueConsistent, Distinct
        <3>2. CASE i \notin dirty
            <4>1. Range(queue') = dirty' \ processing'
                BY <1>q, <2>2, <3>2
            <4> QED BY <1>q, <2>2, <3>2, <4>1 DEF QueueConsistent, Distinct
        <3> QED BY <3>1, <3>2
    <2>4. \A v \in Workers : item'[v] = IF v = w THEN NoItem ELSE item[v]
        BY <1>t, <2>2 DEF Types
    <2>5. OneWorkerPerItem'
        BY <1>o, <2>1, <2>2, <2>4 DEF OneWorkerPerItem, i
    <2> QED BY <2>3, <2>5
<1>4. ASSUME NEW w \in Workers, GetWait(w) \/ GetShutdown(w)
      PROVE  QueueConsistent' /\ OneWorkerPerItem'
    BY <1>4, <1>s DEF GetWait, GetShutdown, fields
<1>5. ASSUME NEW s \in Stoppers, ShutDown(s) PROVE QueueConsistent' /\ OneWorkerPerItem'
    BY <1>5, <1>s DEF ShutDown, setDrain, shutdown
<1>6. ASSUME NEW d \in Drainers, ShutDownWithDrain(d)
      PROVE  QueueConsistent' /\ OneWorkerPerItem'
    BY <1>6, <1>s DEF ShutDownWithDrain, DrainLoop, setDrain, shutdown, isProcessing,
                      shouldDrain, waitForProcessing, fields
<1>7. CASE UNCHANGED vars
    BY <1>7, <1>s DEF vars, fields
<1> QED BY <1>1, <1>2, <1>3, <1>4, <1>5, <1>6, <1>7 DEF Next, Get, Terminated

\* The link between the queue, the two sets and the workers' hands is invariant.
LEMMA CoreInvariant == Spec => []Core
<1>1. Init => Core
    <2> SUFFICES ASSUME Init PROVE QueueConsistent /\ OneWorkerPerItem
        BY TypesInit DEF Core
    <2>1. Range(queue) = {} /\ Len(queue) = 0
        BY DEF Init, Range
    <2> QED BY <2>1 DEF Init, QueueConsistent, OneWorkerPerItem
<1>2. Core /\ [Next]_vars => Core'
    BY TypesStep, CoreStep DEF Core
<1> QED BY <1>1, <1>2, PTL DEF Spec

\* The comment on Type.queue holds at every unlock, whatever the callers do,
\* and no dirty item is ever left out of the queue by Add, Get and Done.
THEOREM QueueIsConsistent == Spec => []QueueConsistent
BY CoreInvariant, PTL DEF Core

\* Get never gives an item to two workers at a time.
THEOREM ItemsHaveOneWorker == Spec => []OneWorkerPerItem
BY CoreInvariant, PTL DEF Core

(***************************************************************************)
(* The metrics.                                                            *)
(***************************************************************************)

MetricsInv == MetricsAgree /\ IsFiniteSet(dirty)

\* Add, Get and Done update the gauges with the sets they describe.
LEMMA MetricsStep ==
    ASSUME Core, MetricsInv, [Next]_vars
    PROVE  MetricsInv'
<1> USE DEF MetricsInv, MetricsAgree
<1>s. ASSUME UNCHANGED <<dirty, processing, metrics>> PROVE MetricsInv'
    BY <1>s DEF metrics
<1>1. ASSUME NEW i \in Items, Add(i) PROVE MetricsInv'
    <2>1. i \notin dirty /\ dirty' = dirty \cup {i} /\ processing' = processing /\ MetricsAdd(i)
        BY <1>1 DEF Add
    <2>2. IsFiniteSet(dirty') /\ Cardinality(dirty') = Cardinality(dirty) + 1
        BY <2>1, FS_AddElement
    <2> QED BY <2>1, <2>2 DEF MetricsAdd
<1>2. ASSUME NEW w \in Workers, GetItem(w) PROVE MetricsInv'
    <2> DEFINE i == Head(queue)
    <2>1. i \in Range(queue)
        BY <1>2, TailRange, QueueConsistentDef DEF GetItem, Core, Types
    <2>2. i \in dirty
        BY <2>1 DEF Core, QueueConsistent
    <2>3. dirty' = dirty \ {i} /\ processing' = processing \cup {i} /\ MetricsGet(i)
        BY <1>2 DEF GetItem
    <2> HIDE DEF i
    <2>4. IsFiniteSet(dirty') /\ Cardinality(dirty') = Cardinality(dirty) - 1
        BY <2>2, <2>3, FS_RemoveElement
    <2> QED BY <2>3, <2>4 DEF MetricsGet
<1>3. ASSUME NEW w \in Workers, Done(w) PROVE MetricsInv'
    BY <1>3 DEF Done, MetricsDone
<1>4. ASSUME NEW w \in Workers, GetWait(w) \/ GetShutdown(w) PROVE MetricsInv'
    BY <1>4, <1>s DEF GetWait, GetShutdown, fields
<1>5. ASSUME NEW s \in Stoppers, ShutDown(s) PROVE MetricsInv'
    BY <1>5, <1>s DEF ShutDown, setDrain, shutdown
<1>6. ASSUME NEW d \in Drainers, ShutDownWithDrain(d) PROVE MetricsInv'
    BY <1>6, <1>s DEF ShutDownWithDrain, DrainLoop, setDrain, shutdown, isProcessing,
                      shouldDrain, waitForProcessing, fields
<1>7. CASE UNCHANGED vars
    BY <1>7, <1>s DEF vars, fields
<1> QED BY <1>1, <1>2, <1>3, <1>4, <1>5, <1>6, <1>7 DEF Next, Get, Terminated

\* The depth gauge and the two maps of start times describe the queue's sets
\* exactly, so the gauge does not drift and the maps do not grow.
THEOREM MetricsAlwaysAgree == Spec => [](MetricsAgree /\ IsFiniteSet(dirty))
<1>1. Init => MetricsInv
    BY FS_EmptySet DEF Init, MetricsInit, MetricsInv, MetricsAgree
<1>2. Core /\ MetricsInv /\ [Next]_vars => MetricsInv'
    BY MetricsStep
<1> QED BY <1>1, <1>2, CoreInvariant, PTL DEF Spec, MetricsInv

\* Every reachable state of the queue is well typed; that the depth gauge is
\* never negative follows from its agreement with the dirty set.
THEOREM TypeCorrect == Spec => []TypeOK
<1>1. Core /\ MetricsAgree /\ IsFiniteSet(dirty) => TypeOK
    <2> SUFFICES ASSUME Core, MetricsAgree, IsFiniteSet(dirty) PROVE TypeOK
        OBVIOUS
    <2>1. depth \in Nat
        BY FS_CardinalityType DEF MetricsAgree
    <2> QED BY <2>1 DEF TypeOK, Core, Types, MetricsAgree
<1> QED BY <1>1, CoreInvariant, MetricsAlwaysAgree, PTL

(***************************************************************************)
(* Condition variable: who sleeps, and that a sleeper is not forgotten.    *)
(***************************************************************************)

\* Where a sleeping goroutine is, and that a drainer looks at the processing
\* set only after it set shuttingDown.
SleepersPlaced ==
    /\ \A w \in Workers : w \in waiting => pc[w] = "get"
    /\ \A d \in Drainers :
          pc[d] \in {"isProcessing", "shouldDrain", "waitForProcessing"} => shuttingDown

Sleep == SleepersPlaced /\ SleepersMatchPhase

\* Workers park before the shutdown only, drainers after it only, and the
\* Broadcast of shutdown() wakes all the workers that parked.
LEMMA SleepStep ==
    ASSUME Core, Sleep, [Next]_vars
    PROVE  Sleep'
<1> USE DEF Sleep, SleepersPlaced, SleepersMatchPhase
<1>t. Types
    BY DEF Core
<1> USE ActorsDisjoint, <1>t DEF Types, Actors, Goto, fields
<1>1. ASSUME NEW i \in Items, Add(i) PROVE Sleep'
    <2>1. waiting' \subseteq waiting
        BY <1>1, SignalWakes DEF Add, Enqueue
    <2> QED BY <1>1, <2>1 DEF Add
<1>2. ASSUME NEW w \in Workers, GetWait(w) PROVE Sleep'
    BY <1>2 DEF GetWait
<1>3. ASSUME NEW w \in Workers, GetShutdown(w) PROVE Sleep'
    BY <1>3 DEF GetShutdown
<1>4. ASSUME NEW w \in Workers, GetItem(w) PROVE Sleep'
    BY <1>4 DEF GetItem
<1>5. ASSUME NEW w \in Workers, Done(w) PROVE Sleep'
    <2>1. waiting' \subseteq waiting
        BY <1>5, SignalWakes DEF Done, Enqueue
    <2> QED BY <1>5, <2>1 DEF Done
<1>6. ASSUME NEW s \in Stoppers, ShutDown(s) PROVE Sleep'
    BY <1>6 DEF ShutDown, setDrain, shutdown, Broadcast
<1>7. ASSUME NEW d \in Drainers, ShutDownWithDrain(d) PROVE Sleep'
    <2>1. CASE setDrain(d, TRUE)
        BY <2>1 DEF setDrain
    <2>2. CASE shutdown(d, "isProcessing")
        BY <2>2 DEF shutdown, Broadcast
    <2>3. CASE isProcessing(d)
        BY <2>3 DEF isProcessing
    <2>4. CASE shouldDrain(d)
        BY <2>4 DEF shouldDrain
    <2>5. CASE waitForProcessing(d)
        BY <2>5 DEF waitForProcessing
    <2> QED BY <1>7, <2>1, <2>2, <2>3, <2>4, <2>5 DEF ShutDownWithDrain, DrainLoop
<1>8. CASE UNCHANGED vars
    BY <1>8 DEF vars
<1> QED BY <1>1, <1>2, <1>3, <1>4, <1>5, <1>6, <1>7, <1>8 DEF Next, Get, Terminated

\* Who may sleep on the condition variable is invariant.
LEMMA SleepInvariant == Spec => []Sleep
<1>1. Init => Sleep
    BY ActorsDisjoint DEF Init, Sleep, SleepersPlaced, SleepersMatchPhase, Actors
<1>2. Core /\ Sleep /\ [Next]_vars => Sleep'
    BY SleepStep
<1> QED BY <1>1, <1>2, CoreInvariant, PTL DEF Spec

\* Before the shutdown only workers sleep on the condition variable and after
\* it only drainers, so a Signal never reaches the wrong kind of sleeper.
THEOREM SleepersAlwaysMatchPhase == Spec => []SleepersMatchPhase
BY SleepInvariant, PTL DEF Sleep

\* The set of workers awake in Get is finite.
LEMMA AwakeFinite == IsFiniteSet(Awake) /\ Cardinality(Awake) \in Nat
BY WorkersFinite, FS_Subset, FS_CardinalityType DEF Awake

\* So is it after a step.
LEMMA AwakeFiniteNext == IsFiniteSet(Awake') /\ Cardinality(Awake') \in Nat
<1>1. Awake' \subseteq Workers
    BY DEF Awake
<1> QED BY <1>1, WorkersFinite, FS_Subset, FS_CardinalityType

\* Queueing an item together with its Signal: if a worker still sleeps
\* afterwards, the Signal has woken another one.
LEMMA EnqueueWakes ==
    ASSUME Core, Sleep, NoLostWakeup, NEW i \in Items, Enqueue(i), ~shuttingDown,
           \A w \in Workers : pc[w] = "get" => pc'[w] = "get"
    PROVE  NoLostWakeup'
<1> SUFFICES ASSUME waiting' \cap Workers # {}
             PROVE  Len(queue') <= Cardinality(Awake')
    BY DEF NoLostWakeup
<1>1. PICK a \in waiting : waiting' = waiting \ {a}
    BY DEF Enqueue, Signal
<1>2. a \in Workers /\ pc[a] = "get"
    BY DEF Sleep, SleepersMatchPhase, SleepersPlaced
<1>3. a \notin Awake /\ Awake \cup {a} \subseteq Awake'
    BY <1>1, <1>2 DEF Awake
<1>4. /\ Cardinality(Awake \cup {a}) = Cardinality(Awake) + 1
      /\ IsFiniteSet(Awake \cup {a})
    BY <1>3, AwakeFinite, FS_AddElement
<1>5. /\ Cardinality(Awake) + 1 <= Cardinality(Awake')
    BY <1>3, <1>4, AwakeFiniteNext, FS_Subset
<1>6. Len(queue) <= Cardinality(Awake)
    BY <1>1, <1>2 DEF NoLostWakeup
<1>7. Len(queue') = Len(queue) + 1 /\ Len(queue) \in Nat
    BY DEF Enqueue, Core, Types
<1> QED BY <1>5, <1>6, <1>7, AwakeFinite, AwakeFiniteNext

\* A step that queues nothing, parks no worker and lets no worker leave Get.
LEMMA NothingQueued ==
    ASSUME Core, NoLostWakeup, queue' = queue, waiting' \cap Workers \subseteq waiting,
           \A w \in Workers : pc[w] = "get" => pc'[w] = "get"
    PROVE  NoLostWakeup'
<1>1. Awake \subseteq Awake'
    BY DEF Awake
<1>2. Cardinality(Awake) <= Cardinality(Awake')
    BY <1>1, AwakeFiniteNext, FS_Subset
<1>3. Len(queue) \in Nat
    BY DEF Core, Types
<1> QED BY <1>2, <1>3, AwakeFinite, AwakeFiniteNext DEF NoLostWakeup

\* Every critical section keeps enough workers awake in Get for what is queued.
LEMMA WakeupStep ==
    ASSUME Core, Sleep, NoLostWakeup, [Next]_vars
    PROVE  NoLostWakeup'
<1>t. Types
    BY DEF Core
<1> USE ActorsDisjoint, <1>t DEF Types, Actors, Goto, fields
<1>1. ASSUME NEW i \in Items, Add(i) PROVE NoLostWakeup'
    BY <1>1, EnqueueWakes, NothingQueued DEF Add
<1>2. ASSUME NEW w \in Workers, GetWait(w) PROVE NoLostWakeup'
    <2>1. Len(queue') = 0
        BY <1>2 DEF GetWait
    <2> QED BY <2>1, AwakeFiniteNext DEF NoLostWakeup
<1>3. ASSUME NEW w \in Workers, GetShutdown(w) PROVE NoLostWakeup'
    <2>1. waiting' \cap Workers = {}
        BY <1>3 DEF GetShutdown, Sleep, SleepersMatchPhase
    <2> QED BY <2>1 DEF NoLostWakeup
<1>4. ASSUME NEW w \in Workers, GetItem(w) PROVE NoLostWakeup'
    <2>1. w \in Awake /\ Awake' = Awake \ {w}
        BY <1>4 DEF GetItem, Awake
    <2>2. Cardinality(Awake') = Cardinality(Awake) - 1
        BY <2>1, AwakeFinite, FS_RemoveElement
    <2>3. Len(queue') = Len(queue) - 1 /\ Len(queue) \in Nat /\ waiting' = waiting
        BY <1>4 DEF GetItem
    <2> QED BY <2>2, <2>3, AwakeFinite DEF NoLostWakeup
<1>5. ASSUME NEW w \in Workers, Done(w) PROVE NoLostWakeup'
    <2>0. \A v \in Workers : pc[v] = "get" => pc'[v] = "get"
        BY <1>5 DEF Done
    <2>1. waiting' \subseteq waiting
        BY <1>5, SignalWakes DEF Done, Enqueue
    <2>2. CASE shuttingDown
        <3>1. waiting' \cap Workers = {}
            BY <2>1, <2>2 DEF Sleep, SleepersMatchPhase
        <3> QED BY <3>1 DEF NoLostWakeup
    <2>3. CASE ~shuttingDown /\ item[w] \in dirty
        <3>1. Enqueue(item[w]) /\ item[w] \in Items
            BY <1>5, <2>3 DEF Done
        <3> QED BY <2>0, <2>3, <3>1, EnqueueWakes
    <2>4. CASE item[w] \notin dirty
        <3>1. queue' = queue
            BY <1>5, <2>4 DEF Done
        <3> QED BY <2>0, <2>1, <3>1, NothingQueued
    <2> QED BY <2>2, <2>3, <2>4
<1>6. ASSUME NEW s \in Stoppers, ShutDown(s) PROVE NoLostWakeup'
    <2>1. queue' = queue /\ waiting' \subseteq waiting
        BY <1>6 DEF ShutDown, setDrain, shutdown, Broadcast
    <2>2. \A w \in Workers : pc[w] = "get" => pc'[w] = "get"
        BY <1>6 DEF ShutDown, setDrain, shutdown
    <2> QED BY <2>1, <2>2, NothingQueued
<1>7. ASSUME NEW d \in Drainers, ShutDownWithDrain(d) PROVE NoLostWakeup'
    <2> USE <1>7 DEF ShutDownWithDrain, DrainLoop, setDrain, shutdown, isProcessing,
                     shouldDrain, waitForProcessing
    <2>1. queue' = queue
        OBVIOUS
    <2>2. waiting' \cap Workers \subseteq waiting
        BY DEF Broadcast
    <2>3. \A w \in Workers : pc[w] = "get" => pc'[w] = "get"
        OBVIOUS
    <2> QED BY <2>1, <2>2, <2>3, NothingQueued
<1>8. CASE UNCHANGED vars
    BY <1>8, NothingQueued DEF vars
<1> QED BY <1>1, <1>2, <1>3, <1>4, <1>5, <1>6, <1>7, <1>8 DEF Next, Get, Terminated

\* No wake-up of Get is lost: as long as a worker sleeps, every queued item has
\* a worker of its own awake in Get.
THEOREM WakeupsAreNotLost == Spec => []NoLostWakeup
<1>1. Init => NoLostWakeup
    BY DEF Init, NoLostWakeup
<1>2. Core /\ Sleep /\ NoLostWakeup /\ [Next]_vars => NoLostWakeup'
    BY WakeupStep
<1> QED BY <1>1, <1>2, CoreInvariant, SleepInvariant, PTL DEF Spec

\* With one caller of ShutDownWithDrain, the Signal of the last Done reaches it:
\* it never sleeps while nothing is being processed.
THEOREM DrainerIsNotStranded ==
    ASSUME \A d, e \in Drainers : d = e
    PROVE  Spec => []DrainerNotStranded
<1>1. Init => DrainerNotStranded
    BY DEF Init, DrainerNotStranded
<1>2. ASSUME Core, Sleep, DrainerNotStranded, [Next]_vars
      PROVE  DrainerNotStranded'
    <2> SUFFICES ASSUME NEW d \in Drainers, d \in waiting', processing' = {}
                 PROVE  FALSE
        BY DEF DrainerNotStranded
    <2> USE <1>2, ActorsDisjoint DEF DrainerNotStranded, fields
    <2>1. ASSUME waiting' \subseteq waiting, processing \subseteq processing' PROVE FALSE
        BY <2>1
    <2>2. ASSUME NEW i \in Items, Add(i) PROVE FALSE
        BY <2>1, <2>2, SignalWakes DEF Add, Enqueue
    <2>3. ASSUME NEW w \in Workers, Get(w) PROVE FALSE
        <3>1. CASE GetWait(w)
            BY <3>1 DEF GetWait
        <3>2. CASE GetShutdown(w)
            BY <2>1, <3>2 DEF GetShutdown
        <3>3. CASE GetItem(w)
            BY <2>1, <3>3 DEF GetItem
        <3> QED BY <2>3, <3>1, <3>2, <3>3 DEF Get
    <2>4. ASSUME NEW w \in Workers, Done(w) PROVE FALSE
        <3>1. Signal
            BY <2>4 DEF Done, Enqueue
        <3>2. d \in waiting /\ processing # {}
            BY <3>1, SignalWakes
        <3>3. d \in waiting' /\ shuttingDown' = shuttingDown
            BY <2>4 DEF Done
        <3>4. CASE shuttingDown
            BY <3>1, <3>2, <3>3, <3>4 DEF Signal, Sleep, SleepersMatchPhase
        <3>5. CASE ~shuttingDown
            BY <3>2, <3>5 DEF Sleep, SleepersMatchPhase
        <3> QED BY <3>4, <3>5
    <2>5. ASSUME NEW s \in Stoppers, ShutDown(s) PROVE FALSE
        BY <2>1, <2>5 DEF ShutDown, setDrain, shutdown, Broadcast
    <2>6. ASSUME NEW e \in Drainers, ShutDownWithDrain(e) PROVE FALSE
        <3>1. processing' = processing
            BY <2>6 DEF ShutDownWithDrain, DrainLoop, setDrain, shutdown, isProcessing,
                        shouldDrain, waitForProcessing
        <3>2. waiting' \subseteq waiting
            BY <2>6, <3>1 DEF ShutDownWithDrain, DrainLoop, setDrain, shutdown, isProcessing,
                              shouldDrain, waitForProcessing, Broadcast
        <3> QED BY <2>1, <3>1, <3>2
    <2>7. CASE UNCHANGED vars
        BY <2>1, <2>7 DEF vars
    <2> QED BY <2>2, <2>3, <2>4, <2>5, <2>6, <2>7 DEF Next, Terminated
<1> QED BY <1>1, <1>2, CoreInvariant, SleepInvariant, PTL DEF Spec

(***************************************************************************)
(* Refinement.                                                             *)
(***************************************************************************)

\* Every critical section is a step of the abstract queue or leaves its state
\* alone: Add offers, Get takes, Done gives back, shutdown() closes.
LEMMA StingyStep ==
    ASSUME Core, [Next]_vars
    PROVE  [Stingy!Next]_(Stingy!vars)
<1> USE DEF Stingy!Next, Stingy!vars, fields
<1>1. ASSUME NEW i \in Items, Add(i) PROVE Stingy!Next
    BY <1>1 DEF Add, Stingy!Offer
<1>2. ASSUME NEW w \in Workers, GetItem(w) PROVE Stingy!Next
    <2>1. Head(queue) \in Items /\ Head(queue) \in Range(queue)
        BY <1>2, TailRange, QueueConsistentDef DEF GetItem, Core, Types
    <2>2. Head(queue) \in dirty \ processing
        BY <2>1 DEF Core, QueueConsistent
    <2> QED BY <1>2, <2>1, <2>2 DEF GetItem, Stingy!Take
<1>3. ASSUME NEW w \in Workers, Done(w) PROVE Stingy!Next
    <2>1. item[w] \in Items /\ item[w] \in processing
        BY <1>3 DEF Done, Goto, Core, Types, HoldsWhileWorking, OneWorkerPerItem
    <2> QED BY <1>3, <2>1 DEF Done, Stingy!GiveBack
<1>4. ASSUME NEW w \in Workers, GetWait(w) \/ GetShutdown(w) PROVE UNCHANGED Stingy!vars
    BY <1>4 DEF GetWait, GetShutdown
<1>5. ASSUME NEW s \in Stoppers, ShutDown(s) PROVE [Stingy!Next]_(Stingy!vars)
    BY <1>5 DEF ShutDown, setDrain, shutdown, Stingy!Close
<1>6. ASSUME NEW d \in Drainers, ShutDownWithDrain(d) PROVE [Stingy!Next]_(Stingy!vars)
    BY <1>6 DEF ShutDownWithDrain, DrainLoop, setDrain, shutdown, isProcessing,
                shouldDrain, waitForProcessing, Stingy!Close
<1>7. CASE UNCHANGED vars
    BY <1>7 DEF vars
<1> QED BY <1>1, <1>2, <1>3, <1>4, <1>5, <1>6, <1>7 DEF Next, Get, Terminated

\* The work queue implements the queue its package comment promises.
THEOREM Refinement == Spec => ImplementsStingyQueue
<1>1. Init => Stingy!Init
    BY DEF Init, Stingy!Init
<1>2. Core /\ [Next]_vars => [Stingy!Next]_(Stingy!vars)
    BY StingyStep
<1> QED BY <1>1, <1>2, CoreInvariant, PTL DEF Spec, Stingy!Spec, ImplementsStingyQueue

\* Shutting down is final and admits no new item, not even through a Done that
\* puts an item back.
THEOREM ShutdownIsFinal == Spec => ClosedForGood
<1>1. ASSUME [Next]_vars PROVE [shuttingDown => shuttingDown' /\ dirty' \subseteq dirty]_vars
    BY <1>1 DEF Next, Add, Get, GetWait, GetShutdown, GetItem, Done, ShutDown, setDrain,
                shutdown, ShutDownWithDrain, DrainLoop, isProcessing, shouldDrain,
                waitForProcessing, Terminated, fields, vars
<1> QED BY <1>1, PTL DEF Spec, ClosedForGood
=============================================================================
