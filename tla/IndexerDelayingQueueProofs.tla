--------------------- MODULE IndexerDelayingQueueProofs ---------------------
(***************************************************************************)
(* Proofs about IndexerDelayingQueue, for every set of keys, versions,     *)
(* delays and goroutines, whether the items implement Compared or not.     *)
(***************************************************************************)
EXTENDS IndexerDelayingQueue, FiniteSetTheorems, TLAPS

(* The slice that holds the queue *)

Distinct(s) == \A m, n \in 1..Len(s) : s[m] = s[n] => m = n

\* Appending an item that is not there keeps the elements distinct and adds
\* the item to the range (append in Add and Done of the queues).
LEMMA AppendRange ==
    ASSUME NEW S, NEW q \in Seq(S), NEW x \in S
    PROVE  /\ Append(q, x) \in Seq(S)
           /\ Range(Append(q, x)) = Range(q) \cup {x}
           /\ Distinct(q) /\ x \notin Range(q) => Distinct(Append(q, x))
<1> DEFINE r == Append(q, x)
<1>1. /\ r \in Seq(S) /\ Len(r) = Len(q) + 1
      /\ \A n \in 1..Len(q) : r[n] = q[n]
      /\ r[Len(r)] = x
    OBVIOUS
<1> HIDE DEF r
<1>2. Len(q) \in Nat /\ DOMAIN q = 1..Len(q) /\ DOMAIN r = 1..Len(r)
    BY <1>1
<1>3. Range(r) = Range(q) \cup {x}
    BY <1>1, <1>2 DEF Range
<1>4. ASSUME Distinct(q), x \notin Range(q) PROVE Distinct(r)
    BY <1>1, <1>2, <1>4 DEF Range, Distinct
<1> QED BY <1>1, <1>3, <1>4 DEF r

\* Removing the head of a queue of distinct items removes that item from the
\* range (q.queue[1:] in Get of the queues).
LEMMA TailRange ==
    ASSUME NEW S, NEW q \in Seq(S), q # <<>>, Distinct(q)
    PROVE  /\ Head(q) \in S /\ Head(q) \in Range(q)
           /\ Tail(q) \in Seq(S)
           /\ Range(Tail(q)) = Range(q) \ {Head(q)}
           /\ Distinct(Tail(q))
<1> DEFINE r == Tail(q)
<1>1. /\ r \in Seq(S) /\ Len(r) = Len(q) - 1 /\ Len(q) >= 1
      /\ \A n \in 1..Len(r) : r[n] = q[n + 1]
      /\ Head(q) = q[1] /\ q[1] \in S
    OBVIOUS
<1>2. Len(q) \in Nat /\ DOMAIN q = 1..Len(q) /\ DOMAIN r = 1..Len(r)
    BY <1>1
<1> HIDE DEF r
<1>3. Distinct(r)
    BY <1>1, <1>2 DEF Distinct
<1>4. Range(r) \subseteq Range(q) \ {q[1]}
    BY <1>1, <1>2 DEF Range, Distinct
<1>5. ASSUME NEW n \in 1..Len(q), q[n] # q[1] PROVE q[n] \in Range(r)
    <2>1. n - 1 \in 1..Len(r) /\ r[n - 1] = q[n]
        BY <1>1, <1>2, <1>5
    <2> QED BY <2>1, <1>2 DEF Range
<1>6. Range(r) = Range(q) \ {q[1]}
    BY <1>2, <1>4, <1>5 DEF Range
<1>7. q[1] \in Range(q)
    BY <1>1, <1>2 DEF Range
<1> QED BY <1>1, <1>3, <1>6, <1>7 DEF r

-----------------------------------------------------------------------------

(***************************************************************************)
(* Types.  TypeOK is split by the groups of variables that actions leave   *)
(* alone as a whole; what the goroutines are doing is added to it.         *)
(***************************************************************************)

Goroutines == Adders \cup Workers \cup Drainers \cup Stoppers
PCs == {"idle", "shouldAdd", "readClock", "index", "decide", "send", "get", "work", "exited",
        "shutdown", "close", "isProcessing", "shouldDrain", "waitForProcessing", "returned"}
Call == [key : Keys, data : Versions, readyAt : 0..MaxTime]
Notice == [key : Keys, readyAt : 0..MaxTime]

ClockOK == now \in 0..MaxTime
EntriesOK ==
    /\ DOMAIN known \subseteq Keys /\ \A k \in DOMAIN known : known[k] \in Entry
    /\ DOMAIN processing \subseteq Keys /\ \A k \in DOMAIN processing : processing[k] \in Entry
    /\ queue \in Seq(Keys) /\ dirty \subseteq Keys
FlagsOK ==
    /\ shuttingDown \in BOOLEAN /\ drain \in BOOLEAN /\ stopCh \in BOOLEAN
    /\ stopOnce \in {"free", "busy", "done"}
LoopOK ==
    /\ channel \in Seq(Notice) /\ Len(channel) <= ChanCap
    /\ DOMAIN heap \subseteq Keys /\ \A k \in DOMAIN heap : heap[k] \in 0..MaxTime
    /\ loop \in {"top", "pop", "select", "drain", "exited"} /\ loopNow \in 0..MaxTime
CondsOK == waiting \subseteq Workers \cup Drainers /\ addWaiting \subseteq Adders
CallsOK ==
    /\ call \in [Adders -> Call \cup {NoItem}]
    /\ \A g \in Adders : pc[g] # "idle" => call[g] \in Call
PcOK == pc \in [Goroutines -> PCs]
ItemsOK == item \in [Workers -> Keys \cup {NoItem}]

\* A worker is between Get and Done exactly while it holds a key.
Holding == \A w \in Workers : pc[w] = "work" <=> item[w] # NoItem

Types ==
    /\ ClockOK /\ EntriesOK /\ FlagsOK /\ LoopOK /\ CondsOK /\ CallsOK /\ PcOK /\ ItemsOK
    /\ Holding

\* The groups make up TypeOK.
LEMMA TypesTypeOK == Types => TypeOK
<1> SUFFICES ASSUME Types PROVE TypeOK
    OBVIOUS
<1>1. \A g \in Adders : call[g] = NoItem \/ call[g] \in Call
    BY Zenon DEF Types, CallsOK
<1> QED
    BY Zenon, <1>1 DEF Types, TypeOK, ClockOK, EntriesOK, FlagsOK, LoopOK, CondsOK, ItemsOK, Call,
                   Notice

\* A group of variables that does not change keeps its type.
LEMMA Frames ==
    /\ ClockOK /\ UNCHANGED now => ClockOK'
    /\ EntriesOK /\ UNCHANGED entries => EntriesOK'
    /\ FlagsOK /\ UNCHANGED flags => FlagsOK'
    /\ LoopOK /\ UNCHANGED loopVars => LoopOK'
    /\ CondsOK /\ UNCHANGED conds => CondsOK'
    /\ CallsOK /\ UNCHANGED <<call, pc>> => CallsOK'
    /\ PcOK /\ UNCHANGED pc => PcOK'
    /\ ItemsOK /\ UNCHANGED item => ItemsOK'
    /\ Holding /\ UNCHANGED <<pc, item>> => Holding'
<1>1. ClockOK /\ UNCHANGED now => ClockOK'
    BY Zenon DEF ClockOK
<1>2. EntriesOK /\ UNCHANGED entries => EntriesOK'
    BY Zenon DEF EntriesOK, entries
<1>3. FlagsOK /\ UNCHANGED flags => FlagsOK'
    BY Zenon DEF FlagsOK, flags
<1>4. LoopOK /\ UNCHANGED loopVars => LoopOK'
    BY Zenon DEF LoopOK, loopVars
<1>5. CondsOK /\ UNCHANGED conds => CondsOK'
    BY Zenon DEF CondsOK, conds
<1>6. CallsOK /\ UNCHANGED <<call, pc>> => CallsOK'
    BY Zenon DEF CallsOK
<1>7. PcOK /\ UNCHANGED pc => PcOK'
    BY Zenon DEF PcOK
<1>8. ItemsOK /\ UNCHANGED item => ItemsOK'
    BY Zenon DEF ItemsOK
<1>9. Holding /\ UNCHANGED <<pc, item>> => Holding'
    BY Zenon DEF Holding
<1> QED BY Zenon, <1>1, <1>2, <1>3, <1>4, <1>5, <1>6, <1>7, <1>8, <1>9

\* What Goto does to the positions.
LEMMA GotoFacts ==
    ASSUME PcOK, NEW g \in Goroutines, NEW from, NEW to \in PCs, Goto(g, from, to)
    PROVE  /\ PcOK' /\ pc[g] = from /\ pc'[g] = to
           /\ \A h \in Goroutines : h # g => pc'[h] = pc[h]
BY Zenon DEF PcOK, Goto

\* A step of a goroutine that is no worker leaves the workers' hands alone.
LEMMA OthersHold ==
    ASSUME PcOK, Holding, NEW g \in Goroutines \ Workers, NEW from, NEW to \in PCs,
           Goto(g, from, to), UNCHANGED item
    PROVE  Holding'
BY Zenon, GotoFacts DEF Holding, Goroutines

\* A step of a goroutine that is no adder leaves the adders' calls alone.
LEMMA OthersCall ==
    ASSUME PcOK, CallsOK, NEW g \in Goroutines \ Adders, NEW from, NEW to \in PCs,
           Goto(g, from, to), UNCHANGED call
    PROVE  CallsOK'
BY Zenon, GotoFacts DEF CallsOK, Goroutines

\* The step of an adder ends its call, or begins or goes on with one.
LEMMA AdderCalls ==
    ASSUME PcOK, CallsOK, NEW g \in Adders, NEW from, NEW to \in PCs, Goto(g, from, to),
           NEW c \in Call \cup {NoItem}, call' = [call EXCEPT ![g] = c],
           to # "idle" => c \in Call
    PROVE  CallsOK'
<1>1. /\ pc'[g] = to /\ \A h \in Adders : h # g => pc'[h] = pc[h]
    BY Zenon, GotoFacts DEF Goroutines
<1>2. /\ call' \in [Adders -> Call \cup {NoItem}] /\ call'[g] = c
      /\ \A h \in Adders : h # g => call'[h] = call[h]
    BY Zenon DEF CallsOK
<1> QED BY Zenon, <1>1, <1>2 DEF CallsOK

\* Removing an entry.
LEMMA WithoutFacts ==
    ASSUME NEW f, NEW k
    PROVE  /\ DOMAIN Without(f, k) = DOMAIN f \ {k}
           /\ \A x \in DOMAIN f : x # k => Without(f, k)[x] = f[x]
BY DEF Without, Restrict

\* Signals wake at most one goroutine and park nobody.
LEMMA SignalTypes ==
    /\ CondsOK /\ Signal => waiting' \subseteq waiting
    /\ CondsOK /\ SignalAdd => addWaiting' \subseteq addWaiting
BY Zenon DEF Signal, SignalAdd

(***************************************************************************)
(* The invariants.  They rest on each other: Get finds an entry because    *)
(* queued keys are dirty and dirty keys have entries, and Done may queue a *)
(* dirty key because no other worker holds it.                             *)
(***************************************************************************)

Safe == IndexConsistent /\ OneWorkerPerKey /\ NeverEarly /\ NoStaleVersion
Inv == Types /\ Safe

\* IndexConsistent in the terms of the lemmas on slices.
LEMMA IndexConsistentDef ==
    IndexConsistent <=> /\ dirty \subseteq DOMAIN known
                        /\ Range(queue) = dirty \ DOMAIN processing
                        /\ Distinct(queue)
BY Zenon DEF IndexConsistent, Distinct

\* Time may pass, and goroutines move, without harm.
LEMMA QuietSafe ==
    ASSUME Inv, UNCHANGED entries, UNCHANGED item, now' \in Int, now <= now'
    PROVE  Safe'
<1>1. UNCHANGED <<known, processing, queue, dirty>>
    BY Zenon DEF entries
<1>2. IndexConsistent' /\ OneWorkerPerKey' /\ NoStaleVersion'
    BY <1>1 DEF Inv, Safe, IndexConsistent, OneWorkerPerKey, NoStaleVersion
<1>3. ASSUME NEW k \in dirty PROVE known[k].readyAt \in Int /\ known[k].readyAt <= now
    <2>1. k \in DOMAIN known
        BY Zenon DEF Inv, Safe, IndexConsistent
    <2>2. known[k] \in Entry
        BY Zenon, <2>1 DEF Inv, Types, EntriesOK
    <2>3. known[k].readyAt \in 0..MaxTime
        BY Zenon, <2>2 DEF Entry
    <2> QED BY <2>3, <1>3, QueueAssumption DEF Inv, Safe, NeverEarly
<1>4. now \in Int
    BY QueueAssumption DEF Inv, Types, ClockOK
<1>5. NeverEarly'
    BY <1>1, <1>3, <1>4 DEF NeverEarly
<1> QED BY Zenon, <1>2, <1>5 DEF Safe

\* push makes a key dirty that has an entry and is due, and queues it unless it is
\* being processed.
LEMMA PushSafe ==
    ASSUME Inv, NEW k \in Keys, push(k), UNCHANGED <<now, known, processing, item>>
    PROVE  EntriesOK' /\ Safe' /\ waiting' \subseteq waiting
<1>1. /\ dirty \subseteq DOMAIN known /\ Range(queue) = dirty \ DOMAIN processing
      /\ Distinct(queue)
    BY Zenon, IndexConsistentDef DEF Inv, Safe
<1>2. OneWorkerPerKey' /\ NoStaleVersion'
    BY Zenon DEF Inv, Safe, OneWorkerPerKey, NoStaleVersion
<1>3. CASE ~MayPush(k)
    <2>1. UNCHANGED <<queue, dirty, waiting>>
        BY Zenon, <1>3 DEF push
    <2>2. IndexConsistent' /\ NeverEarly'
        BY Zenon, <2>1 DEF Inv, Safe, IndexConsistent, NeverEarly
    <2>3. EntriesOK'
        BY Zenon, <2>1 DEF Inv, Types, EntriesOK
    <2> QED BY Zenon, <1>2, <2>1, <2>2, <2>3 DEF Safe
<1>4. CASE MayPush(k)
    <2>1. k \in DOMAIN known /\ known[k].readyAt <= now /\ k \notin dirty
        BY Zenon, <1>4 DEF MayPush
    <2>2. /\ dirty' = dirty \cup {k}
          /\ k \in DOMAIN processing => UNCHANGED <<queue, waiting>>
          /\ k \notin DOMAIN processing => Enqueue(k)
        BY Zenon, <1>4 DEF push
    <2>3. NeverEarly'
        BY Zenon, <2>1, <2>2 DEF Inv, Safe, NeverEarly
    <2>4. dirty' \subseteq DOMAIN known' /\ dirty' \subseteq Keys
        BY Zenon, <1>1, <2>1, <2>2 DEF Inv, Types, EntriesOK
    <2>5. /\ queue' \in Seq(Keys) /\ Distinct(queue') /\ waiting' \subseteq waiting
          /\ Range(queue') = dirty' \ DOMAIN processing'
        <3>1. CASE k \in DOMAIN processing
            BY Zenon, <3>1, <1>1, <2>2 DEF Inv, Types, EntriesOK
        <3>2. CASE k \notin DOMAIN processing
            <4>1. queue' = Append(queue, k) /\ Signal
                BY Zenon, <3>2, <2>2 DEF Enqueue
            <4>2. waiting' \subseteq waiting
                BY Zenon, <4>1, SignalTypes DEF Inv, Types
            <4>3. /\ queue' \in Seq(Keys) /\ Distinct(queue')
                  /\ Range(queue') = Range(queue) \cup {k}
                <5>1. k \notin Range(queue) /\ queue \in Seq(Keys)
                    BY Zenon, <1>1, <2>1 DEF Inv, Types, EntriesOK
                <5> QED BY <5>1, <1>1, <4>1, AppendRange
            <4> QED BY Zenon, <1>1, <2>2, <3>2, <4>2, <4>3
        <3> QED BY Zenon, <3>1, <3>2
    <2>6. IndexConsistent'
        BY Zenon, <2>4, <2>5 DEF IndexConsistent, Distinct
    <2>7. EntriesOK'
        BY Zenon, <2>4, <2>5 DEF Inv, Types, EntriesOK
    <2> QED BY Zenon, <1>2, <2>3, <2>5, <2>6, <2>7 DEF Safe
<1> QED BY Zenon, <1>3, <1>4

\* Get moves the entry of the key at the head of the queue to processingEntries.
LEMMA GetItemSafe ==
    ASSUME Inv, NEW w \in Workers, GetItem(w)
    PROVE  EntriesOK' /\ Safe' /\ Head(queue) \in Keys /\ item[w] = NoItem
           /\ Stingy!Take(Head(queue))
<1> DEFINE k == Head(queue)
<1>1. /\ dirty \subseteq DOMAIN known /\ Range(queue) = dirty \ DOMAIN processing
      /\ Distinct(queue) /\ queue \in Seq(Keys) /\ queue # <<>>
    BY Zenon, IndexConsistentDef DEF Inv, Safe, Types, EntriesOK, GetItem
<1>2. /\ k \in Keys /\ k \in Range(queue) /\ queue' \in Seq(Keys)
      /\ Range(queue') = Range(queue) \ {k} /\ Distinct(queue')
    BY Zenon, <1>1, TailRange DEF GetItem
<1>3. /\ item' = [item EXCEPT ![w] = k]
      /\ processing' = Put(processing, k, known[k])
      /\ dirty' = dirty \ {k} /\ known' = Without(known, k)
      /\ now' = now /\ shuttingDown' = shuttingDown /\ pc[w] = "get"
    BY Zenon DEF GetItem, flags, Goto
<1> HIDE DEF k
<1>4. k \in dirty /\ k \in DOMAIN known /\ k \notin DOMAIN processing
    BY Zenon, <1>1, <1>2
<1>5. /\ DOMAIN processing' = DOMAIN processing \cup {k} /\ processing'[k] = known[k]
      /\ \A x \in DOMAIN processing : x # k => processing'[x] = processing[x]
    BY <1>3 DEF Put
<1>6. /\ DOMAIN known' = DOMAIN known \ {k}
      /\ \A x \in DOMAIN known : x # k => known'[x] = known[x]
    BY Zenon, <1>3, WithoutFacts
<1>7. EntriesOK'
    BY Zenon, <1>2, <1>3, <1>4, <1>5, <1>6 DEF Inv, Types, EntriesOK
<1>8. IndexConsistent'
    <2>1. Range(queue') = dirty' \ DOMAIN processing' /\ dirty' \subseteq DOMAIN known'
        BY Zenon, <1>1, <1>2, <1>3, <1>5, <1>6
    <2> QED BY Zenon, <2>1, <1>2 DEF IndexConsistent, Distinct
<1>9. NeverEarly'
    BY Zenon, <1>1, <1>3, <1>6 DEF Inv, Safe, NeverEarly
<1>10. NoStaleVersion'
    BY Zenon, <1>4, <1>5, <1>6 DEF Inv, Safe, NoStaleVersion
<1>11. item[w] = NoItem
    BY Zenon, <1>3 DEF Inv, Types, Holding
<1>12. OneWorkerPerKey'
    <2>1. item'[w] = k /\ \A v \in Workers : v # w => item'[v] = item[v]
        BY Zenon, <1>3 DEF Inv, Types, ItemsOK
    <2>2. k # NoItem /\ \A v \in Workers : item[v] # k
        BY Zenon, <1>2, <1>4, QueueAssumption DEF Inv, Safe, OneWorkerPerKey
    <2>3. DOMAIN processing = {item[v] : v \in Workers} \ {NoItem}
        BY Zenon DEF Inv, Safe, OneWorkerPerKey
    <2>4. DOMAIN processing' = {item'[v] : v \in Workers} \ {NoItem}
        BY <2>1, <2>2, <2>3, <1>5, <1>11
    <2> QED BY Zenon, <2>1, <2>2, <2>4 DEF Inv, Safe, OneWorkerPerKey
<1>13. Stingy!Take(k)
    BY Zenon, <1>3, <1>4, <1>5 DEF Stingy!Take
<1> QED BY Zenon, <1>2, <1>7, <1>8, <1>9, <1>10, <1>11, <1>12, <1>13 DEF Safe, k

\* Done gives the key back and queues it when it became dirty in the meantime.
LEMMA DoneSafe ==
    ASSUME Inv, NEW w \in Workers, Done(w)
    PROVE  EntriesOK' /\ Safe' /\ waiting' \subseteq waiting /\ item[w] \in Keys
           /\ Stingy!GiveBack(item[w])
<1> DEFINE k == item[w]
<1>1. /\ dirty \subseteq DOMAIN known /\ Range(queue) = dirty \ DOMAIN processing
      /\ Distinct(queue) /\ queue \in Seq(Keys)
    BY Zenon, IndexConsistentDef DEF Inv, Safe, Types, EntriesOK
<1>2. /\ item' = [item EXCEPT ![w] = NoItem] /\ pc[w] = "work"
      /\ processing' = Without(processing, k)
      /\ k \in dirty => Enqueue(k)
      /\ k \notin dirty => UNCHANGED queue /\ (Signal \/ UNCHANGED waiting)
      /\ dirty' = dirty /\ known' = known /\ now' = now /\ shuttingDown' = shuttingDown
    BY Zenon DEF Done, flags, Goto
<1>3. k # NoItem /\ k \in Keys
    BY Zenon, <1>2 DEF Inv, Types, Holding, ItemsOK
<1>4. k \in DOMAIN processing /\ \A v \in Workers : v # w => item[v] # k
    BY Zenon, <1>3 DEF Inv, Safe, OneWorkerPerKey
<1>5. item'[w] = NoItem /\ \A v \in Workers : v # w => item'[v] = item[v]
    BY Zenon, <1>2 DEF Inv, Types, ItemsOK
<1> HIDE DEF k
<1>6. /\ DOMAIN processing' = DOMAIN processing \ {k}
      /\ \A x \in DOMAIN processing : x # k => processing'[x] = processing[x]
    BY Zenon, <1>2, WithoutFacts
<1>7. /\ queue' \in Seq(Keys) /\ Distinct(queue') /\ waiting' \subseteq waiting
      /\ Range(queue') = dirty' \ DOMAIN processing'
    <2>1. CASE k \in dirty
        <3>1. queue' = Append(queue, k) /\ Signal /\ k \notin Range(queue)
            BY Zenon, <1>1, <1>2, <1>4, <2>1 DEF Enqueue
        <3>2. /\ queue' \in Seq(Keys) /\ Distinct(queue')
              /\ Range(queue') = Range(queue) \cup {k}
            BY <3>1, <1>1, <1>3, AppendRange
        <3>3. waiting' \subseteq waiting
            BY Zenon, <3>1, SignalTypes DEF Inv, Types
        <3> QED BY Zenon, <3>2, <3>3, <1>1, <1>2, <1>6, <2>1
    <2>2. CASE k \notin dirty
        <3>1. waiting' \subseteq waiting
            BY Zenon, <2>2, <1>2, SignalTypes DEF Inv, Types
        <3> QED BY Zenon, <3>1, <2>2, <1>1, <1>2, <1>6
    <2> QED BY Zenon, <2>1, <2>2
<1>8. EntriesOK'
    BY Zenon, <1>2, <1>6, <1>7 DEF Inv, Types, EntriesOK
<1>9. IndexConsistent'
    BY Zenon, <1>1, <1>2, <1>7 DEF IndexConsistent, Distinct
<1>10. NeverEarly' /\ NoStaleVersion'
    BY Zenon, <1>2, <1>6 DEF Inv, Safe, NeverEarly, NoStaleVersion
<1>11. OneWorkerPerKey'
    <2>1. DOMAIN processing = {item[v] : v \in Workers} \ {NoItem}
        BY Zenon DEF Inv, Safe, OneWorkerPerKey
    <2>2. item[w] = k
        BY DEF k
    <2>3. DOMAIN processing' = {item'[v] : v \in Workers} \ {NoItem}
        BY <2>1, <2>2, <1>4, <1>5, <1>6
    <2> QED BY Zenon, <2>3, <1>5 DEF Inv, Safe, OneWorkerPerKey
<1>12. Stingy!GiveBack(k)
    BY Zenon, <1>2, <1>4, <1>6 DEF Stingy!GiveBack
<1> QED BY Zenon, <1>3, <1>7, <1>8, <1>9, <1>10, <1>11, <1>12 DEF Safe, k

\* Writing an entry that is due if the key is dirty, and no older than what is being
\* processed, keeps the invariants.
LEMMA WriteSafe ==
    ASSUME Inv, NEW k \in Keys, NEW e \in Entry, known' = Put(known, k, e),
           UNCHANGED <<now, processing, queue, dirty, item>>,
           k \in dirty => e.readyAt <= now,
           Compared /\ k \in DOMAIN processing => e.data >= processing[k].data
    PROVE  EntriesOK' /\ Safe'
<1>1. /\ DOMAIN known' = DOMAIN known \cup {k} /\ known'[k] = e
      /\ \A x \in DOMAIN known : x # k => known'[x] = known[x]
    BY DEF Put
<1>2. EntriesOK'
    BY Zenon, <1>1 DEF Inv, Types, EntriesOK
<1>3. IndexConsistent'
    <2>1. dirty' \subseteq DOMAIN known'
        BY Zenon, <1>1 DEF Inv, Safe, IndexConsistent
    <2> QED BY Zenon, <2>1 DEF Inv, Safe, IndexConsistent
<1>4. OneWorkerPerKey'
    BY Zenon DEF Inv, Safe, OneWorkerPerKey
<1>5. NeverEarly'
    BY Zenon, <1>1 DEF Inv, Safe, NeverEarly, IndexConsistent
<1>6. NoStaleVersion'
    <2> SUFFICES ASSUME Compared, NEW x \in DOMAIN known' \cap DOMAIN processing
                 PROVE  known'[x].data >= processing[x].data
        BY Zenon DEF NoStaleVersion
    <2>1. CASE x = k
        BY Zenon, <2>1, <1>1
    <2>2. CASE x # k
        BY Zenon, <2>2, <1>1 DEF Inv, Safe, NoStaleVersion
    <2> QED BY Zenon, <2>1, <2>2
<1> QED BY Zenon, <1>2, <1>3, <1>4, <1>5, <1>6 DEF Safe

\* The critical section of AddAfter: the earlier time and, of comparable items, the
\* newer version win.
LEMMA IndexSafe ==
    ASSUME Inv, NEW g \in Adders, Index(g)
    PROVE  EntriesOK' /\ Safe'
<1> DEFINE c == call[g]
           k == c.key
           old == known[k]
           indexed == [data |-> IF LessOrEqual(old.data, c.data) THEN c.data ELSE old.data,
                       readyAt |-> IF old.readyAt > c.readyAt THEN c.readyAt ELSE old.readyAt]
           new == [data |-> c.data, readyAt |-> c.readyAt]
<1>1. c \in Call /\ k \in Keys /\ c.data \in Versions /\ c.readyAt \in 0..MaxTime
    <2>1. c \in Call
        BY Zenon DEF Inv, Types, CallsOK, Index
    <2> QED BY <2>1 DEF Call
<1>2. UNCHANGED <<now, processing, queue, dirty, item>>
    BY Zenon DEF Index
<1>3. \/ known' = known
      \/ k \in DOMAIN known /\ known' = Put(known, k, indexed)
      \/ k \notin DOMAIN known /\ ~StaleFor(k, c.data) /\ known' = Put(known, k, new)
    BY Zenon DEF Index
<1>4. /\ Versions \subseteq Int /\ 0..MaxTime \subseteq Int /\ now \in Int
    BY QueueAssumption DEF Inv, Types, ClockOK
<1>5. ASSUME NEW x \in DOMAIN processing PROVE processing[x].data \in Versions
    BY Zenon, <1>5 DEF Inv, Types, EntriesOK, Entry
<1>6. CASE known' = known
    <2>1. UNCHANGED entries
        BY Zenon, <1>2, <1>6 DEF entries
    <2>2. now' \in Int /\ now <= now'
        BY <1>2, <1>4
    <2> QED BY Zenon, <1>2, <2>1, <2>2, QuietSafe, Frames DEF Inv, Types
<1>7. CASE k \in DOMAIN known /\ known' = Put(known, k, indexed)
    <2>1. old \in Entry
        BY Zenon, <1>7 DEF Inv, Types, EntriesOK
    <2>2. old.data \in Versions /\ old.readyAt \in 0..MaxTime
        BY <2>1 DEF Entry
    <2>3. k \in dirty => old.readyAt <= now
        BY Zenon DEF Inv, Safe, NeverEarly
    <2>4. Compared /\ k \in DOMAIN processing => old.data >= processing[k].data
        BY Zenon, <1>7 DEF Inv, Safe, NoStaleVersion
    <2> HIDE DEF c, k, old
    <2>5. indexed \in Entry
        BY <1>1, <2>2 DEF Entry
    <2>6. k \in dirty => indexed.readyAt <= now
        BY <1>1, <1>4, <2>2, <2>3
    <2>7. Compared /\ k \in DOMAIN processing => indexed.data >= processing[k].data
        <3> SUFFICES ASSUME Compared, k \in DOMAIN processing
                     PROVE  indexed.data >= processing[k].data
            OBVIOUS
        <3>1. indexed.data = IF old.data <= c.data THEN c.data ELSE old.data
            BY DEF LessOrEqual
        <3>2. processing[k].data \in Int /\ old.data \in Int /\ c.data \in Int
            BY Zenon, <1>1, <1>4, <1>5, <2>2
        <3>3. old.data >= processing[k].data
            BY <2>4
        <3> QED BY <3>1, <3>2, <3>3
    <2> HIDE DEF indexed
    <2> QED BY Zenon, <1>1, <1>2, <1>7, <2>5, <2>6, <2>7, WriteSafe
<1>8. CASE k \notin DOMAIN known /\ ~StaleFor(k, c.data) /\ known' = Put(known, k, new)
    <2>1. k \notin dirty
        BY Zenon, <1>8 DEF Inv, Safe, IndexConsistent
    <2> HIDE DEF c, k
    <2>2. new \in Entry /\ new.data = c.data
        BY <1>1 DEF Entry
    <2>3. Compared /\ k \in DOMAIN processing => new.data >= processing[k].data
        BY <1>1, <1>4, <1>5, <1>8, <2>2 DEF StaleFor, LessOrEqual
    <2> HIDE DEF new
    <2> QED BY Zenon, <1>1, <1>2, <1>8, <2>1, <2>2, <2>3, WriteSafe
<1> QED BY Zenon, <1>3, <1>6, <1>7, <1>8

(***************************************************************************)
(* The steps.                                                              *)
(***************************************************************************)

\* A step that leaves the clock, the entries and the workers' hands alone only has to
\* keep the types of what it changes.
LEMMA QuietStep ==
    ASSUME Inv, UNCHANGED <<now, entries, item>>,
           FlagsOK', LoopOK', CondsOK', CallsOK', PcOK', Holding'
    PROVE  Inv'
<1>1. ClockOK' /\ EntriesOK' /\ ItemsOK'
    BY Zenon, Frames DEF Inv, Types
<1>2. now' \in Int /\ now <= now'
    BY QueueAssumption DEF Inv, Types, ClockOK
<1>3. Safe'
    BY Zenon, <1>2, QuietSafe
<1> QED BY Zenon, <1>1, <1>3 DEF Inv, Types

\* The clock only moves forward.
LEMMA TickStep == ASSUME Inv, Tick PROVE Inv'
<1>1. UNCHANGED <<entries, flags, loopVars, conds, pc, call, item>> /\ now < MaxTime
      /\ now' = now + 1
    BY Zenon DEF Tick
<1>2. ClockOK' /\ now' \in Int /\ now <= now'
    BY <1>1, QueueAssumption DEF Inv, Types, ClockOK
<1>3. Safe'
    BY Zenon, <1>1, <1>2, QuietSafe
<1> QED BY Zenon, <1>1, <1>2, <1>3, Frames DEF Inv, Types

\* An adder begins a call.
LEMMA BeginCallStep ==
    ASSUME Inv, NEW g \in Adders, NEW to \in {"shouldAdd", "index"}, NEW k \in Keys,
           NEW v \in Versions, NEW at \in 0..MaxTime, BeginCall(g, to, k, v, at)
    PROVE  Inv'
<1> DEFINE c == [key |-> k, data |-> v, readyAt |-> at]
<1>1. /\ UNCHANGED <<now, entries, flags, loopVars, conds, item>>
      /\ Goto(g, "idle", to) /\ call' = [call EXCEPT ![g] = c]
    BY Zenon DEF BeginCall
<1>2. c \in Call /\ to \in PCs /\ g \in Goroutines \ Workers
    BY ActorsDisjoint DEF Call, PCs, Goroutines
<1> HIDE DEF c
<1>3. PcOK' /\ CallsOK' /\ Holding'
    BY Zenon, <1>1, <1>2, GotoFacts, AdderCalls, OthersHold DEF Inv, Types
<1> QED BY Zenon, <1>1, <1>3, Frames, QuietStep DEF Inv, Types

\* A call of Add is not due before the queue looks at the clock, one of AddAfter is at
\* the time it asks for.
LEMMA CallStep ==
    ASSUME Inv, NEW g \in Adders, NEW k \in Keys, NEW v \in Versions,
           Add(g, k, v) \/ \E delay \in Delays : AddAfter(g, k, v, delay)
    PROVE  Inv'
<1>1. CASE Add(g, k, v)
    <2>1. 0 \in 0..MaxTime
        BY QueueAssumption
    <2> QED BY Zenon, <1>1, <2>1, BeginCallStep DEF Add
<1>2. ASSUME NEW delay \in Delays, AddAfter(g, k, v, delay) PROVE Inv'
    <2>1. now + delay \in 0..MaxTime
        BY <1>2, QueueAssumption DEF AddAfter, Inv, Types, ClockOK
    <2> QED BY Zenon, <1>2, <2>1, BeginCallStep DEF AddAfter
<1> QED BY Zenon, <1>1, <1>2

\* An adder that finds the queue full waits, another one goes on.
LEMMA shouldAddStep == ASSUME Inv, NEW g \in Adders, shouldAdd(g) PROVE Inv'
<1>1. UNCHANGED <<now, entries, flags, loopVars, waiting, call, item>>
    BY Zenon DEF shouldAdd
<1>2. g \in Goroutines \ Workers /\ "readClock" \in PCs
    BY Zenon, ActorsDisjoint DEF PCs, Goroutines
<1>3. CASE UNCHANGED pc /\ addWaiting' = addWaiting \cup {g}
    <2>1. CondsOK'
        BY Zenon, <1>1, <1>3 DEF Inv, Types, CondsOK
    <2> QED BY Zenon, <1>1, <1>3, <2>1, Frames, QuietStep DEF Inv, Types
<1>4. CASE Goto(g, "shouldAdd", "readClock") /\ UNCHANGED addWaiting
    <2>1. PcOK' /\ Holding' /\ pc[g] = "shouldAdd"
        BY Zenon, <1>1, <1>2, <1>4, GotoFacts, OthersHold DEF Inv, Types
    <2>2. CallsOK'
        <3>1. \A h \in Adders : h # g => pc'[h] = pc[h]
            BY Zenon, <1>2, <1>4, GotoFacts DEF Inv, Types, Goroutines
        <3> QED BY Zenon, <1>1, <2>1, <3>1 DEF Inv, Types, CallsOK
    <2>3. CondsOK'
        BY Zenon, <1>1, <1>4 DEF Inv, Types, CondsOK
    <2> QED BY Zenon, <1>1, <2>1, <2>2, <2>3, Frames, QuietStep DEF Inv, Types
<1> QED BY Zenon, <1>3, <1>4 DEF shouldAdd

\* Add makes the item due now, or fails when it has no key.
LEMMA ReadClockStep == ASSUME Inv, NEW g \in Adders, ReadClock(g) PROVE Inv'
<1>1. UNCHANGED <<now, entries, flags, loopVars, conds, item>>
    BY Zenon DEF ReadClock
<1>2. g \in Goroutines \ Workers /\ "index" \in PCs /\ "idle" \in PCs
    BY Zenon, ActorsDisjoint DEF PCs, Goroutines
<1>3. CASE Goto(g, "readClock", "index") /\ call' = [call EXCEPT ![g].readyAt = now]
    <2> DEFINE c == [call[g] EXCEPT !.readyAt = now]
    <2>1. pc[g] = "readClock"
        BY Zenon, <1>3 DEF Goto
    <2>2. call[g] \in Call
        BY Zenon, <2>1 DEF Inv, Types, CallsOK
    <2>3. c \in Call
        BY <2>2 DEF Call, Inv, Types, ClockOK
    <2>4. call' = [call EXCEPT ![g] = c]
        BY Zenon, <1>3
    <2> HIDE DEF c
    <2>5. PcOK' /\ CallsOK' /\ Holding'
        BY Zenon, <1>1, <1>2, <1>3, <2>3, <2>4, GotoFacts, AdderCalls, OthersHold DEF Inv, Types
    <2> QED BY Zenon, <1>1, <2>5, Frames, QuietStep DEF Inv, Types
<1>4. CASE Goto(g, "readClock", "idle") /\ call' = [call EXCEPT ![g] = NoItem]
    <2>1. PcOK' /\ CallsOK' /\ Holding'
        BY Zenon, <1>1, <1>2, <1>4, GotoFacts, AdderCalls, OthersHold DEF Inv, Types
    <2> QED BY Zenon, <1>1, <2>1, Frames, QuietStep DEF Inv, Types
<1> QED BY Zenon, <1>3, <1>4 DEF ReadClock

\* The critical section of AddAfter, as a step of its adder.
LEMMA IndexStep == ASSUME Inv, NEW g \in Adders, Index(g) PROVE Inv'
<1>1. UNCHANGED <<now, flags, loopVars, conds, item>>
      /\ call' = [call EXCEPT ![g] = IF pc'[g] = "idle" THEN NoItem ELSE @]
      /\ pc[g] = "index"
    BY Zenon DEF Index
<1>2. PICK to \in {"idle", "decide"} : Goto(g, "index", to)
    BY Zenon DEF Index
<1>3. g \in Goroutines \ Workers /\ to \in PCs
    BY Zenon, ActorsDisjoint DEF PCs, Goroutines
<1>4. PcOK' /\ Holding' /\ pc'[g] = to
    BY Zenon, <1>1, <1>2, <1>3, GotoFacts, OthersHold DEF Inv, Types
<1>5. call[g] \in Call
    BY Zenon, <1>1 DEF Inv, Types, CallsOK
<1>6. CallsOK'
    <2>1. CASE to = "idle"
        <3>1. call' = [call EXCEPT ![g] = NoItem]
            BY Zenon, <2>1, <1>1, <1>4
        <3> QED BY Zenon, <3>1, <2>1, <1>2, <1>3, AdderCalls DEF Inv, Types
    <2>2. CASE to # "idle"
        <3>1. call' = [call EXCEPT ![g] = call[g]]
            BY Zenon, <2>2, <1>1, <1>4
        <3> QED BY Zenon, <3>1, <2>2, <1>2, <1>3, <1>5, AdderCalls DEF Inv, Types
    <2> QED BY Zenon, <2>1, <2>2
<1>7. EntriesOK' /\ Safe'
    BY Zenon, IndexSafe
<1> QED BY Zenon, <1>1, <1>4, <1>6, <1>7, Frames DEF Inv, Types

\* An item without delay is pushed by its adder.
LEMMA PushDirectlyStep == ASSUME Inv, NEW g \in Adders, PushDirectly(g) PROVE Inv'
<1>1. /\ UNCHANGED <<now, known, processing, flags, loopVars, addWaiting, item>>
      /\ Goto(g, "decide", "idle") /\ call' = [call EXCEPT ![g] = NoItem]
      /\ push(call[g].key) /\ pc[g] = "decide"
    BY Zenon DEF PushDirectly
<1>2. call[g].key \in Keys
    <2>1. call[g] \in Call
        BY Zenon, <1>1 DEF Inv, Types, CallsOK
    <2> QED BY <2>1 DEF Call
<1>3. EntriesOK' /\ Safe' /\ waiting' \subseteq waiting
    BY Zenon, <1>1, <1>2, PushSafe
<1>4. g \in Goroutines \ Workers /\ "idle" \in PCs
    BY Zenon, ActorsDisjoint DEF PCs, Goroutines
<1>5. PcOK' /\ CallsOK' /\ Holding'
    BY Zenon, <1>1, <1>4, GotoFacts, AdderCalls, OthersHold DEF Inv, Types
<1>6. CondsOK'
    BY Zenon, <1>1, <1>3 DEF Inv, Types, CondsOK
<1> QED BY Zenon, <1>1, <1>3, <1>5, <1>6, Frames DEF Inv, Types

\* An item that is not due yet is left to the channel.
LEMMA PushLaterStep == ASSUME Inv, NEW g \in Adders, PushLater(g) PROVE Inv'
<1>1. UNCHANGED <<now, entries, flags, loopVars, conds, call, item>>
      /\ Goto(g, "decide", "send") /\ pc[g] = "decide"
    BY Zenon DEF PushLater
<1>2. g \in Goroutines \ Workers /\ "send" \in PCs
    BY Zenon, ActorsDisjoint DEF PCs, Goroutines
<1>3. PcOK' /\ Holding' /\ \A h \in Adders : h # g => pc'[h] = pc[h]
    BY Zenon, <1>1, <1>2, GotoFacts, OthersHold DEF Inv, Types, Goroutines
<1>4. CallsOK'
    BY Zenon, <1>1, <1>3 DEF Inv, Types, CallsOK
<1> QED BY Zenon, <1>1, <1>3, <1>4, Frames, QuietStep DEF Inv, Types

\* The channel takes the item, or the adder gives up when the queue is stopped.
LEMMA pushDelayQueueStep == ASSUME Inv, NEW g \in Adders, pushDelayQueue(g) PROVE Inv'
<1> DEFINE n == [key |-> call[g].key, readyAt |-> call[g].readyAt]
<1>1. /\ UNCHANGED <<now, entries, flags, heap, loop, loopNow, conds, item>>
      /\ Goto(g, "send", "idle") /\ call' = [call EXCEPT ![g] = NoItem] /\ pc[g] = "send"
      /\ UNCHANGED channel \/ (Len(channel) < ChanCap /\ channel' = Append(channel, n))
    BY Zenon DEF pushDelayQueue, Goto
<1>2. n \in Notice
    <2>1. call[g] \in Call
        BY Zenon, <1>1 DEF Inv, Types, CallsOK
    <2> QED BY <2>1 DEF Call, Notice
<1> HIDE DEF n
<1>3. g \in Goroutines \ Workers /\ "idle" \in PCs
    BY Zenon, ActorsDisjoint DEF PCs, Goroutines
<1>4. PcOK' /\ CallsOK' /\ Holding'
    BY Zenon, <1>1, <1>3, GotoFacts, AdderCalls, OthersHold DEF Inv, Types
<1>5. channel' \in Seq(Notice) /\ Len(channel') <= ChanCap
    <2>1. channel \in Seq(Notice) /\ Len(channel) <= ChanCap /\ ChanCap \in Nat
        BY Zenon, QueueAssumption DEF Inv, Types, LoopOK
    <2> QED BY <1>1, <1>2, <2>1
<1>6. LoopOK'
    BY Zenon, <1>1, <1>5 DEF Inv, Types, LoopOK
<1> QED BY Zenon, <1>1, <1>4, <1>6, Frames, QuietStep DEF Inv, Types

\* A step of waitingLoop that pushes nothing changes the loop's variables only.
LEMMA LoopQuietStep ==
    ASSUME Inv, LoopTop \/ LoopWait \/ LoopStop \/ LoopTimer \/ LoopDrained
    PROVE  Inv'
<1>1. /\ UNCHANGED <<now, entries, flags, channel, heap, conds, pc, call, item>>
      /\ loop' \in {"top", "pop", "select", "exited"}
      /\ loopNow' = loopNow \/ loopNow' = now
    BY Zenon DEF LoopTop, LoopWait, LoopStop, LoopTimer, LoopDrained
<1>2. LoopOK'
    BY Zenon, <1>1 DEF Inv, Types, LoopOK, ClockOK
<1> QED BY Zenon, <1>1, <1>2, Frames, QuietStep DEF Inv, Types

\* The loop pushes the key at the head of its heap.
LEMMA LoopPopStep == ASSUME Inv, LoopPop PROVE Inv'
<1>1. PICK k \in Ready(loopNow) : push(k) /\ heap' = Without(heap, k)
    BY Zenon DEF LoopPop
<1>2. UNCHANGED <<now, known, processing, flags, channel, loop, loopNow, addWaiting, pc, call,
                  item>>
    BY Zenon DEF LoopPop
<1>3. k \in DOMAIN heap /\ k \in Keys
    BY Zenon DEF Ready, Inv, Types, LoopOK
<1>4. EntriesOK' /\ Safe' /\ waiting' \subseteq waiting
    BY Zenon, <1>1, <1>2, <1>3, PushSafe
<1>5. /\ DOMAIN heap' = DOMAIN heap \ {k}
      /\ \A x \in DOMAIN heap : x # k => heap'[x] = heap[x]
    BY Zenon, <1>1, WithoutFacts
<1>6. LoopOK'
    BY Zenon, <1>2, <1>5 DEF Inv, Types, LoopOK
<1>7. CondsOK'
    BY Zenon, <1>2, <1>4 DEF Inv, Types, CondsOK
<1> QED BY Zenon, <1>2, <1>4, <1>6, <1>7, Frames DEF Inv, Types

\* The loop puts what it receives into the heap, or pushes it when it is due.
LEMMA LoopReceiveStep == ASSUME Inv, LoopReceive PROVE Inv'
<1> DEFINE e == Head(channel)
<1>1. /\ channel # <<>> /\ channel' = Tail(channel) /\ loop' = "drain"
      /\ \/ insert(e.key, e.readyAt) /\ UNCHANGED <<queue, dirty, waiting>>
         \/ push(e.key) /\ UNCHANGED heap
      /\ UNCHANGED <<now, known, processing, flags, loopNow, addWaiting, pc, call, item>>
    BY Zenon DEF LoopReceive
<1>2. /\ e \in Notice /\ channel' \in Seq(Notice) /\ Len(channel') <= ChanCap
    <2>1. channel \in Seq(Notice) /\ Len(channel) <= ChanCap /\ ChanCap \in Nat
        BY Zenon, QueueAssumption DEF Inv, Types, LoopOK
    <2> QED BY <1>1, <2>1
<1>3. e.key \in Keys /\ e.readyAt \in 0..MaxTime
    BY <1>2 DEF Notice
<1> HIDE DEF e
<1>4. CASE insert(e.key, e.readyAt) /\ UNCHANGED <<queue, dirty, waiting>>
    <2>1. heap' = heap \/ heap' = Put(heap, e.key, e.readyAt)
        BY Zenon, <1>4 DEF insert
    <2>2. DOMAIN heap \subseteq Keys /\ \A k \in DOMAIN heap : heap[k] \in 0..MaxTime
        BY Zenon DEF Inv, Types, LoopOK
    <2>3. DOMAIN heap' \subseteq Keys /\ \A k \in DOMAIN heap' : heap'[k] \in 0..MaxTime
        BY <1>3, <2>1, <2>2 DEF Put
    <2>4. LoopOK'
        BY Zenon, <1>1, <1>2, <2>3 DEF Inv, Types, LoopOK
    <2>5. UNCHANGED <<entries, conds>>
        BY Zenon, <1>1, <1>4 DEF entries, conds
    <2> QED BY Zenon, <1>1, <2>4, <2>5, Frames, QuietStep DEF Inv, Types
<1>5. CASE push(e.key) /\ UNCHANGED heap
    <2>1. EntriesOK' /\ Safe' /\ waiting' \subseteq waiting
        BY Zenon, <1>1, <1>3, <1>5, PushSafe
    <2>2. LoopOK'
        BY Zenon, <1>1, <1>2, <1>5 DEF Inv, Types, LoopOK
    <2>3. CondsOK'
        BY Zenon, <1>1, <2>1 DEF Inv, Types, CondsOK
    <2> QED BY Zenon, <1>1, <2>1, <2>2, <2>3, Frames DEF Inv, Types
<1> QED BY Zenon, <1>1, <1>4, <1>5

\* Get parks the worker, ends it, or gives it a key.
LEMMA GetStep == ASSUME Inv, NEW w \in Workers, Get(w) PROVE Inv'
<1>1. w \in Goroutines \ Adders /\ "exited" \in PCs /\ "work" \in PCs
    BY Zenon, ActorsDisjoint DEF PCs, Goroutines
<1>2. CASE GetWait(w)
    <2>1. /\ UNCHANGED <<now, entries, flags, loopVars, addWaiting, pc, call, item>>
          /\ waiting' = waiting \cup {w}
        BY Zenon, <1>2 DEF GetWait
    <2>2. CondsOK'
        BY Zenon, <2>1 DEF Inv, Types, CondsOK
    <2> QED BY Zenon, <2>1, <2>2, Frames, QuietStep DEF Inv, Types
<1>3. CASE GetShutdown(w)
    <2>1. UNCHANGED <<now, entries, flags, loopVars, conds, call, item>>
          /\ Goto(w, "get", "exited")
        BY Zenon, <1>3 DEF GetShutdown
    <2>2. /\ PcOK' /\ CallsOK' /\ pc[w] = "get" /\ pc'[w] = "exited"
          /\ \A v \in Workers : v # w => pc'[v] = pc[v]
        BY Zenon, <1>1, <2>1, GotoFacts, OthersCall DEF Inv, Types, Goroutines
    <2>3. Holding'
        BY Zenon, <2>1, <2>2 DEF Inv, Types, Holding
    <2> QED BY Zenon, <2>1, <2>2, <2>3, Frames, QuietStep DEF Inv, Types
<1>4. CASE GetItem(w)
    <2>1. /\ UNCHANGED <<now, flags, loopVars, conds, call>> /\ Goto(w, "get", "work")
          /\ item' = [item EXCEPT ![w] = Head(queue)]
        BY Zenon, <1>4 DEF GetItem
    <2>2. EntriesOK' /\ Safe' /\ Head(queue) \in Keys
        BY Zenon, <1>4, GetItemSafe
    <2>3. /\ PcOK' /\ CallsOK' /\ pc'[w] = "work"
          /\ \A v \in Workers : v # w => pc'[v] = pc[v]
        BY Zenon, <1>1, <2>1, GotoFacts, OthersCall DEF Inv, Types, Goroutines
    <2>4. /\ ItemsOK' /\ item'[w] = Head(queue)
          /\ \A v \in Workers : v # w => item'[v] = item[v]
        BY Zenon, <2>1, <2>2 DEF Inv, Types, ItemsOK
    <2>5. Holding'
        BY Zenon, <2>2, <2>3, <2>4, QueueAssumption DEF Inv, Types, Holding
    <2> QED BY Zenon, <2>1, <2>2, <2>3, <2>4, <2>5, Frames DEF Inv, Types
<1> QED BY Zenon, <1>2, <1>3, <1>4 DEF Get

\* Done empties the worker's hands.
LEMMA DoneStep == ASSUME Inv, NEW w \in Workers, Done(w) PROVE Inv'
<1>1. w \in Goroutines \ Adders /\ "get" \in PCs
    BY Zenon, ActorsDisjoint DEF PCs, Goroutines
<1>2. /\ UNCHANGED <<now, flags, loopVars, call>> /\ Goto(w, "work", "get")
      /\ item' = [item EXCEPT ![w] = NoItem] /\ SignalAdd
    BY Zenon DEF Done
<1>3. EntriesOK' /\ Safe' /\ waiting' \subseteq waiting
    BY Zenon, DoneSafe
<1>4. /\ PcOK' /\ CallsOK' /\ pc'[w] = "get" /\ \A v \in Workers : v # w => pc'[v] = pc[v]
    BY Zenon, <1>1, <1>2, GotoFacts, OthersCall DEF Inv, Types, Goroutines
<1>5. /\ ItemsOK' /\ item'[w] = NoItem /\ \A v \in Workers : v # w => item'[v] = item[v]
    BY Zenon, <1>2 DEF Inv, Types, ItemsOK
<1>6. Holding'
    BY Zenon, <1>4, <1>5 DEF Inv, Types, Holding
<1>7. CondsOK'
    BY Zenon, <1>2, <1>3, SignalTypes DEF Inv, Types, CondsOK
<1> QED BY Zenon, <1>2, <1>3, <1>4, <1>5, <1>6, <1>7, Frames DEF Inv, Types

\* Shutting down and draining leave the entries to the workers.
LEMMA ShutdownStep ==
    ASSUME Inv, NEW g \in Stoppers \cup Drainers,
           \/ g \in Stoppers /\ ShutDown(g)
           \/ g \in Drainers /\ ShutDownWithDrain(g)
    PROVE  Inv'
<1>1. /\ UNCHANGED <<now, entries, loopVars, call, item>>
      /\ shuttingDown' \in {shuttingDown, TRUE} /\ drain' \in {drain, TRUE}
      /\ stopCh' \in {stopCh, TRUE} /\ stopOnce' \in {stopOnce, "busy", "done"}
      /\ \/ UNCHANGED conds
         \/ waiting' = {} /\ addWaiting' = {}
         \/ waiting' = waiting \cup {g} /\ g \in Drainers /\ UNCHANGED addWaiting
    BY Zenon DEF ShutDown, ShutDownBegins, ShutDownWithDrain, DrainLoop, setDrain, shutdown, close,
              SkipOnce, isProcessing, shouldDrain, waitForProcessing, flags, conds
<1>2. \E from, to \in PCs : Goto(g, from, to)
    BY Zenon DEF ShutDown, ShutDownBegins, ShutDownWithDrain, DrainLoop, setDrain, shutdown, close,
              SkipOnce, isProcessing, shouldDrain, waitForProcessing, PCs
<1>3. g \in Goroutines \ Workers /\ g \in Goroutines \ Adders
    BY Zenon, ActorsDisjoint DEF Goroutines
<1>4. PcOK' /\ CallsOK' /\ Holding'
    BY Zenon, <1>1, <1>2, <1>3, GotoFacts, OthersCall, OthersHold DEF Inv, Types
<1>5. FlagsOK'
    BY Zenon, <1>1 DEF Inv, Types, FlagsOK
<1>6. CondsOK'
    BY Zenon, <1>1 DEF Inv, Types, CondsOK, conds
<1> QED BY Zenon, <1>1, <1>4, <1>5, <1>6, Frames, QuietStep DEF Inv, Types

\* A new queue satisfies the invariant.
LEMMA InvInit == Init => Inv
<1> SUFFICES ASSUME Init PROVE Inv
    OBVIOUS
<1>1. DOMAIN EmptyMap = {}
    BY DEF EmptyMap
<1>2. ClockOK /\ LoopOK
    BY <1>1, QueueAssumption DEF Init, ClockOK, LoopOK, EmptyMap
<1>3. EntriesOK
    BY <1>1 DEF Init, EntriesOK
<1>4. FlagsOK /\ CondsOK
    BY Zenon DEF Init, FlagsOK, CondsOK
<1>5. /\ PcOK
      /\ \A g \in Adders : pc[g] = "idle"
      /\ \A w \in Workers : pc[w] = "get"
    BY Zenon, ActorsDisjoint DEF Init, PcOK, Goroutines, PCs
<1>6. /\ ItemsOK /\ \A w \in Workers : item[w] = NoItem
    BY Zenon DEF Init, ItemsOK
<1>7. CallsOK /\ Holding
    BY Zenon, <1>5, <1>6 DEF Init, CallsOK, Holding
<1>8. Safe
    <2>1. queue = <<>> /\ dirty = {} /\ DOMAIN known = {} /\ DOMAIN processing = {}
        BY Zenon, <1>1 DEF Init
    <2>2. Range(queue) = {} /\ 1..Len(queue) = {}
        BY <2>1 DEF Range
    <2>3. IndexConsistent
        BY Zenon, <2>1, <2>2 DEF IndexConsistent
    <2>4. OneWorkerPerKey
        BY Zenon, <2>1, <1>6 DEF OneWorkerPerKey
    <2> QED BY Zenon, <2>1, <2>3, <2>4 DEF Safe, NeverEarly, NoStaleVersion
<1> QED BY Zenon, <1>2, <1>3, <1>4, <1>5, <1>6, <1>7, <1>8 DEF Inv, Types

\* Every step keeps it.
LEMMA InvStep == ASSUME Inv, [Next]_vars PROVE Inv'
<1>1. ASSUME NEW g \in Adders, AdderStep(g) PROVE Inv'
    BY Zenon, <1>1, shouldAddStep, ReadClockStep, IndexStep, PushDirectlyStep, PushLaterStep,
       pushDelayQueueStep DEF AdderStep
<1>2. CASE waitingLoop
    BY Zenon, <1>2, LoopQuietStep, LoopPopStep, LoopReceiveStep DEF waitingLoop
<1>3. ASSUME NEW s \in Stoppers, ShutDown(s) PROVE Inv'
    BY Zenon, <1>3, ShutdownStep
<1>4. ASSUME NEW d \in Drainers, ShutDownWithDrain(d) PROVE Inv'
    BY Zenon, <1>4, ShutdownStep
<1>5. CASE UNCHANGED vars
    BY Zenon, <1>5, Frames, QuietStep DEF Inv, Types, vars
<1> QED
    BY Zenon, <1>1, <1>2, <1>3, <1>4, <1>5, TickStep, CallStep, GetStep, DoneStep
    DEF Next, Terminated

\* Inv is an invariant of the queue.
THEOREM InvHolds == Spec => []Inv
BY InvInit, InvStep, PTL DEF Spec

\* The fields of the queue keep their types, the channel its capacity, and times stay
\* in the range of the clock.
THEOREM TypeCorrect == Spec => []TypeOK
<1>1. Inv => TypeOK
    BY Zenon, TypesTypeOK DEF Inv
<1> QED BY <1>1, InvHolds, PTL

\* The queue, the dirty set and the two indexes agree at all times: Get finds the entry
\* of the key it takes, and a key is queued once.
THEOREM IndexIsConsistent == Spec => []IndexConsistent
<1>1. Inv => IndexConsistent
    BY Zenon DEF Inv, Safe
<1> QED BY <1>1, InvHolds, PTL

\* No two workers process a key at the same time, and processingEntries has exactly the
\* keys that are being processed.
THEOREM KeysHaveOneWorker == Spec => []OneWorkerPerKey
<1>1. Inv => OneWorkerPerKey
    BY Zenon DEF Inv, Safe
<1> QED BY <1>1, InvHolds, PTL

\* A key is pushed only when the earliest time it was asked for has come.
THEOREM NothingEarly == Spec => []NeverEarly
<1>1. Inv => NeverEarly
    BY Zenon DEF Inv, Safe
<1> QED BY <1>1, InvHolds, PTL

\* AddAfter never indexes a version that is older than the one being processed.
THEOREM NothingStale == Spec => []NoStaleVersion
<1>1. Inv => NoStaleVersion
    BY Zenon DEF Inv, Safe
<1> QED BY <1>1, InvHolds, PTL

(***************************************************************************)
(* Refinement of StingyQueue: the dirty keys are pending, those with an    *)
(* entry in processingEntries active.                                      *)
(***************************************************************************)

\* push offers the key or does nothing.
LEMMA PushOffers ==
    ASSUME Inv, NEW k \in Keys, push(k), UNCHANGED <<processing, flags>>
    PROVE  [Stingy!Next]_(Stingy!vars)
<1>1. UNCHANGED shuttingDown
    BY Zenon DEF flags
<1>2. CASE MayPush(k)
    <2>1. Stingy!Offer(k)
        BY Zenon, <1>1, <1>2 DEF push, MayPush, Stingy!Offer
    <2> QED BY Zenon, <2>1 DEF Stingy!Next
<1>3. CASE ~MayPush(k)
    BY Zenon, <1>1, <1>3 DEF push, Stingy!vars
<1> QED BY Zenon, <1>2, <1>3

\* Each step is one of StingyQueue's, or invisible to the workers.
LEMMA StingyStep ==
    ASSUME Inv, [Next]_vars
    PROVE  [Stingy!Next]_(Stingy!vars)
<1>1. ASSUME UNCHANGED <<dirty, processing, shuttingDown>> PROVE [Stingy!Next]_(Stingy!vars)
    BY Zenon, <1>1 DEF Stingy!vars
<1>2. ASSUME NEW g \in Adders, AdderStep(g) PROVE [Stingy!Next]_(Stingy!vars)
    <2>1. CASE PushDirectly(g)
        <3>1. call[g].key \in Keys
            <4>1. call[g] \in Call
                BY Zenon, <2>1 DEF Inv, Types, CallsOK, PushDirectly
            <4> QED BY <4>1 DEF Call
        <3> QED BY Zenon, <2>1, <3>1, PushOffers DEF PushDirectly
    <2>2. CASE ~PushDirectly(g)
        BY Zenon, <1>1, <1>2, <2>2 DEF AdderStep, shouldAdd, ReadClock, Index, PushLater,
              pushDelayQueue, entries, flags
    <2> QED BY Zenon, <2>1, <2>2
<1>3. CASE waitingLoop
    <2>1. CASE LoopPop
        BY Zenon, <2>1, PushOffers DEF LoopPop, Ready, Inv, Types, LoopOK
    <2>2. CASE LoopReceive
        <3>1. Head(channel).key \in Keys
            <4>1. channel \in Seq(Notice) /\ channel # <<>>
                BY Zenon, <2>2 DEF Inv, Types, LoopOK, LoopReceive
            <4>2. Head(channel) \in Notice
                BY <4>1
            <4> QED BY <4>2 DEF Notice
        <3>2. \/ push(Head(channel).key) /\ UNCHANGED <<processing, flags>>
              \/ UNCHANGED <<dirty, processing, flags>>
            BY Zenon, <2>2 DEF LoopReceive
        <3> QED BY Zenon, <3>1, <3>2, <1>1, PushOffers DEF flags
    <2>3. CASE LoopTop \/ LoopWait \/ LoopStop \/ LoopTimer \/ LoopDrained
        BY Zenon, <1>1, <2>3 DEF LoopTop, LoopWait, LoopStop, LoopTimer, LoopDrained, entries, flags
    <2> QED BY Zenon, <1>3, <2>1, <2>2, <2>3 DEF waitingLoop
<1>4. ASSUME NEW w \in Workers, Get(w) \/ Done(w) PROVE [Stingy!Next]_(Stingy!vars)
    <2>1. CASE GetItem(w)
        BY Zenon, <2>1, GetItemSafe DEF Stingy!Next
    <2>2. CASE Done(w)
        BY Zenon, <2>2, DoneSafe DEF Stingy!Next
    <2>3. CASE GetWait(w) \/ GetShutdown(w)
        BY Zenon, <1>1, <2>3 DEF GetWait, GetShutdown, entries, flags
    <2> QED BY Zenon, <1>4, <2>1, <2>2, <2>3 DEF Get
<1>5. ASSUME NEW g, ShutDown(g) \/ ShutDownWithDrain(g) PROVE [Stingy!Next]_(Stingy!vars)
    <2>1. UNCHANGED <<dirty, processing>> /\ (shuttingDown' = TRUE \/ UNCHANGED shuttingDown)
        BY Zenon, <1>5 DEF ShutDown, ShutDownBegins, ShutDownWithDrain, DrainLoop, setDrain,
              shutdown, close, SkipOnce, isProcessing, shouldDrain, waitForProcessing, entries, flags
    <2>2. CASE shuttingDown' = TRUE
        <3>1. Stingy!Close
            BY Zenon, <2>1, <2>2 DEF Stingy!Close
        <3> QED BY Zenon, <3>1 DEF Stingy!Next
    <2> QED BY Zenon, <1>1, <2>1, <2>2
<1>6. CASE Tick \/ Terminated \/ UNCHANGED vars
    BY Zenon, <1>1, <1>6 DEF Tick, Terminated, vars, entries, flags
<1>7. ASSUME NEW g \in Adders, NEW k \in Keys, NEW v \in Versions,
             Add(g, k, v) \/ \E delay \in Delays : AddAfter(g, k, v, delay)
      PROVE  [Stingy!Next]_(Stingy!vars)
    BY Zenon, <1>1, <1>7 DEF Add, AddAfter, BeginCall, entries, flags
<1> QED BY Zenon, <1>2, <1>3, <1>4, <1>5, <1>6, <1>7 DEF Next

\* The indexed delaying queue is a StingyQueue: what waits for its time is invisible,
\* and from then on a key is treated like an item of the plain work queue.
THEOREM Refinement == Spec => ImplementsStingyQueue
<1>1. Init => Stingy!Init
    <2>1. DOMAIN EmptyMap = {}
        BY DEF EmptyMap
    <2> QED BY Zenon, <2>1 DEF Init, Stingy!Init
<1> QED BY <1>1, StingyStep, InvHolds, PTL DEF Spec, Stingy!Spec, ImplementsStingyQueue

(***************************************************************************)
(* The capacity.  An adder that was let past shouldAdd and has not indexed *)
(* its item yet counts like an item.                                       *)
(***************************************************************************)

Past == {g \in Adders : pc[g] \in {"readClock", "index"}}

Room ==
    /\ IsFiniteSet(DOMAIN known) /\ IsFiniteSet(DOMAIN processing)
    /\ Size < Cap + Cardinality(Adders)
    /\ ~shuttingDown => Size + Cardinality(Past) < Cap + Cardinality(Adders)

\* The cardinalities are numbers, and Past is no larger than the set of adders.
LEMMA PastFacts ==
    /\ IsFiniteSet(Past) /\ Cardinality(Past) \in Nat /\ Cardinality(Adders) \in Nat
    /\ Cardinality(Past) <= Cardinality(Adders) /\ Cap \in Nat
    /\ Room => Size \in Nat /\ Cardinality(DOMAIN known) \in Nat
                            /\ Cardinality(DOMAIN processing) \in Nat
<1>1. IsFiniteSet(Adders) /\ Cap \in Nat /\ Past \subseteq Adders
    BY Zenon, QueueAssumption DEF Past
<1>2. IsFiniteSet(Past) /\ Cardinality(Past) <= Cardinality(Adders)
    BY <1>1, FS_Subset
<1>3. Cardinality(Past) \in Nat /\ Cardinality(Adders) \in Nat
    BY Zenon, <1>1, <1>2, FS_CardinalityType
<1>4. ASSUME Room
      PROVE  Cardinality(DOMAIN known) \in Nat /\ Cardinality(DOMAIN processing) \in Nat
    BY Zenon, <1>4, FS_CardinalityType DEF Room
<1>5. Room => Size \in Nat
    BY <1>4 DEF Size
<1> QED BY Zenon, <1>1, <1>2, <1>3, <1>4, <1>5

\* A step that indexes nothing and lets nobody past shouldAdd leaves room.
LEMMA RoomQuiet ==
    ASSUME Room, UNCHANGED <<known, processing>>, shuttingDown => shuttingDown', Past' \subseteq Past
    PROVE  Room'
<1>1. Size' = Size
    BY Zenon DEF Size
<1>2. IsFiniteSet(Past) /\ Cardinality(Past) \in Nat /\ Cardinality(Adders) \in Nat
      /\ Size \in Nat /\ Cap \in Nat
    BY Zenon, PastFacts
<1>3. Cardinality(Past') <= Cardinality(Past)
    BY Zenon, <1>2, FS_Subset
<1>4. Cardinality(Past') \in Nat
    BY Zenon, <1>2, FS_Subset, FS_CardinalityType
<1>5. /\ IsFiniteSet(DOMAIN known') /\ IsFiniteSet(DOMAIN processing')
      /\ Size < Cap + Cardinality(Adders)
      /\ ~shuttingDown' => Size + Cardinality(Past) < Cap + Cardinality(Adders)
    BY Zenon DEF Room
<1>6. ~shuttingDown' => Size + Cardinality(Past') < Cap + Cardinality(Adders)
    BY <1>2, <1>3, <1>4, <1>5
<1> QED BY Zenon, <1>1, <1>5, <1>6 DEF Room

\* Who moves may enter or leave Past; nobody enters it but an adder that goes on to
\* one of its positions.
LEMMA PastMoves ==
    ASSUME PcOK, NEW g \in Goroutines, NEW from, NEW to \in PCs, Goto(g, from, to)
    PROVE  Past' \subseteq Past \cup {g}
<1>1. \A h \in Goroutines : h # g => pc'[h] = pc[h]
    BY Zenon, GotoFacts
<1> QED BY Zenon, <1>1 DEF Past, Goroutines

\* Who goes elsewhere leaves Past.
LEMMA PastLeaves ==
    ASSUME PcOK, NEW g \in Goroutines, NEW from, NEW to \in PCs, Goto(g, from, to),
           g \notin Adders \/ to \notin {"readClock", "index"}
    PROVE  Past' = Past \ {g}
<1>1. pc'[g] = to /\ \A h \in Goroutines : h # g => pc'[h] = pc[h]
    BY Zenon, GotoFacts
<1>2. \A h \in Adders : h # g => (h \in Past' <=> h \in Past)
    BY Zenon, <1>1 DEF Past, Goroutines
<1>3. Past \subseteq Adders /\ Past' \subseteq Adders
    BY Zenon DEF Past
<1>4. g \notin Past'
    BY Zenon, <1>1 DEF Past
<1> QED BY Zenon, <1>2, <1>3, <1>4

\* The steps of an adder.
LEMMA RoomAdder ==
    ASSUME Inv, Room, NEW g \in Adders, AdderStep(g)
    PROVE  Room'
<1>1. g \in Goroutines /\ PcOK /\ {"idle", "readClock", "index", "decide", "send"} \subseteq PCs
    BY Zenon DEF Inv, Types, Goroutines, PCs
<1>2. /\ IsFiniteSet(Past) /\ Cardinality(Past) \in Nat /\ Cardinality(Adders) \in Nat
      /\ Size \in Nat /\ Cap \in Nat /\ Cardinality(DOMAIN known) \in Nat
      /\ Cardinality(DOMAIN processing) \in Nat
    BY Zenon, PastFacts
<1>3. CASE shouldAdd(g)
    <2>1. UNCHANGED <<known, processing, shuttingDown>>
        BY Zenon, <1>3 DEF shouldAdd, entries, flags
    <2>2. CASE UNCHANGED pc
        <3>1. Past' = Past
            BY Zenon, <2>2 DEF Past
        <3> QED BY Zenon, <2>1, <3>1, RoomQuiet
    <2>3. CASE ~(Full /\ ~shuttingDown)
        <3>1. Size' = Size
            BY Zenon, <2>1 DEF Size
        <3>2. Cardinality(Past') \in Nat /\ Cardinality(Past') <= Cardinality(Adders)
            <4>1. IsFiniteSet(Adders) /\ Past' \subseteq Adders
                BY Zenon, QueueAssumption DEF Past
            <4> QED BY Zenon, <4>1, FS_Subset, FS_CardinalityType
        <3>3. ~shuttingDown' => Size + Cardinality(Past') < Cap + Cardinality(Adders)
            BY <1>2, <2>1, <2>3, <3>2 DEF Full
        <3> QED BY Zenon, <2>1, <3>1, <3>3 DEF Room
    <2> QED BY Zenon, <1>3, <2>2, <2>3 DEF shouldAdd
<1>4. CASE ReadClock(g)
    <2>1. UNCHANGED <<known, processing, shuttingDown>> /\ pc[g] = "readClock"
        BY Zenon, <1>4 DEF ReadClock, entries, flags, Goto
    <2>2. Past' \subseteq Past \cup {g}
        BY Zenon, <1>1, <1>4, PastMoves DEF ReadClock
    <2>3. g \in Past
        BY Zenon, <2>1 DEF Past
    <2>4. Past' \subseteq Past
        BY Zenon, <2>2, <2>3
    <2> QED BY Zenon, <2>1, <2>4, RoomQuiet
<1>5. CASE Index(g)
    <2>1. pc[g] = "index" /\ UNCHANGED <<processing, shuttingDown>> /\ g \in Past
        BY Zenon, <1>5 DEF Index, flags, Past
    <2>2. Past' = Past \ {g}
        <3>1. PICK to \in {"idle", "decide"} : Goto(g, "index", to)
            BY Zenon, <1>5 DEF Index
        <3>2. to \in PCs /\ to \notin {"readClock", "index"}
            BY Zenon DEF PCs
        <3> QED BY Zenon, <1>1, <3>1, <3>2, PastLeaves
    <2>3. CASE known' = known
        BY Zenon, <2>1, <2>2, <2>3, RoomQuiet
    <2>4. CASE known' # known
        <3>1. ~shuttingDown /\ \E e : known' = Put(known, call[g].key, e)
            BY Zenon, <1>5, <2>4 DEF Index
        <3>2. DOMAIN known' = DOMAIN known \cup {call[g].key}
            <4>1. PICK e : known' = Put(known, call[g].key, e)
                BY Zenon, <3>1
            <4> QED BY <4>1 DEF Put
        <3>3. /\ IsFiniteSet(DOMAIN known) /\ IsFiniteSet(DOMAIN processing)
              /\ Size + Cardinality(Past) < Cap + Cardinality(Adders)
            BY Zenon, <3>1 DEF Room
        <3>4. /\ IsFiniteSet(DOMAIN known') /\ Cardinality(DOMAIN known') \in Nat
              /\ Cardinality(DOMAIN known') <= Cardinality(DOMAIN known) + 1
            <4>1. /\ IsFiniteSet(DOMAIN known')
                  /\ \/ Cardinality(DOMAIN known') = Cardinality(DOMAIN known)
                     \/ Cardinality(DOMAIN known') = Cardinality(DOMAIN known) + 1
                BY Zenon, <3>2, <3>3, FS_AddElement
            <4> QED BY <1>2, <4>1
        <3>5. Size' \in Nat /\ Size' <= Size + 1
            BY <1>2, <2>1, <3>4 DEF Size
        <3>6. Cardinality(Past') = Cardinality(Past) - 1
            BY Zenon, <1>2, <2>1, <2>2, FS_RemoveElement
        <3>7. Cardinality(Past') \in Nat
            BY Zenon, <1>2, <2>2, FS_RemoveElement, FS_CardinalityType
        <3>8. /\ Size' + Cardinality(Past') < Cap + Cardinality(Adders)
              /\ Size' < Cap + Cardinality(Adders)
            BY <1>2, <3>3, <3>5, <3>6, <3>7
        <3> QED BY Zenon, <2>1, <3>3, <3>4, <3>8 DEF Room
    <2> QED BY Zenon, <2>3, <2>4
<1>6. CASE PushDirectly(g) \/ PushLater(g) \/ pushDelayQueue(g)
    <2>1. UNCHANGED <<known, processing, shuttingDown>>
        BY Zenon, <1>6 DEF PushDirectly, PushLater, pushDelayQueue, entries, flags
    <2>2. \E from : \E to \in {"idle", "send"} : Goto(g, from, to)
        BY Zenon, <1>6 DEF PushDirectly, PushLater, pushDelayQueue
    <2>3. Past' = Past \ {g}
        <3>1. PICK from : \E to \in {"idle", "send"} : Goto(g, from, to)
            BY Zenon, <2>2
        <3>2. PICK to \in {"idle", "send"} : Goto(g, from, to)
            BY Zenon, <3>1
        <3>3. to \in PCs /\ to \notin {"readClock", "index"}
            BY Zenon DEF PCs
        <3> QED BY Zenon, <1>1, <3>2, <3>3, PastLeaves
    <2> QED BY Zenon, <2>1, <2>3, RoomQuiet
<1> QED BY Zenon, <1>3, <1>4, <1>5, <1>6 DEF AdderStep

\* Get moves an entry and Done removes one.
LEMMA RoomWorker ==
    ASSUME Inv, Room, NEW w \in Workers, Get(w) \/ Done(w)
    PROVE  Room'
<1>1. w \in Goroutines \ Adders /\ PcOK /\ {"get", "work", "exited"} \subseteq PCs
    BY Zenon, ActorsDisjoint DEF Inv, Types, Goroutines, PCs
<1>2. /\ Cardinality(Past) \in Nat /\ Cardinality(Adders) \in Nat
      /\ Size \in Nat /\ Cap \in Nat /\ Cardinality(DOMAIN known) \in Nat
      /\ Cardinality(DOMAIN processing) \in Nat
      /\ IsFiniteSet(DOMAIN known) /\ IsFiniteSet(DOMAIN processing)
    BY Zenon, PastFacts DEF Room
<1>3. UNCHANGED shuttingDown /\ Past' \subseteq Past
    <2>1. UNCHANGED shuttingDown
        BY Zenon DEF Get, GetWait, GetShutdown, GetItem, Done, flags
    <2>2. UNCHANGED pc \/ Goto(w, "get", "exited") \/ Goto(w, "get", "work")
          \/ Goto(w, "work", "get")
        BY Zenon DEF Get, GetWait, GetShutdown, GetItem, Done
    <2>3. CASE UNCHANGED pc
        BY Zenon, <2>1, <2>3 DEF Past
    <2>4. CASE ~UNCHANGED pc
        <3>1. Past' = Past \ {w}
            <4>1. PICK to \in {"get", "work", "exited"} : \E from : Goto(w, from, to)
                BY Zenon, <2>2, <2>4
            <4> QED BY Zenon, <1>1, <4>1, PastLeaves
        <3> QED BY Zenon, <2>1, <3>1
    <2> QED BY Zenon, <2>3, <2>4
<1>4. CASE GetWait(w) \/ GetShutdown(w)
    <2>1. UNCHANGED <<known, processing>>
        BY Zenon, <1>4 DEF GetWait, GetShutdown, entries
    <2> QED BY Zenon, <1>3, <2>1, RoomQuiet
<1>5. ASSUME IsFiniteSet(DOMAIN known'), IsFiniteSet(DOMAIN processing'), Size' \in Nat, Size' <= Size
      PROVE  Room'
    <2>1. Cardinality(Past') \in Nat /\ Cardinality(Past') <= Cardinality(Past)
        BY Zenon, <1>3, PastFacts, FS_Subset, FS_CardinalityType
    <2>2. /\ Size < Cap + Cardinality(Adders)
          /\ ~shuttingDown' => Size + Cardinality(Past) < Cap + Cardinality(Adders)
        BY Zenon, <1>3 DEF Room
    <2>3. /\ Size' < Cap + Cardinality(Adders)
          /\ ~shuttingDown' => Size' + Cardinality(Past') < Cap + Cardinality(Adders)
        BY <1>2, <1>5, <2>1, <2>2
    <2> QED BY Zenon, <1>5, <2>3 DEF Room
<1>6. CASE GetItem(w)
    <2>1. /\ DOMAIN processing' = DOMAIN processing \cup {Head(queue)}
          /\ Head(queue) \notin DOMAIN processing /\ Head(queue) \in DOMAIN known
        <3>1. Stingy!Take(Head(queue))
            BY Zenon, <1>6, GetItemSafe
        <3> QED BY Zenon, <3>1 DEF Stingy!Take, Inv, Safe, IndexConsistent
    <2>2. DOMAIN known' = DOMAIN known \ {Head(queue)}
        BY Zenon, <1>6, WithoutFacts DEF GetItem
    <2>3. /\ IsFiniteSet(DOMAIN known') /\ IsFiniteSet(DOMAIN processing')
          /\ Cardinality(DOMAIN known') = Cardinality(DOMAIN known) - 1
          /\ Cardinality(DOMAIN processing') = Cardinality(DOMAIN processing) + 1
        <3>1. /\ IsFiniteSet(DOMAIN known')
              /\ Cardinality(DOMAIN known') = Cardinality(DOMAIN known) - 1
            BY <1>2, <2>1, <2>2, FS_RemoveElement
        <3>2. /\ IsFiniteSet(DOMAIN processing')
              /\ Cardinality(DOMAIN processing') = Cardinality(DOMAIN processing) + 1
            BY <1>2, <2>1, FS_AddElement
        <3> QED BY <3>1, <3>2
    <2>4. Size' = Size
        BY <1>2, <2>3 DEF Size
    <2>5. Size' \in Nat /\ Size' <= Size
        BY <1>2, <2>4
    <2> QED BY Zenon, <1>5, <2>3, <2>5
<1>7. CASE Done(w)
    <2>1. DOMAIN processing' = DOMAIN processing \ {item[w]} /\ item[w] \in DOMAIN processing
        BY Zenon, <1>7, DoneSafe DEF Stingy!GiveBack
    <2>2. known' = known
        BY Zenon, <1>7 DEF Done
    <2>3. /\ IsFiniteSet(DOMAIN processing')
          /\ Cardinality(DOMAIN processing') = Cardinality(DOMAIN processing) - 1
        BY <1>2, <2>1, FS_RemoveElement
    <2>4. Cardinality(DOMAIN processing') \in Nat
        BY Zenon, <2>3, FS_CardinalityType
    <2>5. Size' \in Nat /\ Size' <= Size
        BY <1>2, <2>2, <2>3, <2>4 DEF Size
    <2>6. IsFiniteSet(DOMAIN known')
        BY Zenon, <1>2, <2>2
    <2> QED BY Zenon, <1>5, <2>3, <2>5, <2>6
<1> QED BY Zenon, <1>4, <1>6, <1>7 DEF Get

\* Room is left by every step of a program that calls Add only.
LEMMA RoomStep ==
    ASSUME Inv, Room, Delays = {}, [Next]_vars
    PROVE  Room'
<1>1. ASSUME UNCHANGED <<known, processing, shuttingDown, pc>> PROVE Room'
    <2>1. Past' = Past
        BY Zenon, <1>1 DEF Past
    <2> QED BY Zenon, <1>1, <2>1, RoomQuiet
<1>2. CASE Tick \/ waitingLoop \/ Terminated \/ UNCHANGED vars
    BY Zenon, <1>1, <1>2 DEF Tick, waitingLoop, LoopTop, LoopPop, LoopWait, LoopStop, LoopTimer,
          LoopReceive, LoopDrained, Terminated, vars, entries, flags
<1>3. ASSUME NEW g \in Adders, NEW k \in Keys, NEW v \in Versions,
             Add(g, k, v) \/ \E delay \in Delays : AddAfter(g, k, v, delay)
      PROVE  Room'
    <2>1. Add(g, k, v)
        BY Zenon, <1>3
    <2>2. UNCHANGED <<known, processing, shuttingDown>> /\ Goto(g, "idle", "shouldAdd")
        BY Zenon, <2>1 DEF Add, BeginCall, entries, flags
    <2>3. g \in Goroutines /\ PcOK /\ "shouldAdd" \in PCs
        BY Zenon DEF Inv, Types, Goroutines, PCs
    <2>4. Past' = Past \ {g}
        <3>1. "shouldAdd" \notin {"readClock", "index"}
            BY Zenon
        <3> QED BY Zenon, <2>2, <2>3, <3>1, PastLeaves
    <2> QED BY Zenon, <2>2, <2>4, RoomQuiet
<1>4. ASSUME NEW g \in Stoppers \cup Drainers, ShutDown(g) \/ ShutDownWithDrain(g) PROVE Room'
    <2>1. UNCHANGED <<known, processing>> /\ (shuttingDown' = TRUE \/ UNCHANGED shuttingDown)
        BY Zenon, <1>4 DEF ShutDown, ShutDownBegins, ShutDownWithDrain, DrainLoop, setDrain,
              shutdown, close, SkipOnce, isProcessing, shouldDrain, waitForProcessing, entries, flags
    <2>2. \E from, to \in PCs : Goto(g, from, to)
        BY Zenon, <1>4 DEF ShutDown, ShutDownBegins, ShutDownWithDrain, DrainLoop, setDrain, shutdown,
              close, SkipOnce, isProcessing, shouldDrain, waitForProcessing, PCs
    <2>3. g \in Goroutines /\ g \notin Adders /\ PcOK
        BY Zenon, ActorsDisjoint DEF Inv, Types, Goroutines
    <2>4. Past' = Past \ {g}
        BY Zenon, <2>2, <2>3, PastLeaves
    <2>5. shuttingDown => shuttingDown'
        BY Zenon, <2>1
    <2> QED BY Zenon, <2>1, <2>4, <2>5, RoomQuiet
<1> QED BY Zenon, <1>2, <1>3, <1>4, RoomAdder, RoomWorker DEF Next

\* Programs that call Add only exceed the capacity by less than the number of
\* goroutines that call it, although the capacity is looked at in one critical section
\* and the item indexed in another.
THEOREM OvershootIsBounded == Spec => []OvershootBounded
<1>1. CASE Delays # {}
    <2>1. OvershootBounded
        BY Zenon, <1>1 DEF OvershootBounded
    <2> QED BY <2>1, PTL
<1>2. CASE Delays = {}
    <2>1. Init => Room
        <3> SUFFICES ASSUME Init PROVE Room
            OBVIOUS
        <3>1. DOMAIN EmptyMap = {}
            BY DEF EmptyMap
        <3>2. DOMAIN known = {} /\ DOMAIN processing = {}
            BY Zenon, <3>1 DEF Init
        <3>3. Past = {}
            BY Zenon, ActorsDisjoint DEF Init, Past
        <3>4. /\ IsFiniteSet(DOMAIN known) /\ IsFiniteSet(DOMAIN processing)
              /\ Cardinality(DOMAIN known) = 0 /\ Cardinality(DOMAIN processing) = 0
              /\ Cardinality(Past) = 0
            BY Zenon, <3>2, <3>3, FS_EmptySet
        <3>5. Cardinality(Adders) \in Nat /\ Cap \in Nat \ {0}
            BY Zenon, QueueAssumption, PastFacts
        <3> QED BY <3>4, <3>5 DEF Room, Size
    <2>2. Inv /\ Inv' /\ Room /\ [Next]_vars => Room'
        BY Zenon, <1>2, RoomStep
    <2>3. Room => OvershootBounded
        BY Zenon DEF Room, OvershootBounded
    <2> QED BY <2>1, <2>2, <2>3, InvHolds, PTL DEF Spec
<1> QED BY <1>1, <1>2
=============================================================================
