------------------------ MODULE DelayingQueueProofs ------------------------
(***************************************************************************)
(* What the delaying and rate limiting queue promises for any number of    *)
(* items, workers, callers and entries, any delays and limiters.           *)
(*                                                                         *)
(* Both promises follow an item through the places it can be in: the       *)
(* channel, the heap, the wrapped queue, a worker's hands.  A worker that  *)
(* gives a failed item back has put it in one of the others before, which  *)
(* no other worker can have emptied in between.                            *)
(***************************************************************************)
EXTENDS RetryHistory, Functions, TLAPS

\* Goroutines within AddAfter have an item and a time left that fits a duration.
Adding ==
    \A a \in Actors :
        /\ pc[a] \in {"add", "addAfter", "send"} => item[a] \in Items
        /\ pc[a] = "addAfter" => delay[a] <= MaxDuration
        /\ pc[a] = "send" => delay[a] \in Times

\* Workers hold active items, one each.
Holding ==
    /\ \A w \in Workers : /\ item[w] # NoItem => item[w] \in active
                          /\ pc[w] \in {"work", "done"} => item[w] \in Items
                          /\ pc[w] \in {"get", "exited"} => item[w] = NoItem
    /\ \A v, w \in Workers : item[v] = item[w] /\ item[v] # NoItem => v = w

\* The item will come to a worker without anyone adding it again.
InChannel(i) == \E e \in Range(ch) : e.item = i
OnItsWay(i) == i \in pending \/ i \in known \/ InChannel(i)

\* A worker gives an item back that is forgotten or on its way again.
Retried ==
    /\ \A w \in Workers :
          pc[w] = "done" /\ failures[item[w]] > 0 /\ ~closed => OnItsWay(item[w])
    /\ \A i \in Items : failures[i] > 0 /\ ~closed => OnItsWay(i) \/ Held(i)

\* Entry in the channel or the heap that is due within t
Due(i, t) == \/ i \in known /\ left[i] <= t
             \/ \E e \in Range(ch) : e.item = i /\ e.left <= t

Promised == \A i \in Items : promise[i] # None => Due(i, promise[i])

\* stopCh is closed after the wrapped queue.
Stopping == stopCh # "open" => closed

Inv == TypeOK /\ Adding /\ Holding /\ Retried /\ Promised /\ Stopping

-----------------------------------------------------------------------------

\* Sending to a channel adds an entry to it.
LEMMA SendRange ==
    ASSUME NEW S, NEW q \in Seq(S), NEW x \in S
    PROVE  Append(q, x) \in Seq(S) /\ Range(Append(q, x)) = Range(q) \cup {x}
<1> DEFINE r == Append(q, x)
<1>1. /\ r \in Seq(S) /\ Len(r) = Len(q) + 1 /\ Len(q) \in Nat
      /\ \A n \in 1..Len(q) : r[n] = q[n]
      /\ r[Len(r)] = x
  OBVIOUS
<1> HIDE DEF r
<1>2. DOMAIN q = 1..Len(q) /\ DOMAIN r = 1..Len(r)
  BY <1>1
<1>3. Range(r) = Range(q) \cup {x}
  BY <1>1, <1>2 DEF Range
<1>4. QED
  BY <1>1, <1>3 DEF r

\* Receiving from a channel takes its first entry and leaves the others.
LEMMA ReceiveRange ==
    ASSUME NEW S, NEW q \in Seq(S), q # <<>>
    PROVE  /\ Tail(q) \in Seq(S) /\ Head(q) \in S /\ Len(Tail(q)) <= Len(q)
           /\ Range(q) = Range(Tail(q)) \cup {Head(q)}
<1> DEFINE r == Tail(q)
<1>1. /\ r \in Seq(S) /\ Len(r) = Len(q) - 1 /\ Len(q) >= 1 /\ Len(q) \in Nat
      /\ \A n \in 1..Len(r) : r[n] = q[n + 1]
      /\ Head(q) = q[1] /\ q[1] \in S
  OBVIOUS
<1>2. DOMAIN q = 1..Len(q) /\ DOMAIN r = 1..Len(r)
  BY <1>1
<1> HIDE DEF r
<1>3. Range(r) \subseteq Range(q) /\ q[1] \in Range(q)
  BY <1>1, <1>2 DEF Range
<1>4. ASSUME NEW n \in 1..Len(q), n # 1 PROVE q[n] \in Range(r)
  <2>1. n - 1 \in 1..Len(r) /\ r[n - 1] = q[n]
    BY <1>1, <1>4
  <2>2. QED
    BY Zenon, <2>1, <1>2 DEF Range
<1>5. Range(q) \subseteq Range(r) \cup {q[1]}
  BY Zenon, <1>2, <1>4 DEF Range
<1>6. QED
  BY <1>1, <1>3, <1>5 DEF r

\* What a channel holds was sent to it.
LEMMA RangeType == ASSUME NEW S, NEW q \in Seq(S), NEW e \in Range(q) PROVE e \in S
BY DEF Range

\* Entries of the channel are items with a time left.
LEMMA EntryType ==
    ASSUME TypeOK, NEW e \in Range(ch)
    PROVE  e.item \in Items /\ e.left \in Times
<1>1. e \in [item : Items, left : Times]
  BY Zenon, RangeType DEF TypeOK
<1>2. QED
  BY Zenon, <1>1

\* A new queue holds nothing and has promised nothing.
LEMMA InitInv == Init => Inv
<1> SUFFICES ASSUME Init PROVE Inv
  OBVIOUS
<1> USE QueueAssumption, LimiterAssumption
<1>1. /\ pending = {} /\ active = {} /\ closed = FALSE
      /\ ch = <<>> /\ known = {} /\ left = [i \in Items |-> 0]
  BY Zenon DEF Init, Q!Init
<1>2. /\ limiter \in Limiters /\ failures = [i \in Items |-> 0] /\ tokens = Burst
  BY Zenon DEF Init, LimiterInit
<1>3. TypeOK
  <2>1. ch \in Seq([item : Items, left : Times]) /\ Len(ch) <= ChanCap
    BY <1>1
  <2>2. left \in [Items -> Times]
    BY <1>1 DEF Times
  <2>3. /\ pc \in [Actors -> {"get", "work", "done", "exited", "idle", "addAfter", "add", "send"}]
        /\ item \in [Actors -> Items \cup {NoItem}] /\ delay \in [Actors -> Int]
    BY DEF Init
  <2>4. promise \in [Items -> Times \cup {None}]
    BY Zenon DEF Init
  <2>5. LimiterTypeOK
    BY <1>2 DEF LimiterTypeOK
  <2>6. lag \in 0..1
    BY DEF Init
  <2>7. QED
    BY Zenon, <1>1, <2>1, <2>2, <2>3, <2>4, <2>5, <2>6 DEF TypeOK, Init
<1>4. Adding /\ Stopping
  BY Zenon DEF Init, Adding, Stopping
<1>5. Holding
  BY Zenon DEF Init, Holding, Actors
<1>6. Retried
  BY <1>2 DEF Init, Retried, Actors
<1>7. Promised
  BY Zenon DEF Init, Promised
<1>8. QED
  BY Zenon, <1>3, <1>4, <1>5, <1>6, <1>7 DEF Inv

\* Steps of the loop that move no entry, and ShutDown in its steps
LEMMA QuietInv ==
    ASSUME Inv,
           UNCHANGED <<pending, active, ch, known, left, actorVars, promise, limiterVars>>,
           closed' \in BOOLEAN, closed => closed',
           stopCh' \in {"open", "closing", "closed"}, stopCh' # "open" => closed',
           loop' \in {"top", "pass", "select", "drain", "exited"}, lag' \in 0..1
    PROVE  Inv'
<1>1. UNCHANGED <<pc, item, delay, limiter, failures, tokens>>
  BY Zenon DEF actorVars, limiterVars
<1>2. TypeOK'
  BY Zenon, <1>1 DEF Inv, TypeOK, LimiterTypeOK
<1>3. Adding' /\ Holding'
  BY Zenon, <1>1 DEF Inv, Adding, Holding
<1>4. Retried'
  BY Zenon, <1>1 DEF Inv, Retried, OnItsWay, InChannel, Held
<1>5. Promised'
  BY Zenon DEF Inv, Promised, Due
<1>6. QED
  BY Zenon, <1>2, <1>3, <1>4, <1>5 DEF Inv, Stopping

\* The loop goes round without an entry.
LEMMA LoopQuietInv ==
    ASSUME Inv,
           \/ LoopTop \/ LoopSelect \/ LoopStop \/ LoopHeartbeat \/ LoopTimer \/ LoopDrained
    PROVE  Inv'
<1>1. UNCHANGED <<queueVars, ch, known, left, stopCh, actorVars, promise, limiterVars>>
  BY Zenon DEF LoopTop, LoopSelect, LoopStop, LoopHeartbeat, LoopTimer, LoopDrained
<1>2. loop' \in {"top", "pass", "select", "drain", "exited"}
  BY Zenon DEF LoopTop, LoopSelect, LoopStop, LoopHeartbeat, LoopTimer, LoopDrained
<1>3. lag' \in 0..1
  BY DEF LoopTop, LoopSelect, LoopStop, LoopHeartbeat, LoopTimer, LoopDrained, Inv, TypeOK
<1>4. /\ closed \in BOOLEAN /\ stopCh \in {"open", "closing", "closed"}
      /\ stopCh # "open" => closed
  BY Zenon DEF Inv, TypeOK, Stopping
<1>5. QED
  BY Zenon, <1>1, <1>2, <1>3, <1>4, QuietInv DEF queueVars

\* The queue is shut down, in one of its two ways.
LEMMA ShutDownInv ==
    ASSUME Inv, ShutDown \/ CloseStopCh \/ ShutDownWithDrain
    PROVE  Inv'
<1>1. /\ UNCHANGED <<pending, active, ch, known, left, loop, lag, actorVars, promise, limiterVars>>
      /\ closed' = TRUE \/ closed' = closed
  BY Zenon DEF ShutDown, CloseStopCh, ShutDownWithDrain, Q!Close, queueVars, loopVars
<1>2. /\ closed \in BOOLEAN /\ stopCh \in {"open", "closing", "closed"}
      /\ stopCh # "open" => closed
      /\ loop \in {"top", "pass", "select", "drain", "exited"} /\ lag \in 0..1
  BY Zenon DEF Inv, TypeOK, Stopping
<1>3. /\ stopCh' \in {"open", "closing", "closed"} /\ (stopCh' # "open" => closed')
  <2>1. CASE ShutDown
    BY Zenon, <2>1 DEF ShutDown, Q!Close
  <2>2. CASE CloseStopCh
    BY Zenon, <2>2, <1>2 DEF CloseStopCh, queueVars
  <2>3. CASE ShutDownWithDrain
    BY Zenon, <2>3, <1>2 DEF ShutDownWithDrain, Q!Close
  <2>4. QED
    BY Zenon, <2>1, <2>2, <2>3
<1>4. /\ closed' \in BOOLEAN /\ (closed => closed')
      /\ loop' \in {"top", "pass", "select", "drain", "exited"} /\ lag' \in 0..1
  BY Zenon, <1>1, <1>2
<1>5. QED
  BY Zenon, <1>1, <1>3, <1>4, QuietInv

-----------------------------------------------------------------------------
(* Goroutines that call the queue *)

\* A goroutine moves and nothing else does.  A worker keeps its item, and one that has
\* come to Done has put a failed item on its way.
LEMMA MoveInv ==
    ASSUME Inv, NEW a \in Actors, NEW to, NEW x, NEW d \in Int,
           UNCHANGED <<queueVars, ch, loopVars, stopCh, promise, limiterVars>>,
           to \in {"get", "work", "done", "exited", "idle", "addAfter", "add", "send"},
           x \in Items \cup {NoItem},
           pc' = [pc EXCEPT ![a] = to], item' = [item EXCEPT ![a] = x],
           delay' = [delay EXCEPT ![a] = d],
           to \in {"add", "addAfter", "send"} => x \in Items,
           to = "addAfter" => d <= MaxDuration, to = "send" => d \in Times,
           a \in Workers => /\ x = item[a] /\ (to \in {"work", "done"} => x \in Items)
                            /\ (to \in {"get", "exited"} => x = NoItem)
                            /\ (to = "done" /\ failures[x] > 0 => closed)
    PROVE  Inv'
<1>1. UNCHANGED <<pending, active, closed, known, left, loop, lag, limiter, failures, tokens>>
  BY Zenon DEF queueVars, loopVars, limiterVars
<1>2. /\ pc \in [Actors -> {"get", "work", "done", "exited", "idle", "addAfter", "add", "send"}]
      /\ item \in [Actors -> Items \cup {NoItem}] /\ delay \in [Actors -> Int]
  BY Zenon DEF Inv, TypeOK
<1>3. /\ pc'[a] = to /\ item'[a] = x /\ delay'[a] = d
      /\ \A b \in Actors : b # a => pc'[b] = pc[b] /\ item'[b] = item[b] /\ delay'[b] = delay[b]
  BY Zenon, <1>2
<1>4. \A w \in Workers : w \in Actors /\ item'[w] = item[w]
  BY Zenon, <1>3 DEF Actors
<1>5. TypeOK'
  <2>1. /\ pc' \in [Actors -> {"get", "work", "done", "exited", "idle", "addAfter", "add", "send"}]
        /\ item' \in [Actors -> Items \cup {NoItem}] /\ delay' \in [Actors -> Int]
    BY Zenon, <1>2
  <2>2. QED
    BY Zenon, <2>1, <1>1 DEF Inv, TypeOK, LimiterTypeOK
<1>6. Adding'
  BY Zenon, <1>3 DEF Inv, Adding
<1>7. Holding'
  BY <1>1, <1>3, <1>4 DEF Inv, Holding
<1>8. Retried'
  <2>1. \A i : OnItsWay(i)' = OnItsWay(i) /\ Held(i)' = Held(i)
    BY Zenon, <1>1, <1>4 DEF OnItsWay, InChannel, Held
  <2>2. QED
    BY Zenon, <2>1, <1>1, <1>3, <1>4 DEF Inv, Retried
<1>9. Promised'
  BY Zenon, <1>1 DEF Inv, Promised, Due
<1>10. Stopping'
  BY Zenon, <1>1 DEF Inv, Stopping
<1>11. QED
  BY Zenon, <1>5, <1>6, <1>7, <1>8, <1>9, <1>10 DEF Inv

\* A call begins, or AddAfter has tested the shutdown or given up with it.
LEMMA CallInv ==
    ASSUME Inv,
           \/ \E c \in Callers, i \in Items :
                 CallAdd(c, i) \/ \E d \in Delays : CallAddAfter(c, i, d)
           \/ \E a \in Actors : AddAfter(a) \/ SendGivesUp(a)
           \/ \E w \in Workers : GetShutdown(w)
    PROVE  Inv'
<1> USE QueueAssumption, LimiterAssumption
<1>0. /\ pc \in [Actors -> {"get", "work", "done", "exited", "idle", "addAfter", "add", "send"}]
      /\ item \in [Actors -> Items \cup {NoItem}] /\ delay \in [Actors -> Int]
  BY Zenon DEF Inv, TypeOK
<1>1. ASSUME NEW c \in Callers, NEW i \in Items, CallAdd(c, i) PROVE Inv'
  <2>1. /\ c \in Actors /\ c \notin Workers /\ delay[c] \in Int
        /\ delay' = [delay EXCEPT ![c] = delay[c]]
    BY Zenon, <1>0, <1>1 DEF Actors, CallAdd
  <2>2. /\ pc' = [pc EXCEPT ![c] = "add"] /\ item' = [item EXCEPT ![c] = i]
        /\ UNCHANGED <<queueVars, ch, loopVars, stopCh, promise, limiterVars>>
    BY Zenon, <1>1 DEF CallAdd, Goto
  <2>3. QED
    BY Zenon, <2>1, <2>2, MoveInv
<1>2. ASSUME NEW c \in Callers, NEW i \in Items, NEW d \in Delays, CallAddAfter(c, i, d)
      PROVE  Inv'
  <2>1. c \in Actors /\ c \notin Workers /\ d \in Int /\ d <= MaxDuration
    BY DEF Actors
  <2>2. /\ pc' = [pc EXCEPT ![c] = "addAfter"] /\ item' = [item EXCEPT ![c] = i]
        /\ delay' = [delay EXCEPT ![c] = d]
        /\ UNCHANGED <<queueVars, ch, loopVars, stopCh, promise, limiterVars>>
    BY Zenon, <1>2 DEF CallAddAfter, Goto
  <2>3. QED
    BY Zenon, <2>1, <2>2, MoveInv
<1>3. ASSUME NEW a \in Actors, closed, Return(a), pc[a] \in {"addAfter", "send"},
             UNCHANGED <<queueVars, ch, loopVars, stopCh, promise, limiterVars>>
      PROVE  Inv'
  <2>1. item[a] \in Items /\ 0 \in Int
    BY <1>3 DEF Inv, Adding
  <2>2. CASE a \in Workers
    <3>1. /\ pc' = [pc EXCEPT ![a] = "done"] /\ item' = [item EXCEPT ![a] = item[a]]
          /\ delay' = [delay EXCEPT ![a] = 0]
      BY Zenon, <1>3, <2>2 DEF Return
    <3>2. QED
      BY Zenon, <3>1, <2>1, <1>3, MoveInv
  <2>3. CASE a \notin Workers
    <3>1. /\ pc' = [pc EXCEPT ![a] = "idle"] /\ item' = [item EXCEPT ![a] = NoItem]
          /\ delay' = [delay EXCEPT ![a] = 0]
      BY Zenon, <1>3, <2>3 DEF Return
    <3>2. QED
      BY Zenon, <3>1, <2>1, <2>3, <1>3, MoveInv
  <2>4. QED
    BY Zenon, <2>2, <2>3
<1>4. ASSUME NEW a \in Actors, AddAfter(a), ~closed PROVE Inv'
  <2>1. /\ item[a] \in Items /\ delay[a] \in Int /\ delay[a] <= MaxDuration
        /\ item' = [item EXCEPT ![a] = item[a]] /\ delay' = [delay EXCEPT ![a] = delay[a]]
        /\ UNCHANGED <<queueVars, ch, loopVars, stopCh, promise, limiterVars>>
    BY Zenon, <1>0, <1>4 DEF AddAfter, Inv, Adding
  <2>2. CASE delay[a] <= 0
    <3>1. pc' = [pc EXCEPT ![a] = "add"]
      BY Zenon, <1>4, <2>2 DEF AddAfter
    <3>2. QED
      BY Zenon, <3>1, <2>1, MoveInv
  <2>3. CASE ~(delay[a] <= 0)
    <3>1. pc' = [pc EXCEPT ![a] = "send"]
      BY Zenon, <1>4, <2>3 DEF AddAfter
    <3>2. delay[a] \in Times
      BY <2>1, <2>3 DEF Times
    <3>3. QED
      BY Zenon, <3>1, <3>2, <2>1, MoveInv
  <2>4. QED
    BY Zenon, <2>2, <2>3
<1>5. ASSUME NEW a \in Actors, AddAfter(a), closed PROVE Inv'
  BY Zenon, <1>3, <1>5 DEF AddAfter
<1>6. ASSUME NEW a \in Actors, SendGivesUp(a) PROVE Inv'
  <2>1. closed
    BY Zenon, <1>6 DEF SendGivesUp, Inv, Stopping
  <2>2. QED
    BY Zenon, <2>1, <1>3, <1>6 DEF SendGivesUp
<1>7. ASSUME NEW w \in Workers, GetShutdown(w) PROVE Inv'
  <2>1. /\ w \in Actors /\ item[w] = NoItem /\ delay[w] \in Int
        /\ item' = [item EXCEPT ![w] = item[w]] /\ delay' = [delay EXCEPT ![w] = delay[w]]
    BY Zenon, <1>0, <1>7 DEF Actors, GetShutdown, Goto, Inv, Holding
  <2>2. /\ pc' = [pc EXCEPT ![w] = "exited"]
        /\ UNCHANGED <<queueVars, ch, loopVars, stopCh, promise, limiterVars>>
    BY Zenon, <1>7 DEF GetShutdown, Goto
  <2>3. QED
    BY Zenon, <2>1, <2>2, MoveInv
<1>8. QED
  BY Zenon, <1>1, <1>2, <1>4, <1>5, <1>6, <1>7

\* A call of Add or AddAfter returns: a worker goes on with its item.
LEMMA ReturnFacts ==
    ASSUME Inv, NEW a \in Actors, pc[a] \in {"add", "send"}, Return(a), UNCHANGED active
    PROVE  /\ pc' \in [Actors -> {"get", "work", "done", "exited", "idle", "addAfter", "add", "send"}]
           /\ item' \in [Actors -> Items \cup {NoItem}] /\ delay' \in [Actors -> Int]
           /\ Adding' /\ Holding' /\ item[a] \in Items
           /\ \A w \in Workers : item'[w] = item[w] /\ (w # a => pc'[w] = pc[w])
<1>1. /\ pc \in [Actors -> {"get", "work", "done", "exited", "idle", "addAfter", "add", "send"}]
      /\ item \in [Actors -> Items \cup {NoItem}] /\ delay \in [Actors -> Int]
  BY Zenon DEF Inv, TypeOK
<1>2. item[a] \in Items
  BY Zenon DEF Inv, Adding
<1>3. PICK to \in {"done", "idle"} : pc' = [pc EXCEPT ![a] = to]
  BY Zenon DEF Return
<1>4. PICK x \in Items \cup {NoItem} :
         item' = [item EXCEPT ![a] = x] /\ (a \in Workers => x = item[a])
  BY Zenon, <1>2 DEF Return
<1>5. delay' = [delay EXCEPT ![a] = 0]
  BY Zenon DEF Return
<1>6. /\ pc' \in [Actors -> {"get", "work", "done", "exited", "idle", "addAfter", "add", "send"}]
      /\ item' \in [Actors -> Items \cup {NoItem}] /\ delay' \in [Actors -> Int]
  BY <1>1, <1>3, <1>4, <1>5
<1>7. /\ pc'[a] = to /\ item'[a] = x
      /\ \A b \in Actors : b # a => pc'[b] = pc[b] /\ item'[b] = item[b] /\ delay'[b] = delay[b]
  BY Zenon, <1>1, <1>3, <1>4, <1>5
<1>8. Adding'
  BY Zenon, <1>7 DEF Inv, Adding
<1>9. \A w \in Workers : item'[w] = item[w] /\ (w # a => pc'[w] = pc[w])
  BY Zenon, <1>4, <1>7 DEF Actors
<1>10. Holding'
  BY Zenon, <1>2, <1>7, <1>9 DEF Inv, Holding
<1>11. QED
  BY Zenon, <1>2, <1>6, <1>8, <1>9, <1>10

\* An item is added without delay.
LEMMA AddNowInv == ASSUME Inv, NEW a \in Actors, AddNow(a) PROVE Inv'
<1>1. /\ UNCHANGED <<active, closed, ch, known, left, loop, lag, stopCh, promise, limiter,
                     failures, tokens>>
      /\ pc[a] = "add" /\ Return(a)
      /\ pending \subseteq pending' /\ pending' \subseteq pending \cup {item[a]}
      /\ ~closed => item[a] \in pending'
  BY Zenon DEF AddNow, QueueAdd, Q!Offer, queueVars, loopVars, limiterVars
<1>2. /\ pc' \in [Actors -> {"get", "work", "done", "exited", "idle", "addAfter", "add", "send"}]
      /\ item' \in [Actors -> Items \cup {NoItem}] /\ delay' \in [Actors -> Int]
      /\ Adding' /\ Holding' /\ item[a] \in Items
      /\ \A w \in Workers : item'[w] = item[w] /\ (w # a => pc'[w] = pc[w])
  BY Zenon, <1>1, ReturnFacts
<1>3. TypeOK'
  BY Zenon, <1>1, <1>2 DEF Inv, TypeOK, LimiterTypeOK
<1>4. Retried'
  <2>1. \A i : (OnItsWay(i) => OnItsWay(i)') /\ (Held(i)' = Held(i))
    BY Zenon, <1>1, <1>2 DEF OnItsWay, InChannel, Held
  <2>2. \A i : i = item[a] /\ ~closed => OnItsWay(i)'
    BY Zenon, <1>1 DEF OnItsWay
  <2>3. ASSUME NEW w \in Workers, NEW i, i = item[w], pc'[w] = "done", failures[i] > 0, ~closed
        PROVE  OnItsWay(i)'
    BY Zenon, <2>1, <2>2, <2>3, <1>2 DEF Inv, Retried
  <2>4. QED
    BY Zenon, <2>1, <2>3, <1>1, <1>2 DEF Inv, Retried
<1>5. Promised' /\ Stopping'
  BY Zenon, <1>1 DEF Inv, Promised, Due, Stopping
<1>6. QED
  BY Zenon, <1>2, <1>3, <1>4, <1>5 DEF Inv

\* An entry is sent to waitingLoop, with the promise that comes with it.
LEMMA SendInv == ASSUME Inv, NEW a \in Actors, Send(a) PROVE Inv'
<1> DEFINE entry == [item |-> item[a], left |-> delay[a]]
<1>1. /\ UNCHANGED <<pending, active, closed, known, left, loop, lag, stopCh, limiter, failures,
                     tokens>>
      /\ pc[a] = "send" /\ Return(a) /\ Len(ch) < ChanCap /\ ch' = Append(ch, entry)
      /\ promise' = [promise EXCEPT ![item[a]] = Smaller(promise[item[a]], delay[a])]
  BY Zenon DEF Send, queueVars, loopVars, limiterVars
<1>2. /\ pc' \in [Actors -> {"get", "work", "done", "exited", "idle", "addAfter", "add", "send"}]
      /\ item' \in [Actors -> Items \cup {NoItem}] /\ delay' \in [Actors -> Int]
      /\ Adding' /\ Holding' /\ item[a] \in Items
      /\ \A w \in Workers : item'[w] = item[w] /\ (w # a => pc'[w] = pc[w])
  BY Zenon, <1>1, ReturnFacts
<1>3. delay[a] \in Times /\ entry \in [item : Items, left : Times]
  BY Zenon, <1>1, <1>2 DEF Inv, Adding
<1>4. /\ ch' \in Seq([item : Items, left : Times]) /\ Range(ch') = Range(ch) \cup {entry}
      /\ Len(ch') <= ChanCap
  <2> DEFINE Entries == [item : Items, left : Times]
  <2>1. ch \in Seq(Entries) /\ entry \in Entries
    BY Zenon, <1>3 DEF Inv, TypeOK
  <2> HIDE DEF Entries, entry
  <2>2. ch' \in Seq(Entries) /\ Range(ch') = Range(ch) \cup {entry}
    BY <2>1, <1>1, SendRange
  <2>3. Len(ch') = Len(ch) + 1 /\ Len(ch) \in Nat
    BY <2>1, <1>1
  <2>4. Len(ch') <= ChanCap
    BY <2>3, <1>1, QueueAssumption
  <2>5. QED
    BY Zenon, <2>2, <2>4 DEF Entries
<1>5. entry.item = item[a] /\ entry.left = delay[a]
  OBVIOUS
<1> HIDE DEF entry
<1>6. promise \in [Items -> Times \cup {None}] /\ promise[item[a]] \in Times \cup {None}
  BY Zenon, <1>2 DEF Inv, TypeOK
<1>7. /\ Smaller(promise[item[a]], delay[a]) \in Times
      /\ \/ Smaller(promise[item[a]], delay[a]) = delay[a]
         \/ /\ Smaller(promise[item[a]], delay[a]) = promise[item[a]]
            /\ promise[item[a]] # None
  BY <1>3, <1>6, LimiterAssumption DEF Times, None, Smaller
<1>8. TypeOK'
  <2>1. promise' \in [Items -> Times \cup {None}]
    BY Zenon, <1>1, <1>6, <1>7
  <2>2. QED
    BY Zenon, <2>1, <1>1, <1>2, <1>4 DEF Inv, TypeOK, LimiterTypeOK
<1>9. Retried'
  <2>1. \A i : (OnItsWay(i) => OnItsWay(i)') /\ (Held(i)' = Held(i))
    BY Zenon, <1>1, <1>2, <1>4 DEF OnItsWay, InChannel, Held
  <2>2. \A i : i = item[a] => OnItsWay(i)'
    BY Zenon, <1>4, <1>5 DEF OnItsWay, InChannel
  <2>3. ASSUME NEW w \in Workers, NEW i, i = item[w], pc'[w] = "done", failures[i] > 0, ~closed
        PROVE  OnItsWay(i)'
    BY Zenon, <2>1, <2>2, <2>3, <1>2 DEF Inv, Retried
  <2>4. QED
    BY Zenon, <2>1, <2>3, <1>1, <1>2 DEF Inv, Retried
<1>10. Promised'
  <2> SUFFICES ASSUME NEW i \in Items, promise'[i] # None
               PROVE  \/ i \in known /\ left[i] <= promise'[i]
                      \/ \E e \in Range(ch') : e.item = i /\ e.left <= promise'[i]
    BY Zenon, <1>1 DEF Promised, Due
  <2>1. CASE promise'[i] = promise[i]
    BY Zenon, <2>1, <1>4 DEF Inv, Promised, Due
  <2>2. CASE i = item[a] /\ promise'[i] = delay[a]
    <3>1. entry.left <= promise'[i]
      BY <2>2, <1>3, <1>5 DEF Times
    <3>2. QED
      BY Zenon, <3>1, <2>2, <1>4, <1>5
  <2>3. QED
    BY Zenon, <2>1, <2>2, <1>1, <1>6, <1>7
<1>11. Stopping'
  BY Zenon, <1>1 DEF Inv, Stopping
<1>12. QED
  BY Zenon, <1>2, <1>8, <1>9, <1>10, <1>11 DEF Inv

-----------------------------------------------------------------------------
(* Workers *)

\* Get hands an item out that no worker has.
LEMMA GetInv == ASSUME Inv, NEW w \in Workers, NEW i \in Items, Get(w, i) PROVE Inv'
<1>1. /\ UNCHANGED <<closed, ch, known, left, loop, lag, stopCh, delay, promise, limiter,
                     failures, tokens>>
      /\ pc[w] = "get" /\ pc' = [pc EXCEPT ![w] = "work"] /\ item' = [item EXCEPT ![w] = i]
      /\ i \in pending /\ i \notin active
      /\ pending' = pending \ {i} /\ active' = active \cup {i}
  BY Zenon DEF Get, Goto, Q!Take, loopVars, limiterVars
<1>2. /\ pc \in [Actors -> {"get", "work", "done", "exited", "idle", "addAfter", "add", "send"}]
      /\ item \in [Actors -> Items \cup {NoItem}]
      /\ pending \subseteq Items /\ active \subseteq Items
  BY Zenon DEF Inv, TypeOK
<1>3. /\ w \in Actors /\ pc'[w] = "work" /\ item'[w] = i
      /\ \A a \in Actors : a # w => pc'[a] = pc[a] /\ item'[a] = item[a]
      /\ \A v \in Workers : v \in Actors
  BY Zenon, <1>1, <1>2 DEF Actors
<1>4. i # NoItem
  BY Zenon, QueueAssumption
<1>5. TypeOK'
  <2>1. /\ pc' \in [Actors -> {"get", "work", "done", "exited", "idle", "addAfter", "add", "send"}]
        /\ item' \in [Actors -> Items \cup {NoItem}]
        /\ pending' \subseteq Items /\ active' \subseteq Items
    BY Zenon, <1>1, <1>2
  <2>2. QED
    BY Zenon, <2>1, <1>1 DEF Inv, TypeOK, LimiterTypeOK
<1>6. Adding'
  BY Zenon, <1>1, <1>3 DEF Inv, Adding
<1>7. \A v \in Workers : v # w => item[v] # i
  BY Zenon, <1>1, <1>4 DEF Inv, Holding
<1>8. Holding'
  BY <1>1, <1>3, <1>7 DEF Inv, Holding
<1>9. Retried'
  <2>1. \A j : j # i => (OnItsWay(j)' <=> OnItsWay(j))
    BY Zenon, <1>1 DEF OnItsWay, InChannel
  <2>2. Held(i)'
    BY Zenon, <1>3 DEF Held
  <2>3. ASSUME NEW j \in Items, j # i, Held(j) PROVE Held(j)'
    <3>1. PICK v \in Workers : item[v] = j
      BY Zenon, <2>3 DEF Held
    <3>2. item[w] = NoItem
      BY Zenon, <1>1 DEF Inv, Holding
    <3>3. QED
      BY Zenon, <3>1, <3>2, <1>3, <2>3, QueueAssumption DEF Held
  <2>4. QED
    BY Zenon, <2>1, <2>2, <2>3, <1>1, <1>3, <1>7 DEF Inv, Retried
<1>10. Promised' /\ Stopping'
  BY Zenon, <1>1 DEF Inv, Promised, Due, Stopping
<1>11. QED
  BY Zenon, <1>5, <1>6, <1>8, <1>9, <1>10 DEF Inv

\* A worker forgets the failures of its item, or counts one and calls AddAfter.
LEMMA JudgeInv == ASSUME Inv, NEW w \in Workers, Finish(w) \/ AddRateLimited(w) PROVE Inv'
<1>1. /\ UNCHANGED <<pending, active, closed, ch, known, left, loop, lag, stopCh, item, promise>>
      /\ pc[w] = "work" /\ limiter' = limiter
  BY Zenon DEF Finish, AddRateLimited, Goto, Forget, When, queueVars, loopVars
<1>2. /\ pc \in [Actors -> {"get", "work", "done", "exited", "idle", "addAfter", "add", "send"}]
      /\ delay \in [Actors -> Int] /\ failures \in [Items -> Nat] /\ tokens \in Int
      /\ limiter \in Limiters
  BY Zenon DEF Inv, TypeOK, LimiterTypeOK
<1>3. PICK i \in Items : i = item[w]
  BY Zenon, <1>1 DEF Inv, Holding
<1>4. PICK to \in {"done", "addAfter"}, n \in Nat, d \in Int :
         /\ pc' = [pc EXCEPT ![w] = to] /\ failures' = [failures EXCEPT ![i] = n]
         /\ delay' = [delay EXCEPT ![w] = d]
         /\ (to = "addAfter" => d <= MaxDuration) /\ (to = "done" => n = 0)
  <2>1. CASE Finish(w)
    <3>1. /\ pc' = [pc EXCEPT ![w] = "done"] /\ failures' = [failures EXCEPT ![i] = 0]
          /\ delay' = [delay EXCEPT ![w] = delay[w]]
      BY Zenon, <2>1, <1>2, <1>3 DEF Finish, Goto, Forget
    <3>2. delay[w] \in Int /\ 0 \in Nat
      BY Zenon, <1>2 DEF Actors
    <3>3. QED
      BY Zenon, <3>1, <3>2
  <2>2. CASE AddRateLimited(w)
    <3>1. PICK d \in -(MaxDuration + 1)..MaxDuration :
             When(item[w], d) /\ delay' = [delay EXCEPT ![w] = d]
      BY Zenon, <2>2 DEF AddRateLimited
    <3>2. d \in Int /\ d <= MaxDuration
      BY LimiterAssumption
    <3>3. failures[i] + 1 \in Nat /\ failures' = [failures EXCEPT ![i] = failures[i] + 1]
      BY <3>1, <1>2, <1>3 DEF When
    <3>4. pc' = [pc EXCEPT ![w] = "addAfter"]
      BY Zenon, <2>2 DEF AddRateLimited, Goto
    <3>5. QED
      BY Zenon, <3>1, <3>2, <3>3, <3>4
  <2>3. QED
    BY Zenon, <2>1, <2>2
<1>5. tokens' \in Int
  <2>1. CASE Finish(w)
    BY Zenon, <2>1, <1>2 DEF Finish, Forget
  <2>2. CASE AddRateLimited(w)
    <3>1. PICK m : When(item[w], m)
      BY Zenon, <2>2 DEF AddRateLimited
    <3>2. limiter = "fastSlow" \/ limiter = "maxOf" \/ limiter = "maxOfWithMaxWait"
      BY Zenon, <1>2, LimiterAssumption DEF LimiterKinds
    <3>3. tokens' = tokens \/ tokens' = tokens - 1
      BY Zenon, <3>1, <3>2 DEF When
    <3>4. QED
      BY <3>3, <1>2
  <2>3. QED
    BY Zenon, <2>1, <2>2
<1>6. /\ w \in Actors /\ pc'[w] = to /\ delay'[w] = d /\ failures'[i] = n
      /\ \A a \in Actors : a # w => pc'[a] = pc[a] /\ delay'[a] = delay[a]
      /\ \A j \in Items : j # i => failures'[j] = failures[j]
      /\ \A v \in Workers : v \in Actors
  BY Zenon, <1>2, <1>4 DEF Actors
<1>7. TypeOK'
  <2>1. pc' \in [Actors -> {"get", "work", "done", "exited", "idle", "addAfter", "add", "send"}]
    BY Zenon, <1>2, <1>4
  <2>2. delay' \in [Actors -> Int] /\ failures' \in [Items -> Nat]
    BY Zenon, <1>2, <1>4
  <2>3. LimiterTypeOK'
    BY Zenon, <2>2, <1>1, <1>2, <1>5 DEF LimiterTypeOK
  <2>4. QED
    BY Zenon, <2>1, <2>2, <2>3, <1>1 DEF Inv, TypeOK
<1>8. Adding'
  BY Zenon, <1>1, <1>3, <1>4, <1>6 DEF Inv, Adding
<1>9. Holding'
  BY Zenon, <1>1, <1>3, <1>4, <1>6 DEF Inv, Holding
<1>10. Retried'
  <2>1. \A j : OnItsWay(j)' = OnItsWay(j) /\ Held(j)' = Held(j)
    BY Zenon, <1>1 DEF OnItsWay, InChannel, Held
  <2>2. Held(i)
    BY Zenon, <1>3 DEF Held
  <2>3. ASSUME NEW v \in Workers, pc'[v] = "done", failures'[item[v]] > 0, ~closed
        PROVE  OnItsWay(item[v])
    <3>1. CASE v = w
      BY <3>1, <2>3, <1>3, <1>4, <1>6
    <3>2. CASE v # w
      <4>1. pc[v] = "done" /\ item[v] \in Items
        BY Zenon, <3>2, <2>3, <1>6 DEF Inv, Holding
      <4>2. item[v] # i
        BY Zenon, <4>1, <3>2, <1>3, QueueAssumption DEF Inv, Holding
      <4>3. QED
        BY Zenon, <4>1, <4>2, <2>3, <1>6 DEF Inv, Retried
    <3>3. QED
      BY Zenon, <3>1, <3>2
  <2>4. QED
    BY Zenon, <2>1, <2>2, <2>3, <1>1, <1>6 DEF Inv, Retried
<1>11. Promised' /\ Stopping'
  BY Zenon, <1>1 DEF Inv, Promised, Due, Stopping
<1>12. QED
  BY Zenon, <1>7, <1>8, <1>9, <1>10, <1>11 DEF Inv

\* Done: the item is on its way already or has no failures left.
LEMMA DoneInv == ASSUME Inv, NEW w \in Workers, Done(w) PROVE Inv'
<1>1. /\ UNCHANGED <<pending, closed, ch, known, left, loop, lag, stopCh, delay, promise, limiter,
                     failures, tokens>>
      /\ pc[w] = "done" /\ pc' = [pc EXCEPT ![w] = "get"] /\ item' = [item EXCEPT ![w] = NoItem]
      /\ active' = active \ {item[w]}
  BY Zenon DEF Done, Goto, Q!GiveBack, loopVars, limiterVars
<1>2. /\ pc \in [Actors -> {"get", "work", "done", "exited", "idle", "addAfter", "add", "send"}]
      /\ item \in [Actors -> Items \cup {NoItem}] /\ active \subseteq Items
  BY Zenon DEF Inv, TypeOK
<1>3. PICK i \in Items : i = item[w]
  BY Zenon, <1>1 DEF Inv, Holding
<1>4. /\ w \in Actors /\ pc'[w] = "get" /\ item'[w] = NoItem
      /\ \A a \in Actors : a # w => pc'[a] = pc[a] /\ item'[a] = item[a]
      /\ \A v \in Workers : v \in Actors
  BY Zenon, <1>1, <1>2 DEF Actors
<1>5. \A v \in Workers : v # w => item[v] # i
  BY Zenon, <1>3, QueueAssumption DEF Inv, Holding
<1>6. TypeOK'
  <2>1. /\ pc' \in [Actors -> {"get", "work", "done", "exited", "idle", "addAfter", "add", "send"}]
        /\ item' \in [Actors -> Items \cup {NoItem}] /\ active' \subseteq Items
    BY Zenon, <1>1, <1>2
  <2>2. QED
    BY Zenon, <2>1, <1>1 DEF Inv, TypeOK, LimiterTypeOK
<1>7. Adding'
  BY Zenon, <1>1, <1>4 DEF Inv, Adding
<1>8. Holding'
  BY <1>1, <1>3, <1>4, <1>5 DEF Inv, Holding
<1>9. Retried'
  <2>1. \A j : OnItsWay(j)' = OnItsWay(j)
    BY Zenon, <1>1 DEF OnItsWay, InChannel
  <2>2. \A j \in Items : j # i /\ Held(j) => Held(j)'
    BY Zenon, <1>3, <1>4 DEF Held
  <2>3. failures[i] > 0 /\ ~closed => OnItsWay(i)
    BY Zenon, <1>1, <1>3 DEF Inv, Retried
  <2>4. \A v \in Workers : pc'[v] = "done" => pc[v] = "done" /\ item'[v] = item[v]
    BY Zenon, <1>4
  <2>5. QED
    BY Zenon, <2>1, <2>2, <2>3, <2>4, <1>1 DEF Inv, Retried
<1>10. Promised' /\ Stopping'
  BY Zenon, <1>1 DEF Inv, Promised, Due, Stopping
<1>11. QED
  BY Zenon, <1>6, <1>7, <1>8, <1>9, <1>10 DEF Inv

-----------------------------------------------------------------------------
(* waitingLoop and time *)

\* An item is released from the heap: it is in the queue from then on.
LEMMA LoopPopInv == ASSUME Inv, NEW i \in Items, LoopPop(i) PROVE Inv'
<1>1. /\ UNCHANGED <<active, closed, ch, loop, lag, stopCh, pc, item, delay, limiter, failures,
                     tokens>>
      /\ known' = known \ {i} /\ left' = [left EXCEPT ![i] = 0]
      /\ promise' = [promise EXCEPT ![i] = None]
      /\ pending \subseteq pending' /\ pending' \subseteq pending \cup {i}
      /\ ~closed => i \in pending'
  BY Zenon DEF LoopPop, Release, QueueAdd, Q!Offer, queueVars, actorVars, limiterVars
<1>2. TypeOK'
  <2>1. left' \in [Items -> Times]
    <3>1. left \in [Items -> Times]
      BY Zenon DEF Inv, TypeOK
    <3>2. 0 \in Times
      BY LimiterAssumption DEF Times
    <3>3. left' = [left EXCEPT ![i] = 0]
      BY Zenon, <1>1
    <3>4. QED
      BY Zenon, <3>1, <3>2, <3>3
  <2>2. promise' \in [Items -> Times \cup {None}]
    <3>1. promise \in [Items -> Times \cup {None}]
      BY Zenon DEF Inv, TypeOK
    <3>2. promise' = [promise EXCEPT ![i] = None]
      BY Zenon, <1>1
    <3>3. QED
      BY Zenon, <3>1, <3>2
  <2>3. known' \subseteq Items /\ pending' \subseteq Items
    BY Zenon, <1>1 DEF Inv, TypeOK
  <2>4. QED
    BY Zenon, <1>1, <2>1, <2>2, <2>3 DEF Inv, TypeOK, LimiterTypeOK
<1>3. Adding' /\ Holding' /\ Stopping'
  BY Zenon, <1>1 DEF Inv, Adding, Holding, Stopping
<1>4. Retried'
  <2>1. \A j : (OnItsWay(j) /\ ~closed => OnItsWay(j)') /\ (Held(j)' = Held(j))
    BY Zenon, <1>1 DEF OnItsWay, InChannel, Held
  <2>2. QED
    BY Zenon, <2>1, <1>1 DEF Inv, Retried
<1>5. Promised'
  <2> SUFFICES ASSUME NEW j \in Items, promise'[j] # None
               PROVE  \/ j \in known' /\ left'[j] <= promise'[j]
                      \/ \E e \in Range(ch) : e.item = j /\ e.left <= promise'[j]
    BY Zenon, <1>1 DEF Promised, Due
  <2>1. promise \in [Items -> Times \cup {None}] /\ left \in [Items -> Times]
    BY Zenon DEF Inv, TypeOK
  <2>2. j # i /\ promise'[j] = promise[j] /\ left'[j] = left[j]
    BY Zenon, <2>1, <1>1
  <2>3. QED
    BY Zenon, <2>2, <1>1 DEF Inv, Promised, Due
<1>6. QED
  BY Zenon, <1>2, <1>3, <1>4, <1>5 DEF Inv

\* Smaller is a lower bound that stays in the type.
LEMMA SmallerFacts ==
    ASSUME NEW s \in Times, NEW t \in Times
    PROVE  Smaller(s, t) \in Times /\ Smaller(s, t) <= s /\ Smaller(s, t) <= t
BY LimiterAssumption DEF Times, Smaller

\* An entry is received: it goes to the heap, where it does not delay the item's other
\* entry, or its item to the queue.
LEMMA LoopReceiveInv == ASSUME Inv, LoopReceive PROVE Inv'
<1>1. /\ UNCHANGED <<active, closed, lag, stopCh, pc, item, delay, limiter, failures, tokens>>
      /\ ch # <<>> /\ ch' = Tail(ch) /\ loop' = "drain"
  BY Zenon DEF LoopReceive, insert, Release, QueueAdd, Q!Offer, queueVars, actorVars, limiterVars
<1>2. /\ left \in [Items -> Times] /\ promise \in [Items -> Times \cup {None}]
      /\ known \subseteq Items /\ pending \subseteq Items
  BY Zenon DEF Inv, TypeOK
<1>3. PICK e \in [item : Items, left : Times] :
         /\ e = Head(ch) /\ Range(ch) = Range(ch') \cup {e}
         /\ ch' \in Seq([item : Items, left : Times]) /\ Len(ch') <= ChanCap
  <2> DEFINE Entries == [item : Items, left : Times]
  <2>1. ch \in Seq(Entries) /\ Len(ch) <= ChanCap
    BY Zenon DEF Inv, TypeOK
  <2> HIDE DEF Entries
  <2>2. /\ ch' \in Seq(Entries) /\ Head(ch) \in Entries /\ Len(ch') <= Len(ch)
        /\ Range(ch) = Range(ch') \cup {Head(ch)}
    BY Zenon, <2>1, <1>1, ReceiveRange
  <2>3. Len(ch) \in Nat /\ Len(ch') \in Nat
    BY <2>1, <2>2
  <2>4. Len(ch') <= ChanCap
    BY <2>1, <2>2, <2>3, QueueAssumption
  <2>5. QED
    BY Zenon, <2>2, <2>4 DEF Entries
<1>4. PICK i \in Items, t \in Times : i = e.item /\ t = e.left
  BY Zenon, <1>3
<1>5. CASE t > 0
  <2>1. /\ known' = known \cup {i} /\ UNCHANGED <<pending, promise>>
        /\ left' = [left EXCEPT ![i] = IF i \in known THEN Smaller(left[i], t) ELSE t]
    BY Zenon, <1>3, <1>4, <1>5 DEF LoopReceive, insert, queueVars
  <2>2. /\ left' \in [Items -> Times] /\ left'[i] <= t
        /\ \A j \in Items : j \in known => left'[j] <= left[j]
    <3>1. left[i] \in Times /\ Smaller(left[i], t) \in Times
      BY Zenon, <1>2, SmallerFacts
    <3>2. left' \in [Items -> Times]
      BY Zenon, <3>1, <2>1, <1>2
    <3>3. t <= t /\ \A j \in Items : left[j] <= left[j]
      BY <1>2 DEF Times
    <3>4. left'[i] <= t /\ (i \in known => left'[i] <= left[i])
      BY Zenon, <3>1, <3>3, <2>1, <1>2, SmallerFacts
    <3>5. \A j \in Items : j # i => left'[j] = left[j]
      BY Zenon, <2>1, <1>2
    <3>6. QED
      BY Zenon, <3>2, <3>3, <3>4, <3>5
  <2>3. TypeOK'
    BY Zenon, <2>1, <2>2, <1>1, <1>2, <1>3 DEF Inv, TypeOK, LimiterTypeOK
  <2>4. Retried'
    <3>1. \A j : (OnItsWay(j) => OnItsWay(j)') /\ (Held(j)' = Held(j))
      BY Zenon, <2>1, <1>1, <1>3, <1>4 DEF OnItsWay, InChannel, Held
    <3>2. QED
      BY Zenon, <3>1, <1>1 DEF Inv, Retried
  <2>5. Promised'
    <3> SUFFICES ASSUME NEW j \in Items, promise[j] # None
                 PROVE  \/ j \in known' /\ left'[j] <= promise[j]
                        \/ \E f \in Range(ch') : f.item = j /\ f.left <= promise[j]
      BY Zenon, <2>1 DEF Promised, Due
    <3>1. promise[j] \in Times /\ left[j] \in Times /\ left'[j] \in Times
      BY Zenon, <1>2, <2>2
    <3>2. CASE j \in known /\ left[j] <= promise[j]
      <4>1. left'[j] <= left[j]
        BY Zenon, <3>2, <2>2
      <4>2. left'[j] <= promise[j]
        BY <4>1, <3>1, <3>2 DEF Times
      <4>3. QED
        BY Zenon, <4>2, <3>2, <2>1
    <3>3. CASE e.item = j /\ e.left <= promise[j]
      <4>1. left'[j] <= t /\ t <= promise[j]
        BY Zenon, <3>3, <2>2, <1>4
      <4>2. left'[j] <= promise[j]
        BY <4>1, <3>1 DEF Times
      <4>3. QED
        BY Zenon, <4>2, <3>3, <2>1, <1>4
    <3>4. CASE \E f \in Range(ch') : f.item = j /\ f.left <= promise[j]
      BY Zenon, <3>4
    <3>5. QED
      BY Zenon, <3>2, <3>3, <3>4, <1>3 DEF Inv, Promised, Due
  <2>6. Adding' /\ Holding' /\ Stopping'
    BY Zenon, <1>1 DEF Inv, Adding, Holding, Stopping
  <2>7. QED
    BY Zenon, <2>3, <2>4, <2>5, <2>6 DEF Inv
<1>6. CASE ~(t > 0)
  <2>1. /\ UNCHANGED <<known, left>> /\ promise' = [promise EXCEPT ![i] = None]
        /\ pending \subseteq pending' /\ pending' \subseteq pending \cup {i}
        /\ ~closed => i \in pending'
    BY Zenon, <1>3, <1>4, <1>6 DEF LoopReceive, Release, QueueAdd, Q!Offer, queueVars
  <2>2. promise' \in [Items -> Times \cup {None}] /\ pending' \subseteq Items
    BY Zenon, <2>1, <1>2
  <2>3. TypeOK'
    BY Zenon, <2>1, <2>2, <1>1, <1>3 DEF Inv, TypeOK, LimiterTypeOK
  <2>4. Retried'
    <3>1. \A j : (OnItsWay(j) /\ ~closed => OnItsWay(j)') /\ (Held(j)' = Held(j))
      BY Zenon, <2>1, <1>1, <1>3, <1>4 DEF OnItsWay, InChannel, Held
    <3>2. QED
      BY Zenon, <3>1, <1>1 DEF Inv, Retried
  <2>5. Promised'
    <3> SUFFICES ASSUME NEW j \in Items, promise'[j] # None
                 PROVE  \/ j \in known /\ left[j] <= promise'[j]
                        \/ \E f \in Range(ch') : f.item = j /\ f.left <= promise'[j]
      BY Zenon, <2>1 DEF Promised, Due
    <3>1. j # i /\ promise'[j] = promise[j]
      BY Zenon, <2>1, <1>2
    <3>2. QED
      BY Zenon, <3>1, <1>3, <1>4 DEF Inv, Promised, Due
  <2>6. Adding' /\ Holding' /\ Stopping'
    BY Zenon, <1>1 DEF Inv, Adding, Holding, Stopping
  <2>7. QED
    BY Zenon, <2>3, <2>4, <2>5, <2>6 DEF Inv
<1>7. QED
  BY Zenon, <1>5, <1>6

\* A tick brings times nearer, in their order, until they are past.
LEMMA SoonerFacts ==
    ASSUME NEW s \in Times, NEW t \in Times
    PROVE  Sooner(s) \in Times /\ Sooner(s) # None /\ (s <= t => Sooner(s) <= Sooner(t))
BY LimiterAssumption DEF Times, Sooner, None

\* Time passes for the entries and for what was promised alike.
LEMMA TickInv == ASSUME Inv, Tick PROVE Inv'
<1> DEFINE Entries == [item : Items, left : Times]
           later(e) == [item |-> e.item, left |-> Sooner(e.left)]
<1>1. /\ UNCHANGED <<pending, active, closed, known, loop, stopCh, pc, item, limiter, failures>>
      /\ lag' \in 0..1 /\ tokens' = Smaller(Burst, tokens + 1)
      /\ ch' = [n \in DOMAIN ch |-> later(ch[n])]
      /\ left' = [i \in Items |-> IF i \in known THEN Sooner(left[i]) ELSE left[i]]
      /\ delay' = [a \in Actors |-> IF pc[a] = "send" THEN Sooner(delay[a]) ELSE delay[a]]
      /\ promise' = [i \in Items |-> IF promise[i] = None THEN None ELSE Sooner(promise[i])]
  BY DEF Tick, Refill, queueVars
<1>2. /\ left \in [Items -> Times] /\ promise \in [Items -> Times \cup {None}]
      /\ ch \in Seq(Entries) /\ Len(ch) <= ChanCap /\ delay \in [Actors -> Int] /\ tokens \in Int
  BY Zenon DEF Inv, TypeOK, LimiterTypeOK
<1>3. /\ \A e \in Entries : later(e) \in Entries /\ later(e).item = e.item
      /\ \A e \in Entries : later(e).left = Sooner(e.left)
  BY Zenon, SoonerFacts
<1> HIDE DEF Entries, later
<1>4. ch' \in Seq(Entries) /\ Len(ch') = Len(ch) /\ \A e \in Range(ch) : later(e) \in Range(ch')
  <2>1. DOMAIN ch = 1..Len(ch) /\ Len(ch) \in Nat /\ \A n \in 1..Len(ch) : ch[n] \in Entries
    BY <1>2
  <2>2. ch' = [n \in 1..Len(ch) |-> later(ch[n])]
    BY Zenon, <2>1, <1>1
  <2>3. \A n \in 1..Len(ch) : later(ch[n]) \in Entries
    BY Zenon, <2>1, <1>3
  <2>4. ch' \in Seq(Entries) /\ Len(ch') = Len(ch)
    BY <2>1, <2>2, <2>3
  <2>5. QED
    BY Zenon, <2>1, <2>2, <2>4 DEF Range
<1>5. \A e \in Range(ch) : e \in Entries
  BY Zenon, <1>2, RangeType
<1>6. \A a \in Actors : delay'[a] \in Int /\ (pc[a] = "send" => delay'[a] \in Times)
  <2> SUFFICES ASSUME NEW a \in Actors
               PROVE  delay'[a] \in Int /\ (pc[a] = "send" => delay'[a] \in Times)
    OBVIOUS
  <2>1. CASE pc[a] = "send"
    <3>1. delay[a] \in Times
      BY Zenon, <2>1 DEF Inv, Adding
    <3>2. delay'[a] \in Times
      BY Zenon, <3>1, <2>1, <1>1, SoonerFacts
    <3>3. QED
      BY <3>2, LimiterAssumption DEF Times
  <2>2. CASE pc[a] # "send"
    BY Zenon, <2>2, <1>1, <1>2
  <2>3. QED
    BY Zenon, <2>1, <2>2
<1>7. TypeOK'
  <2>1. left' \in [Items -> Times]
    BY Zenon, <1>1, <1>2, SoonerFacts
  <2>2. promise' \in [Items -> Times \cup {None}]
    BY Zenon, <1>1, <1>2, SoonerFacts
  <2>3. delay' \in [Actors -> Int]
    BY Zenon, <1>1, <1>6
  <2>4. LimiterTypeOK'
    <3>1. tokens' \in Int
      BY <1>1, <1>2, LimiterAssumption DEF Smaller
    <3>2. QED
      BY Zenon, <3>1, <1>1 DEF Inv, TypeOK, LimiterTypeOK
  <2>5. ch' \in Seq([item : Items, left : Times]) /\ Len(ch') <= ChanCap
    BY Zenon, <1>2, <1>4 DEF Entries
  <2>6. QED
    BY Zenon, <1>1, <2>1, <2>2, <2>3, <2>4, <2>5 DEF Inv, TypeOK
<1>8. Adding'
  <2>1. \A a \in Actors : pc[a] = "addAfter" => delay'[a] = delay[a]
    BY Zenon, <1>1
  <2>2. QED
    BY Zenon, <2>1, <1>1, <1>6 DEF Inv, Adding
<1>9. Holding' /\ Stopping'
  BY Zenon, <1>1 DEF Inv, Holding, Stopping
<1>10. Retried'
  <2>1. \A i : InChannel(i) => InChannel(i)'
    BY Zenon, <1>3, <1>4, <1>5 DEF InChannel
  <2>2. \A i : (OnItsWay(i) => OnItsWay(i)') /\ (Held(i)' = Held(i))
    BY Zenon, <2>1, <1>1 DEF OnItsWay, Held
  <2>3. QED
    BY Zenon, <2>2, <1>1 DEF Inv, Retried
<1>11. Promised'
  <2> SUFFICES ASSUME NEW i \in Items, promise'[i] # None
               PROVE  \/ i \in known /\ left'[i] <= promise'[i]
                      \/ \E e \in Range(ch') : e.item = i /\ e.left <= promise'[i]
    BY Zenon, <1>1 DEF Promised, Due
  <2>1. promise[i] \in Times /\ promise[i] # None /\ promise'[i] = Sooner(promise[i])
    BY Zenon, <1>1, <1>2
  <2>2. CASE i \in known /\ left[i] <= promise[i]
    BY Zenon, <2>1, <2>2, <1>1, <1>2, SoonerFacts
  <2>3. ASSUME NEW e \in Range(ch), e.item = i, e.left <= promise[i]
        PROVE  \E f \in Range(ch') : f.item = i /\ f.left <= promise'[i]
    <3>1. e.left \in Times /\ later(e) \in Range(ch')
      BY Zenon, <1>4, <1>5 DEF Entries
    <3>2. Sooner(e.left) <= Sooner(promise[i])
      BY Zenon, <3>1, <2>1, <2>3, SoonerFacts
    <3>3. later(e).item = i /\ later(e).left <= promise'[i]
      BY Zenon, <3>2, <2>1, <2>3, <1>3, <1>5
    <3>4. QED
      BY Zenon, <3>1, <3>3
  <2>4. QED
    BY Zenon, <2>1, <2>2, <2>3 DEF Inv, Promised, Due
<1>12. QED
  BY Zenon, <1>7, <1>8, <1>9, <1>10, <1>11 DEF Inv

-----------------------------------------------------------------------------

\* Every behaviour of the queue and its users stays in the invariant.
THEOREM Invariance == Spec => []Inv
<1>1. ASSUME Inv, [Next]_vars PROVE Inv'
  <2>1. ASSUME NEW w \in Workers, WorkerStep(w) PROVE Inv'
    BY Zenon, <1>1, <2>1, GetInv, CallInv, JudgeInv, DoneInv DEF WorkerStep
  <2>2. ASSUME NEW a \in Actors, AddStep(a) PROVE Inv'
    BY Zenon, <1>1, <2>2, CallInv, AddNowInv, SendInv DEF AddStep
  <2>3. CASE \E c \in Callers, i \in Items :
                CallAdd(c, i) \/ \E d \in Delays : CallAddAfter(c, i, d)
    BY Zenon, <1>1, <2>3, CallInv
  <2>4. CASE waitingLoop \/ LoopHeartbeat
    BY Zenon, <1>1, <2>4, LoopQuietInv, LoopPopInv, LoopReceiveInv DEF waitingLoop
  <2>5. CASE ShutDown \/ CloseStopCh \/ ShutDownWithDrain
    BY Zenon, <1>1, <2>5, ShutDownInv
  <2>6. CASE Tick
    BY Zenon, <1>1, <2>6, TickInv
  <2>7. CASE UNCHANGED vars
    <3>1. /\ UNCHANGED <<pending, active, ch, known, left, actorVars, promise, limiterVars>>
          /\ UNCHANGED <<closed, stopCh, loop, lag>>
      BY Zenon, <2>7 DEF vars, queueVars, loopVars
    <3>2. /\ closed \in BOOLEAN /\ stopCh \in {"open", "closing", "closed"}
          /\ loop \in {"top", "pass", "select", "drain", "exited"} /\ lag \in 0..1
          /\ stopCh # "open" => closed
      BY Zenon, <1>1 DEF Inv, TypeOK, Stopping
    <3>3. QED
      BY Zenon, <1>1, <3>1, <3>2, QuietInv
  <2>8. QED
    BY Zenon, <1>1, <2>1, <2>2, <2>3, <2>4, <2>5, <2>6, <2>7 DEF Next
<1>2. QED
  BY <1>1, InitInv, PTL DEF Spec

\* The state of the queue, its loop and its users keeps its types, and the channel its
\* capacity.
THEOREM TypeCorrect == Spec => []TypeOK
<1>1. Inv => TypeOK
  BY Zenon DEF Inv
<1>2. QED
  BY <1>1, Invariance, PTL

\* Due and Waiting say the same, of the channel's entries and of its positions.
LEMMA DueIsWaiting == ASSUME NEW i, NEW t PROVE Due(i, t) <=> Waiting(i, t)
BY Zenon DEF Due, Waiting, Range

\* waitingLoop and insert keep what AddAfter promised, for all items at once.
THEOREM PromisesKept == Spec => []PromiseKept
<1>1. Inv => PromiseKept
  BY Zenon, DueIsWaiting DEF Inv, Promised, PromiseKept
<1>2. QED
  BY <1>1, Invariance, PTL

\* No item that AddRateLimited counted is lost before the queue is shut down.
THEOREM RetriesNotLost == Spec => []RetryNotLost
<1>1. Inv => RetryNotLost
  <2> SUFFICES ASSUME Inv, NEW i \in Items, failures[i] > 0, ~closed
               PROVE  i \in pending \/ Held(i) \/ Waiting(i, None)
    BY Zenon DEF RetryNotLost
  <2>1. CASE i \in known
    <3>1. left[i] <= None
      BY LimiterAssumption DEF Inv, TypeOK, Times, None
    <3>2. QED
      BY Zenon, <3>1, <2>1 DEF Waiting
  <2>2. CASE InChannel(i)
    <3>1. PICK e \in Range(ch) : e.item = i
      BY Zenon, <2>2 DEF InChannel
    <3>2. e.left \in Times
      BY Zenon, EntryType DEF Inv
    <3>3. e.left <= None
      BY <3>2, LimiterAssumption DEF Times, None
    <3>4. Due(i, None)
      BY Zenon, <3>1, <3>3 DEF Due
    <3>5. QED
      BY Zenon, <3>4, DueIsWaiting
  <2>3. QED
    BY Zenon, <2>1, <2>2 DEF Inv, Retried, OnItsWay
<1>2. QED
  BY <1>1, Invariance, PTL

-----------------------------------------------------------------------------
(* The delays of the rate limiters *)

\* A delay that the limiters document after n failures
Respected(n, d) ==
    BaseDelay * 2^n # MaxDuration + 1 =>
       CASE limiter = "fastSlow" ->
               d = IF n < MaxFastAttempts THEN FastDelay ELSE SlowDelay
         [] limiter = "maxOf" -> d >= Documented(n)
         [] limiter = "maxOfWithMaxWait" ->
               Smaller(MaxWait, Documented(n)) <= d /\ d <= MaxWait

\* The exponential limiter returns what its comment says, but for the one backoff that
\* fits the float and not the duration.
LEMMA ExponentialDelay ==
    ASSUME NEW n \in Nat, NEW d \in ExponentialWhen(n), BaseDelay * 2^n # MaxDuration + 1
    PROVE  d \in Int /\ d = Documented(n)
<1> DEFINE backoff == BaseDelay * 2^n
<1>1. backoff \in Int /\ MaxDuration \in Int /\ MaxDelay \in Int /\ MaxDelay <= MaxDuration
  BY LimiterAssumption
<1>2. backoff # MaxDuration + 1 /\ Documented(n) = Smaller(MaxDelay, backoff)
  BY Zenon DEF Documented
<1>3. d \in IF backoff > MaxDuration + 1
            THEN {MaxDelay}
            ELSE {IF calculated > MaxDelay THEN MaxDelay ELSE calculated :
                     calculated \in ToDuration(backoff)}
  BY Zenon DEF ExponentialWhen
<1> HIDE DEF backoff
<1>4. QED
  BY <1>1, <1>2, <1>3 DEF ToDuration, Smaller

\* Every limiter a queue can be made with returns a documented delay.
LEMMA LimiterDelay ==
    ASSUME LimiterTypeOK, NEW i \in Items, NEW d, When(i, d)
    PROVE  Respected(failures[i], d)
<1> DEFINE n == failures[i]
<1> SUFFICES ASSUME BaseDelay * 2^n # MaxDuration + 1 PROVE Respected(n, d)
  BY Zenon DEF Respected
<1>1. n \in Nat /\ limiter \in LimiterKinds /\ tokens \in Int /\ MaxWait \in Int
  BY LimiterAssumption DEF LimiterTypeOK
<1>2. \A e \in MaxOfWhen(n) : e \in Int /\ e >= Documented(n) /\ Documented(n) \in Int
  <2> SUFFICES ASSUME NEW e \in MaxOfWhen(n)
               PROVE  e \in Int /\ e >= Documented(n) /\ Documented(n) \in Int
    OBVIOUS
  <2>1. PICK x \in ExponentialWhen(n) : e = Larger(Larger(0, x), BucketWhen)
    BY Zenon DEF MaxOfWhen
  <2>2. x \in Int /\ x = Documented(n)
    BY Zenon, <1>1, ExponentialDelay
  <2>3. QED
    BY <2>1, <2>2, <1>1 DEF Larger, BucketWhen
<1>3. CASE limiter = "fastSlow"
  <2>1. d = FastSlowWhen(n)
    BY Zenon, <1>3 DEF When
  <2>2. d = IF n < MaxFastAttempts THEN FastDelay ELSE SlowDelay
    BY <2>1, <1>1, LimiterAssumption DEF FastSlowWhen
  <2>3. QED
    BY Zenon, <2>2, <1>3 DEF Respected
<1>4. CASE limiter = "maxOf"
  <2>1. d \in MaxOfWhen(n)
    BY Zenon, <1>4 DEF When
  <2>2. QED
    BY Zenon, <2>1, <1>2, <1>4 DEF Respected
<1>5. CASE limiter = "maxOfWithMaxWait"
  <2>1. PICK e \in MaxOfWhen(n) : d = WithMaxWaitWhen(e)
    BY Zenon, <1>5 DEF When
  <2>2. Smaller(MaxWait, Documented(n)) <= d /\ d <= MaxWait
    BY <2>1, <1>1, <1>2 DEF WithMaxWaitWhen, Smaller
  <2>3. QED
    BY Zenon, <2>2, <1>5 DEF Respected
<1>6. QED
  BY Zenon, <1>1, <1>3, <1>4, <1>5 DEF LimiterKinds

\* A worker about to call AddAfter holds a delay its limiter documents for the failures
\* of its item, which nobody else counts or forgets meanwhile.
THEOREM BackoffsRespected == Spec => []BackoffRespected
<1> DEFINE Own(w) == pc[w] = "addAfter" => Respected(failures[item[w]] - 1, delay[w])
<1>1. (\A w \in Workers : Own(w)) <=> BackoffRespected
  BY Zenon DEF BackoffRespected, Respected
<1>2. Init => BackoffRespected
  BY Zenon DEF Init, BackoffRespected, Actors
<1>3. ASSUME Inv, Inv', BackoffRespected, [Next]_vars PROVE BackoffRespected'
  <2> USE <1>3
  <2> SUFFICES ASSUME NEW w \in Workers, pc'[w] = "addAfter"
               PROVE  Respected(failures[item[w]] - 1, delay[w])'
    BY Zenon DEF BackoffRespected, Respected
  <2>1. /\ pc \in [Actors -> {"get", "work", "done", "exited", "idle", "addAfter", "add", "send"}]
        /\ delay \in [Actors -> Int] /\ failures \in [Items -> Nat]
        /\ item \in [Actors -> Items \cup {NoItem}] /\ w \in Actors
        /\ LimiterTypeOK
    BY Zenon DEF Inv, TypeOK, LimiterTypeOK, Actors
  <2>2. ASSUME pc[w] = "addAfter", item'[w] = item[w], delay'[w] = delay[w],
               failures'[item[w]] = failures[item[w]], limiter' = limiter
        PROVE  Respected(failures[item[w]] - 1, delay[w])'
    <3>1. Respected(failures[item[w]] - 1, delay[w])
      BY Zenon, <1>1, <2>2
    <3>2. QED
      BY Zenon, <3>1, <2>2 DEF Respected
  <2>3. CASE Finish(w)
    BY Zenon, <2>1, <2>3 DEF Finish, Goto
  <2>4. CASE AddRateLimited(w)
    <3>1. PICK d \in -(MaxDuration + 1)..MaxDuration :
             When(item[w], d) /\ delay' = [delay EXCEPT ![w] = d]
      BY Zenon, <2>4 DEF AddRateLimited
    <3>2. item[w] \in Items /\ item' = item /\ limiter' = limiter
      BY Zenon, <2>4, <3>1 DEF AddRateLimited, Goto, Inv, Holding, When
    <3>3. Respected(failures[item[w]], d)
      BY Zenon, <2>1, <3>1, <3>2, LimiterDelay
    <3>4. failures'[item[w]] - 1 = failures[item[w]] /\ delay'[w] = d
      BY <2>1, <3>1, <3>2 DEF When
    <3>5. Respected(failures'[item'[w]] - 1, delay'[w])
      BY Zenon, <3>2, <3>3, <3>4
    <3>6. QED
      BY Zenon, <3>2, <3>5 DEF Respected
  <2>5. ASSUME NEW v \in Workers, v # w, Finish(v) \/ AddRateLimited(v)
        PROVE  Respected(failures[item[w]] - 1, delay[w])'
    <3>1. /\ item' = item /\ limiter' = limiter /\ v \in Actors /\ pc[v] = "work"
          /\ pc'[w] = pc[w] /\ delay'[w] = delay[w]
      BY Zenon, <2>1, <2>5 DEF Finish, AddRateLimited, Goto, Forget, When, Actors
    <3>2. item[v] \in Items /\ item[w] \in Items /\ item[v] # item[w]
      BY Zenon, <2>5, <3>1, <2>1, QueueAssumption DEF Inv, Holding, Adding
    <3>3. failures'[item[w]] = failures[item[w]]
      BY Zenon, <2>5, <3>2, <2>1 DEF Finish, AddRateLimited, Forget, When
    <3>4. QED
      BY Zenon, <2>2, <3>1, <3>3
  <2>6. CASE Tick
    BY Zenon, <2>1, <2>2, <2>6 DEF Tick, Refill
  <2>7. CASE UNCHANGED <<actorVars, limiterVars>>
    BY Zenon, <2>2, <2>7 DEF actorVars, limiterVars
  <2>8. ASSUME NEW a \in Actors, AddStep(a) PROVE Respected(failures[item[w]] - 1, delay[w])'
    <3>1. /\ UNCHANGED limiterVars /\ pc'[a] # "addAfter"
          /\ a # w => pc'[w] = pc[w] /\ item'[w] = item[w] /\ delay'[w] = delay[w]
      BY Zenon, <2>1, <2>8 DEF AddStep, AddAfter, AddNow, Send, SendGivesUp, Return
    <3>2. QED
      BY Zenon, <2>2, <3>1 DEF limiterVars
  <2>9. ASSUME NEW v \in Workers, (\E i \in Items : Get(v, i)) \/ GetShutdown(v) \/ Done(v)
        PROVE  Respected(failures[item[w]] - 1, delay[w])'
    <3>1. /\ UNCHANGED limiterVars /\ pc'[v] # "addAfter"
          /\ v # w => pc'[w] = pc[w] /\ item'[w] = item[w] /\ delay'[w] = delay[w]
      BY Zenon, <2>1, <2>9 DEF Get, GetShutdown, Done, Goto, Actors
    <3>2. QED
      BY Zenon, <2>2, <3>1 DEF limiterVars
  <2>10. ASSUME NEW c \in Callers, NEW i \in Items,
                CallAdd(c, i) \/ \E d \in Delays : CallAddAfter(c, i, d)
         PROVE  Respected(failures[item[w]] - 1, delay[w])'
    <3>1. c # w
      BY Zenon, QueueAssumption
    <3>2. /\ UNCHANGED limiterVars
          /\ pc'[w] = pc[w] /\ item'[w] = item[w] /\ delay'[w] = delay[w]
      BY Zenon, <2>1, <2>10, <3>1 DEF CallAdd, CallAddAfter, Goto
    <3>3. QED
      BY Zenon, <2>2, <3>2 DEF limiterVars
  <2>11. CASE waitingLoop \/ LoopHeartbeat
    BY Zenon, <2>7, <2>11
       DEF waitingLoop, LoopTop, LoopSelect, LoopStop, LoopTimer, LoopReceive, LoopDrained,
           LoopPop, LoopHeartbeat
  <2>12. CASE ShutDown \/ CloseStopCh \/ ShutDownWithDrain \/ UNCHANGED vars
    BY Zenon, <2>7, <2>12 DEF ShutDown, CloseStopCh, ShutDownWithDrain, vars
  <2>13. QED
    BY Zenon, <2>3, <2>4, <2>5, <2>6, <2>8, <2>9, <2>10, <2>11, <2>12 DEF Next, WorkerStep
<1>4. QED
  BY <1>2, <1>3, Invariance, PTL DEF Spec

-----------------------------------------------------------------------------
(* The wait of an item that failed *)

\* The wait of item i is over, or no longer than t.
NotBefore(i, t) == retryIn[i] <= 0 \/ retryIn[i] <= t

\* Wherever i is, nothing brings it to the queue before its wait is over: only the
\* worker that retries it and the entries of this retry have it.
Awaited(i) ==
    /\ i \in pending => retryIn[i] <= 0
    /\ i \in known => NotBefore(i, left[i])
    /\ \A e \in Range(ch) : e.item = i => NotBefore(i, e.left)
    /\ \A a \in Actors : item[a] = i =>
          /\ a \in Workers
          /\ pc[a] \in {"addAfter", "send"} => NotBefore(i, delay[a])
          /\ pc[a] = "add" => retryIn[i] <= 0

RetryInv ==
    /\ retryIn \in [Items -> Times \cup {None}]
    /\ \A i \in Items : retryIn[i] # None => Awaited(i)

\* A step that brings i nowhere
LEMMA AwaitedFrame ==
    ASSUME NEW i, Awaited(i), retryIn'[i] = retryIn[i],
           i \in pending' => i \in pending,
           i \in known' => i \in known /\ left'[i] = left[i],
           \A e \in Range(ch') : e.item = i => e \in Range(ch),
           \A a \in Actors : item'[a] = i =>
              /\ item[a] = i
              /\ pc'[a] \in {"addAfter", "send", "add"} => pc'[a] = pc[a] /\ delay'[a] = delay[a]
    PROVE  Awaited(i)'
BY Zenon DEF Awaited, NotBefore

\* Steps of workers that leave the queue's entries alone
LEMMA WorkerAwaited ==
    ASSUME Inv, RetryInv, UNCHANGED retryIn,
           NEW w \in Workers, GetShutdown(w) \/ Finish(w) \/ Done(w),
           NEW i \in Items, retryIn[i] # None
    PROVE  Awaited(i)'
<1>1. pc \in [Actors -> {"get", "work", "done", "exited", "idle", "addAfter", "add", "send"}]
      /\ item \in [Actors -> Items \cup {NoItem}] /\ w \in Actors
  BY Zenon DEF Inv, TypeOK, Actors
<1>2. UNCHANGED <<pending, known, left, ch, delay>> /\ Awaited(i)
  BY Zenon DEF GetShutdown, Finish, Done, queueVars, loopVars, Q!GiveBack, RetryInv
<1>3. /\ pc'[w] \in {"exited", "done", "get"}
      /\ \A a \in Actors : a # w => pc'[a] = pc[a] /\ item'[a] = item[a]
      /\ item'[w] = item[w] \/ item'[w] = NoItem
  BY Zenon, <1>1 DEF GetShutdown, Finish, Done, Goto
<1>4. QED
  BY Zenon, <1>2, <1>3, AwaitedFrame, QueueAssumption

\* AddAfter adds at once only when the wait is over, and sends the time of the wait.
LEMMA AddAwaited ==
    ASSUME Inv, RetryInv, UNCHANGED retryIn, NEW a \in Actors, AddStep(a),
           NEW i \in Items, retryIn[i] # None
    PROVE  Awaited(i)'
<1>1. /\ pc \in [Actors -> {"get", "work", "done", "exited", "idle", "addAfter", "add", "send"}]
      /\ item \in [Actors -> Items \cup {NoItem}] /\ delay \in [Actors -> Int]
      /\ retryIn[i] \in Int /\ Awaited(i)
  BY LimiterAssumption DEF Inv, TypeOK, RetryInv, Times, None
<1>2. ASSUME Return(a)
      PROVE  \A b \in Actors : item'[b] = i =>
                /\ item[b] = i
                /\ pc'[b] \in {"addAfter", "send", "add"} => pc'[b] = pc[b] /\ delay'[b] = delay[b]
  <2>1. /\ pc'[a] \in {"done", "idle"} /\ item'[a] \in {item[a], NoItem}
        /\ \A b \in Actors : b # a => pc'[b] = pc[b] /\ item'[b] = item[b] /\ delay'[b] = delay[b]
    BY Zenon, <1>1, <1>2 DEF Return
  <2>2. QED
    BY Zenon, <2>1, QueueAssumption
<1>3. CASE AddAfter(a) /\ closed
  <2>1. Return(a) /\ UNCHANGED <<pending, known, left, ch>>
    BY Zenon, <1>3 DEF AddAfter, queueVars, loopVars
  <2>2. QED
    BY Zenon, <2>1, <1>1, <1>2, AwaitedFrame
<1>4. CASE AddAfter(a) /\ ~closed
  <2>1. /\ UNCHANGED <<pending, known, left, ch, item, delay>>
        /\ pc'[a] = IF delay[a] <= 0 THEN "add" ELSE "send"
        /\ pc[a] = "addAfter" /\ \A b \in Actors : b # a => pc'[b] = pc[b]
    BY Zenon, <1>1, <1>4 DEF AddAfter, queueVars, loopVars
  <2>2. item[a] = i /\ delay[a] <= 0 => retryIn[i] <= 0
    <3>1. item[a] = i => NotBefore(i, delay[a])
      BY Zenon, <1>1, <2>1 DEF Awaited
    <3>2. delay[a] \in Int
      BY Zenon, <1>1
    <3>3. QED
      BY <3>1, <3>2, <1>1 DEF NotBefore
  <2>3. QED
    BY Zenon, <2>1, <2>2, <1>1 DEF Awaited, NotBefore
<1>5. CASE AddNow(a)
  <2>1. /\ pc[a] = "add" /\ Return(a) /\ UNCHANGED <<known, left, ch>>
        /\ i \in pending' => i \in pending \/ item[a] = i
    BY Zenon, <1>5 DEF AddNow, QueueAdd, queueVars, loopVars, Q!Offer
  <2>2. i \in pending' => retryIn[i] <= 0
    BY Zenon, <2>1, <1>1 DEF Awaited
  <2>3. QED
    BY Zenon, <2>1, <2>2, <1>1, <1>2 DEF Awaited, NotBefore
<1>6. CASE SendGivesUp(a)
  <2>1. Return(a) /\ UNCHANGED <<pending, known, left, ch>>
    BY Zenon, <1>6 DEF SendGivesUp, queueVars, loopVars
  <2>2. QED
    BY Zenon, <2>1, <1>1, <1>2, AwaitedFrame
<1>7. CASE Send(a)
  <2> DEFINE e == [item |-> item[a], left |-> delay[a]]
             Entries == [item : Items, left : Times]
  <2>1. /\ pc[a] = "send" /\ Return(a) /\ UNCHANGED <<pending, known, left>>
        /\ ch' = Append(ch, e) /\ e.item = item[a] /\ e.left = delay[a]
    BY Zenon, <1>7 DEF Send, queueVars, loopVars
  <2>2. ch \in Seq(Entries) /\ e \in Entries
    BY Zenon, <2>1 DEF Inv, TypeOK, Adding
  <2> HIDE DEF e, Entries
  <2>3. Range(ch') = Range(ch) \cup {e}
    BY <2>1, <2>2, SendRange
  <2>4. e.item = i => NotBefore(i, e.left)
    BY Zenon, <2>1, <1>1 DEF Awaited
  <2>5. QED
    BY Zenon, <2>1, <2>3, <2>4, <1>1, <1>2 DEF Awaited, NotBefore
<1>8. QED
  BY Zenon, <1>3, <1>4, <1>5, <1>6, <1>7 DEF AddStep

\* waitingLoop adds i when an entry of it is due, and its wait is then over.
LEMMA LoopAwaited ==
    ASSUME Inv, RetryInv, UNCHANGED retryIn, waitingLoop \/ LoopHeartbeat,
           NEW i \in Items, retryIn[i] # None
    PROVE  Awaited(i)'
<1>1. /\ left \in [Items -> Times] /\ lag \in 0..1 /\ known \subseteq Items
      /\ retryIn[i] \in Int /\ Awaited(i)
  BY LimiterAssumption DEF Inv, TypeOK, RetryInv, Times, None
<1>2. UNCHANGED <<pc, item, delay>>
  BY Zenon DEF waitingLoop, LoopTop, LoopPop, LoopSelect, LoopStop, LoopHeartbeat, LoopTimer,
               LoopReceive, LoopDrained, actorVars
<1>3. CASE UNCHANGED <<pending, known, left, ch>>
  BY Zenon, <1>1, <1>2, <1>3, AwaitedFrame
<1>4. ASSUME NEW j \in Items, LoopPop(j) PROVE Awaited(i)'
  <2>1. /\ j \in known /\ Ready(j) /\ known' = known \ {j} /\ UNCHANGED ch
        /\ \A k \in known' : left'[k] = left[k]
        /\ i \in pending' => i \in pending \/ i = j
    BY Zenon, <1>1, <1>4 DEF LoopPop, Release, QueueAdd, queueVars, Q!Offer
  <2>2. i = j => retryIn[i] <= 0
    <3>1. left[j] \in Int /\ left[j] <= 0
      BY <1>1, <2>1, LimiterAssumption DEF Ready, Times
    <3>2. i = j => NotBefore(i, left[j])
      BY Zenon, <1>1, <2>1 DEF Awaited
    <3>3. QED
      BY <3>1, <3>2, <1>1 DEF NotBefore
  <2>3. QED
    BY Zenon, <2>1, <2>2, <1>1, <1>2 DEF Awaited, NotBefore
<1>5. CASE LoopReceive
  <2> DEFINE e == Head(ch)
             Entries == [item : Items, left : Times]
  <2>1. ch # <<>> /\ ch' = Tail(ch) /\ ch \in Seq(Entries)
    BY Zenon, <1>5 DEF LoopReceive, Inv, TypeOK
  <2> HIDE DEF Entries
  <2>2. e \in Range(ch) /\ Range(ch') \subseteq Range(ch)
    BY <2>1, ReceiveRange
  <2> HIDE DEF e
  <2>3. e.item \in Items /\ e.left \in Times /\ (e.item = i => NotBefore(i, e.left))
    BY Zenon, <2>2, <1>1, EntryType DEF Inv, Awaited
  <2>4. CASE e.left > 0
    <3>1. insert(e) /\ UNCHANGED pending
      BY Zenon, <1>5, <2>4 DEF LoopReceive, e, queueVars
    <3>2. /\ i \in known' => i \in known \/ i = e.item
          /\ i # e.item => left'[i] = left[i]
          /\ i = e.item => left'[i] \in {left[i], e.left} /\ (i \notin known => left'[i] = e.left)
      BY Zenon, <3>1, <1>1, <2>3 DEF insert, Smaller
    <3>3. i \in known' => retryIn[i] <= 0 \/ retryIn[i] <= left'[i]
      BY Zenon, <3>2, <2>3, <1>1 DEF Awaited, NotBefore
    <3>4. QED
      BY Zenon, <3>1, <3>3, <2>2, <1>1, <1>2 DEF Awaited, NotBefore
  <2>5. CASE ~(e.left > 0)
    <3>1. /\ UNCHANGED <<known, left>>
          /\ i \in pending' => i \in pending \/ i = e.item
      BY Zenon, <1>5, <2>5 DEF LoopReceive, e, Release, QueueAdd, queueVars, Q!Offer
    <3>2. i = e.item => retryIn[i] <= 0
      BY <2>3, <2>5, <1>1, LimiterAssumption DEF NotBefore, Times
    <3>3. QED
      BY Zenon, <3>1, <3>2, <2>2, <1>1, <1>2 DEF Awaited, NotBefore
  <2>6. QED
    BY Zenon, <2>4, <2>5
<1>6. QED
  BY Zenon, <1>3, <1>4, <1>5
     DEF waitingLoop, LoopTop, LoopSelect, LoopStop, LoopHeartbeat, LoopTimer, LoopDrained, queueVars

\* The wait begins: the worker alone has the item.
LEMMA FailedAwaited ==
    ASSUME Inv, RetryInv, NEW w \in Workers, Failed(w)
    PROVE  RetryInv'
<1>1. /\ pc \in [Actors -> {"get", "work", "done", "exited", "idle", "addAfter", "add", "send"}]
      /\ item \in [Actors -> Items \cup {NoItem}] /\ delay \in [Actors -> Int]
      /\ left \in [Items -> Times] /\ retryIn \in [Items -> Times \cup {None}] /\ w \in Actors
  BY Zenon DEF Inv, TypeOK, RetryInv, Actors
<1>2. PICK d \in -(MaxDuration + 1)..MaxDuration : delay' = [delay EXCEPT ![w] = d]
  BY Zenon DEF Failed, AddRateLimited
<1>3. /\ UNCHANGED <<pending, known, left, ch, item>>
      /\ pc[w] = "work" /\ pc'[w] = "addAfter" /\ \A a \in Actors : a # w => pc'[a] = pc[a]
  BY Zenon, <1>1 DEF Failed, AddRateLimited, Goto, queueVars, loopVars
<1>4. PICK i \in Items : i = item[w] /\ \A a \in Workers : a # w => item[a] # i
  <2>1. item[w] \in Items /\ \A a \in Workers : a # w => item[a] # item[w]
    BY Zenon, <1>3, QueueAssumption DEF Inv, Holding
  <2>2. QED
    BY Zenon, <2>1
<1>5. /\ delay'[w] = d /\ \A a \in Actors : a # w => delay'[a] = delay[a]
  BY Zenon, <1>1, <1>2
<1> DEFINE r == IF ~Unasked(i) THEN None ELSE IF d < 0 THEN -1 ELSE d
<1>6. retryIn' = [retryIn EXCEPT ![i] = r]
  BY Zenon, <1>4, <1>5 DEF Failed
<1>7. r \in Times \cup {None} /\ (r <= 0 \/ r <= d \/ r = None)
  BY LimiterAssumption DEF Times
<1>8. r # None => Unasked(i)
  BY Zenon
<1> HIDE DEF r
<1>9. /\ retryIn' \in [Items -> Times \cup {None}] /\ retryIn'[i] = r
      /\ \A j \in Items : j # i => retryIn'[j] = retryIn[j]
  BY Zenon, <1>1, <1>4, <1>6, <1>7
<1>10. ASSUME NEW j \in Items, j # i, retryIn'[j] # None PROVE Awaited(j)'
  <2>1. Awaited(j) /\ retryIn'[j] = retryIn[j]
    BY Zenon, <1>9, <1>10 DEF RetryInv
  <2>2. QED
    BY Zenon, <2>1, <1>3, <1>4, <1>5, <1>10, AwaitedFrame
<1>11. ASSUME r # None PROVE Awaited(i)'
  <2>1. i \notin pending /\ ~Waiting(i, None) /\ \A c \in Callers : item[c] # i
    BY Zenon, <1>8, <1>11 DEF Unasked
  <2>2. i \notin known
    <3>1. left[i] <= None
      BY <1>1, <1>4, LimiterAssumption DEF Times, None
    <3>2. QED
      BY Zenon, <3>1, <2>1 DEF Waiting
  <2>3. \A e \in Range(ch) : e.item # i
    <3> SUFFICES ASSUME NEW e \in Range(ch), e.item = i PROVE FALSE
      OBVIOUS
    <3>1. e.left \in Times
      BY Zenon, EntryType DEF Inv
    <3>2. e.left <= None
      BY <3>1, LimiterAssumption DEF Times, None
    <3>3. Due(i, None)
      BY Zenon, <3>2 DEF Due
    <3>4. QED
      BY Zenon, <3>3, <2>1, DueIsWaiting
  <2>4. \A a \in Actors : item[a] = i => a = w
    BY Zenon, <2>1, <1>4 DEF Actors
  <2>5. QED
    BY Zenon, <2>1, <2>2, <2>3, <2>4, <1>3, <1>5, <1>7, <1>9, <1>11 DEF Awaited, NotBefore
<1>12. QED
  BY Zenon, <1>9, <1>10, <1>11 DEF RetryInv

\* A worker takes an item, or somebody else asks for one: its wait is not recorded.
LEMMA ForgottenAwaited ==
    ASSUME Inv, RetryInv, NEW a \in Actors, NEW i \in Items, Forgotten(i),
           \/ a \in Workers /\ Get(a, i)
           \/ CallAdd(a, i)
           \/ \E d \in Delays : CallAddAfter(a, i, d)
    PROVE  RetryInv'
<1>1. /\ pc \in [Actors -> {"get", "work", "done", "exited", "idle", "addAfter", "add", "send"}]
      /\ item \in [Actors -> Items \cup {NoItem}] /\ delay \in [Actors -> Int]
      /\ retryIn \in [Items -> Times \cup {None}]
  BY Zenon DEF Inv, TypeOK, RetryInv
<1>2. /\ retryIn' \in [Items -> Times \cup {None}] /\ retryIn'[i] = None
      /\ \A j \in Items : j # i => retryIn'[j] = retryIn[j]
  BY Zenon, <1>1 DEF Forgotten
<1>3. /\ UNCHANGED <<known, left, ch>> /\ pending' \subseteq pending
      /\ item'[a] = i
      /\ \A b \in Actors : b # a => pc'[b] = pc[b] /\ item'[b] = item[b] /\ delay'[b] = delay[b]
  BY Zenon, <1>1 DEF Get, CallAdd, CallAddAfter, Goto, queueVars, loopVars, Q!Take
<1>4. ASSUME NEW j \in Items, retryIn'[j] # None PROVE Awaited(j)'
  <2>1. Awaited(j) /\ retryIn'[j] = retryIn[j] /\ j # i
    BY Zenon, <1>2, <1>4 DEF RetryInv
  <2>2. QED
    BY Zenon, <2>1, <1>3, AwaitedFrame
<1>5. QED
  BY Zenon, <1>2, <1>4 DEF RetryInv

\* Time passes for the wait and for the entries alike.
LEMMA TickAwaited ==
    ASSUME Inv, RetryInv, Tick,
           retryIn' = [i \in Items |-> IF retryIn[i] = None THEN None ELSE Sooner(retryIn[i])]
    PROVE  RetryInv'
<1>1. /\ UNCHANGED <<pending, known, pc, item>>
      /\ ch' = [n \in DOMAIN ch |-> [item |-> ch[n].item, left |-> Sooner(ch[n].left)]]
      /\ left' = [i \in Items |-> IF i \in known THEN Sooner(left[i]) ELSE left[i]]
      /\ delay' = [a \in Actors |-> IF pc[a] = "send" THEN Sooner(delay[a]) ELSE delay[a]]
  BY Zenon DEF Tick, queueVars
<1>2. /\ left \in [Items -> Times] /\ delay \in [Actors -> Int]
      /\ retryIn \in [Items -> Times \cup {None}]
  BY Zenon DEF Inv, TypeOK, RetryInv
<1>3. retryIn' \in [Items -> Times \cup {None}]
  BY Zenon, <1>2, SoonerFacts
<1>4. \A f \in Range(ch') : \E e \in Range(ch) : f.item = e.item /\ f.left = Sooner(e.left)
  <2> DEFINE later(e) == [item |-> e.item, left |-> Sooner(e.left)]
  <2>1. \A e : later(e).item = e.item /\ later(e).left = Sooner(e.left)
    BY Zenon
  <2>2. ch' = [n \in DOMAIN ch |-> later(ch[n])]
    BY Zenon, <1>1
  <2> HIDE DEF later
  <2>3. ASSUME NEW f \in Range(ch')
        PROVE  \E e \in Range(ch) : f.item = e.item /\ f.left = Sooner(e.left)
    <3>1. PICK n \in DOMAIN ch : f = later(ch[n])
      BY Zenon, <2>2, <2>3 DEF Range
    <3>2. ch[n] \in Range(ch)
      BY Zenon DEF Range
    <3>3. QED
      BY Zenon, <2>1, <3>1, <3>2
  <2>4. QED
    BY Zenon, <2>3
<1>5. ASSUME NEW i \in Items, retryIn'[i] # None PROVE Awaited(i)'
  <2>1. /\ retryIn[i] \in Times /\ retryIn'[i] = Sooner(retryIn[i]) /\ Awaited(i)
    BY Zenon, <1>2, <1>5 DEF RetryInv
  <2>2. /\ retryIn[i] <= 0 => retryIn'[i] <= 0
        /\ \A d \in Int : retryIn[i] <= d => retryIn'[i] <= d
    BY <2>1, LimiterAssumption DEF Sooner, Times
  <2>3. \A t \in Times : NotBefore(i, t) => retryIn'[i] <= 0 \/ retryIn'[i] <= Sooner(t)
    BY Zenon, <2>1, <2>2, SoonerFacts DEF NotBefore
  <2>4. i \in known => retryIn'[i] <= 0 \/ retryIn'[i] <= left'[i]
    BY Zenon, <2>1, <2>3, <1>1, <1>2 DEF Awaited
  <2>5. ASSUME NEW f \in Range(ch'), f.item = i PROVE retryIn'[i] <= 0 \/ retryIn'[i] <= f.left
    <3>1. PICK e \in Range(ch) : e.item = i /\ f.left = Sooner(e.left)
      BY Zenon, <1>4, <2>5
    <3>2. e.left \in Times
      BY Zenon, EntryType DEF Inv
    <3>3. QED
      BY Zenon, <3>1, <3>2, <2>1, <2>3 DEF Awaited
  <2>6. ASSUME NEW a \in Actors, item[a] = i, pc[a] \in {"addAfter", "send"}
        PROVE  retryIn'[i] <= 0 \/ retryIn'[i] <= delay'[a]
    <3>1. NotBefore(i, delay[a])
      BY Zenon, <2>1, <2>6 DEF Awaited
    <3>2. CASE pc[a] = "send"
      <4>1. delay[a] \in Times /\ delay'[a] = Sooner(delay[a])
        BY Zenon, <3>2, <1>1 DEF Inv, Adding
      <4>2. QED
        BY Zenon, <4>1, <3>1, <2>3
    <3>3. CASE pc[a] # "send"
      BY Zenon, <3>1, <3>3, <2>2, <1>1, <1>2 DEF NotBefore
    <3>4. QED
      BY Zenon, <3>2, <3>3
  <2>7. QED
    BY Zenon, <2>1, <2>2, <2>4, <2>5, <2>6, <1>1 DEF Awaited, NotBefore
<1>6. QED
  BY Zenon, <1>3, <1>5 DEF RetryInv

\* Every step keeps the waits of all items.
LEMMA RetryStep == ASSUME Inv, RetryInv, [HNext]_<<vars, retryIn>> PROVE RetryInv'
<1>1. ASSUME UNCHANGED retryIn, \A i \in Items : retryIn[i] # None => Awaited(i)'
      PROVE  RetryInv'
  BY Zenon, <1>1 DEF RetryInv
<1>2. CASE \E w \in Workers : Failed(w)
  BY Zenon, <1>2, FailedAwaited
<1>3. CASE \E w \in Workers, i \in Items : Get(w, i) /\ Forgotten(i)
  BY Zenon, <1>3, ForgottenAwaited DEF Actors
<1>4. CASE \E c \in Callers, i \in Items :
              /\ CallAdd(c, i) \/ \E d \in Delays : CallAddAfter(c, i, d)
              /\ Forgotten(i)
  BY Zenon, <1>4, ForgottenAwaited DEF Actors
<1>5. CASE /\ Tick
           /\ retryIn' = [i \in Items |-> IF retryIn[i] = None THEN None ELSE Sooner(retryIn[i])]
  BY Zenon, <1>5, TickAwaited
<1>6. CASE OtherStep /\ UNCHANGED retryIn
  <2>1. CASE ShutDown \/ CloseStopCh \/ ShutDownWithDrain
    <3>1. UNCHANGED <<pending, known, left, ch, pc, item, delay>>
      BY Zenon, <2>1 DEF ShutDown, CloseStopCh, ShutDownWithDrain, Q!Close, queueVars, loopVars,
                         actorVars
    <3>2. \A i \in Items : retryIn[i] # None => Awaited(i)'
      BY Zenon, <3>1, <1>6, AwaitedFrame DEF RetryInv
    <3>3. QED
      BY Zenon, <3>2, <1>1, <1>6
  <2>2. QED
    BY Zenon, <2>1, <1>1, <1>6, WorkerAwaited, AddAwaited, LoopAwaited DEF OtherStep
<1>7. CASE UNCHANGED <<vars, retryIn>>
  <2>1. UNCHANGED <<pending, known, left, ch, pc, item, delay>>
    BY Zenon, <1>7 DEF vars, queueVars, loopVars, actorVars
  <2>2. \A i \in Items : retryIn[i] # None => Awaited(i)'
    BY Zenon, <2>1, <1>7, AwaitedFrame DEF RetryInv
  <2>3. QED
    BY Zenon, <2>2, <1>1, <1>7
<1>8. QED
  BY Zenon, <1>2, <1>3, <1>4, <1>5, <1>6, <1>7 DEF HNext

\* "AddRateLimited adds an item to the workqueue after the rate limiter says it's ok":
\* no failed item is back in the queue before its wait is over, unless somebody else
\* asked for it, for any number of items, workers, callers and entries under way.
THEOREM RetriesWait == HSpec => []RetryWaits
<1>1. HInit => Init /\ RetryInv
  BY Zenon DEF HInit, RetryInv
<1>2. [HNext]_<<vars, retryIn>> => [Next]_vars
  BY Zenon DEF HNext, Next, Failed, OtherStep, WorkerStep, Actors
<1>3. HSpec => []Inv
  BY <1>1, <1>2, Invariance, PTL DEF HSpec, Spec
<1>4. RetryInv => RetryWaits
  BY Zenon DEF RetryInv, RetryWaits, Awaited
<1>5. QED
  BY <1>1, <1>3, <1>4, RetryStep, PTL DEF HSpec
=============================================================================
