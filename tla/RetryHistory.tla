----------------------------- MODULE RetryHistory -----------------------------
(***************************************************************************)
(* The queue of module DelayingQueue with a record of the retries: how     *)
(* long an item that failed still has to wait.  The record follows the     *)
(* steps of the queue and restricts none of them.                          *)
(***************************************************************************)
EXTENDS DelayingQueue

VARIABLE retryIn  \* of each item: the time left of the wait that the limiter asked for at
                  \* its last failure, or None when somebody else asks for it too

HInit == Init /\ retryIn = [i \in Items |-> None]

\* Nobody but the worker that has i has asked for it.
Unasked(i) ==
    i \notin pending /\ ~Waiting(i, None) /\ \A c \in Callers : item[c] # i

\* The record ends when another caller asks for i and when a worker takes it.
Forgotten(i) == retryIn' = [retryIn EXCEPT ![i] = None]

Failed(w) ==
    /\ AddRateLimited(w)
    /\ retryIn' = [retryIn EXCEPT ![item[w]] =
                     IF ~Unasked(item[w]) THEN None
                     ELSE IF delay'[w] < 0 THEN -1 ELSE delay'[w]]

OtherStep ==
    \/ \E w \in Workers : GetShutdown(w) \/ Finish(w) \/ Done(w)
    \/ \E a \in Actors : AddStep(a)
    \/ waitingLoop \/ LoopHeartbeat
    \/ ShutDown \/ CloseStopCh \/ ShutDownWithDrain

HNext ==
    \/ \E w \in Workers : Failed(w)
    \/ \E w \in Workers, i \in Items : Get(w, i) /\ Forgotten(i)
    \/ \E c \in Callers, i \in Items :
          /\ CallAdd(c, i) \/ \E d \in Delays : CallAddAfter(c, i, d)
          /\ Forgotten(i)
    \/ /\ Tick
       /\ retryIn' = [i \in Items |-> IF retryIn[i] = None THEN None ELSE Sooner(retryIn[i])]
    \/ OtherStep /\ UNCHANGED retryIn

HSpec == HInit /\ [][HNext]_<<vars, retryIn>>

-----------------------------------------------------------------------------
(* Properties *)

\* "AddRateLimited adds an item to the workqueue after the rate limiter says it's ok":
\* an item that failed is not in the queue again before its wait is over, whatever other
\* entries came before it in the channel and the heap, unless another caller asks for it.
RetryWaits ==
    \A i \in Items : i \in pending /\ retryIn[i] # None => retryIn[i] <= 0
=============================================================================
