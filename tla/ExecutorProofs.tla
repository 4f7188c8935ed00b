--------------------------- MODULE ExecutorProofs ---------------------------
(***************************************************************************)
(* What the executor promises for any number of jobs, IDs and workers, any *)
(* queue size and number of retries.                                       *)
(*                                                                         *)
(* Jobs are counted through the places they can be in: that a job is run   *)
(* no more often than it may be rests on its being in one worker's hands   *)
(* at a time, on its leaving the queue for good with its outcome, and on   *)
(* the failures counted for each earlier run.                              *)
(***************************************************************************)
EXTENDS Executor, TLAPS

(* The slice that holds the queue *)

Distinct(s) == \A m, n \in 1..Len(s) : s[m] = s[n] => m = n

\* Appending an item that is not there keeps the elements distinct and adds
\* the item to the range (append in Add and Done of the queues).
LEMMA AppendRange ==
    ASSUME NEW S, NEW q \in Seq(S), NEW x \in S
    PROVE  /\ Append(q, x) \in Seq(S)
           /\ Range(Append(q, x)) = Range(q) \cup {x}
           /\ Distinct(q) /\ x \notin Range(q) => Distinct(Append(q, x))
<1> DEFINE r == Append(q, x)
<1>1. /\ r \in Seq(S) /\ Len(r) = Len(q) + 1
      /\ \A n \in 1..Len(q) : r[n] = q[n]
      /\ r[Len(r)] = x
    OBVIOUS
<1> HIDE DEF r
<1>2. Len(q) \in Nat /\ DOMAIN q = 1..Len(q) /\ DOMAIN r = 1..Len(r)
    BY <1>1
<1>3. Range(r) = Range(q) \cup {x}
    BY <1>1, <1>2 DEF Range
<1>4. ASSUME Distinct(q), x \notin Range(q) PROVE Distinct(r)
    BY <1>1, <1>2, <1>4 DEF Range, Distinct
<1> QED BY <1>1, <1>3, <1>4 DEF r

\* Removing the head of a queue of distinct items removes that item from the
\* range (q.queue[1:] in Get of the queues).
LEMMA TailRange ==
    ASSUME NEW S, NEW q \in Seq(S), q # <<>>, Distinct(q)
    PROVE  /\ Head(q) \in S /\ Head(q) \in Range(q)
           /\ Tail(q) \in Seq(S)
           /\ Range(Tail(q)) = Range(q) \ {Head(q)}
           /\ Distinct(Tail(q))
<1> DEFINE r == Tail(q)
<1>1. /\ r \in Seq(S) /\ Len(r) = Len(q) - 1 /\ Len(q) >= 1
      /\ \A n \in 1..Len(r) : r[n] = q[n + 1]
      /\ Head(q) = q[1] /\ q[1] \in S
    OBVIOUS
<1>2. Len(q) \in Nat /\ DOMAIN q = 1..Len(q) /\ DOMAIN r = 1..Len(r)
    BY <1>1
<1> HIDE DEF r
<1>3. Distinct(r)
    BY <1>1, <1>2 DEF Distinct
<1>4. Range(r) \subseteq Range(q) \ {q[1]}
    BY <1>1, <1>2 DEF Range, Distinct
<1>5. ASSUME NEW n \in 1..Len(q), q[n] # q[1] PROVE q[n] \in Range(r)
    <2>1. n - 1 \in 1..Len(r) /\ r[n - 1] = q[n]
        BY <1>1, <1>2, <1>5
    <2> QED BY <2>1, <1>2 DEF Range
<1>6. Range(r) = Range(q) \ {q[1]}
    BY <1>2, <1>4, <1>5 DEF Range
<1>7. q[1] \in Range(q)
    BY <1>1, <1>2 DEF Range
<1> QED BY <1>1, <1>3, <1>6, <1>7 DEF r

-----------------------------------------------------------------------------

\* Workers hold the jobs that are being processed, one each.
Holding ==
    /\ \A w \in Workers : job[w] = NoJob <=> pc[w] \in {"check", "get", "exited"}
    /\ \A j \in Jobs : j \in processing <=> \E w \in Workers : job[w] = j
    /\ \A v, w \in Workers : job[v] = job[w] /\ job[v] # NoJob => v = w

\* What is queued is dirty and not processed, and a job that was not accepted is nowhere.
Queued ==
    /\ Range(queue) = dirty \ processing
    /\ Distinct(queue) /\ dirty \cap delayed = {}
    /\ \A w \in Workers : job[w] \in dirty \cup delayed => pc[w] = "done"
    /\ \A j \in Jobs : submission[j] # "accepted" =>
          j \notin dirty \cup delayed \cup processing /\ outcome[j] = "pending"

\* A job has its outcome when, and only when, nothing of it is left to do.
Decided ==
    /\ \A j \in Jobs : outcome[j] # "pending" => j \notin dirty \cup delayed
    /\ \A w \in Workers :
          /\ pc[w] \in {"picked", "start", "running", "returned"} => outcome[job[w]] = "pending"
          /\ pc[w] = "doneAndExit" => outcome[job[w]] # "pending"
          /\ pc[w] = "done" /\ outcome[job[w]] = "pending" /\ ~shuttingDown =>
                job[w] \in dirty \cup delayed
    /\ \A j \in Jobs : submission[j] = "accepted" /\ outcome[j] = "pending" /\ ~shuttingDown =>
          j \in dirty \cup delayed \cup processing

\* The runs that the failures counted for a job account for
Counted(j) == IF allowRetries THEN failures[j] ELSE 0

\* Every run but the current one was counted as a failure.
Retried ==
    /\ \A j \in Jobs : outcome[j] = "pending" =>
          /\ failures[j] <= MaxRetries
          /\ \/ runs[j] <= Counted(j)
             \/ /\ runs[j] <= Counted(j) + 1
                /\ \E w \in Workers : job[w] = j /\ pc[w] \in {"running", "returned"}
    /\ RetriesBounded

\* A worker that took a job after the cancellation does not come back to Get.
Late ==
    \A w \in Workers : latePicks[w] = 0 \/ (latePicks[w] = 1 /\ cancelled /\ pc[w] # "get")

\* A shutdown that was successful left no worker behind.
Stopped == main = "successful" => \A w \in Workers : pc[w] = "exited"

Inv ==
    /\ TypeOK /\ Holding /\ Queued /\ Decided /\ Retried /\ FailuresForgotten
    /\ StatusNotStale /\ Late /\ Stopped

-----------------------------------------------------------------------------

\* An executor starts in the invariant.
LEMMA InitInv == Init => Inv
<1> SUFFICES ASSUME Init PROVE Inv
  OBVIOUS
<1> USE ConfigAssumption
<1>1. queue = <<>> /\ Range(queue) = {} /\ Distinct(queue) /\ queue \in Seq(Jobs)
  BY DEF Init, Range, Distinct
<1>2. TypeOK
  <2>1. /\ failures \in [Jobs -> Nat] /\ runs \in [Jobs -> Nat] /\ latePicks \in [Workers -> Nat]
    BY Zenon DEF Init
  <2>2. /\ pc \in [Workers -> WorkerPC] /\ job \in [Workers -> Jobs \cup {NoJob}]
        /\ jobCtx \in [Workers -> {"none", "live", "deadline", "canceled"}]
        /\ runErr \in [Workers -> BOOLEAN]
    BY Zenon DEF Init, WorkerPC
  <2>3. /\ submission \in [Jobs -> {"new", "checked", "accepted", "rejected"}]
        /\ outcome \in [Jobs -> Outcomes]
    BY Zenon DEF Init, Outcomes
  <2>4. shuttingDown \in BOOLEAN /\ allowRetries \in BOOLEAN /\ cancelled \in BOOLEAN
    BY Zenon DEF Init
  <2>5. QED
    BY Zenon, <1>1, <2>1, <2>2, <2>3, <2>4 DEF Init, TypeOK
<1>3. Holding
  BY Zenon DEF Init, Holding
<1>4. Queued /\ Decided
  BY Zenon, <1>1 DEF Init, Queued, Decided
<1>5. Retried /\ FailuresForgotten
  BY DEF Init, Retried, RetriesBounded, FailuresForgotten, Counted
<1>6. StatusNotStale /\ Late /\ Stopped
  BY Zenon DEF Init, StatusNotStale, Late, Stopped
<1>7. QED
  BY Zenon, <1>2, <1>3, <1>4, <1>5, <1>6 DEF Inv

\* Steps that leave the jobs and the workers where they are keep the invariant: the
\* cancellation, deadlines, and the steps of the shutdown.
LEMMA FrameInv ==
    ASSUME Inv, TypeOK', Stopped',
           UNCHANGED <<queue, dirty, processing, delayed, failures, runningJobs, pc, job,
                       allowRetries, submission, runs, outcome, latePicks>>,
           shuttingDown => shuttingDown', cancelled => cancelled'
    PROVE  Inv'
<1>1. Holding' /\ Queued'
  BY Zenon DEF Inv, Holding, Queued
<1>2. Decided'
  BY Zenon DEF Inv, Decided
<1>3. Retried'
  BY Zenon DEF Inv, Retried, RetriesBounded, Counted
<1>4. FailuresForgotten' /\ StatusNotStale' /\ Late'
  BY Zenon DEF Inv, FailuresForgotten, StatusNotStale, Late
<1>5. QED
  BY Zenon, <1>1, <1>2, <1>3, <1>4 DEF Inv

\* A deadline or the cancellation ends contexts and nothing else.
LEMMA ContextInv == ASSUME Inv, Cancel \/ \E w \in Workers : DeadlinePasses(w) PROVE Inv'
<1>1. UNCHANGED <<queue, dirty, processing, delayed, failures, shuttingDown, runningJobs, pc,
                  job, runErr, allowRetries, main, drainer, submission, runs, outcome, latePicks>>
  BY Zenon DEF Cancel, DeadlinePasses, queueVars, shutdownVars, history
<1>2. cancelled' \in BOOLEAN /\ (cancelled => cancelled')
  BY Zenon DEF Inv, TypeOK, Cancel, DeadlinePasses, shutdownVars
<1>3. jobCtx' \in [Workers -> {"none", "live", "deadline", "canceled"}]
  BY Zenon DEF Inv, TypeOK, Cancel, DeadlinePasses
<1>4. TypeOK'
  BY Zenon, <1>1, <1>2, <1>3 DEF Inv, TypeOK
<1>5. Stopped'
  BY Zenon, <1>1 DEF Inv, Stopped
<1>6. QED
  BY Zenon, <1>1, <1>2, <1>4, <1>5, FrameInv

\* The shutdown of RunJobs: it is successful only once all workers have exited.
LEMMA ShutdownInv == ASSUME Inv, ShutdownStep PROVE Inv'
<1>1. UNCHANGED <<queue, dirty, processing, delayed, failures, runningJobs, pc, job, jobCtx,
                  runErr, allowRetries, cancelled, submission, runs, outcome, latePicks>>
  BY Zenon DEF ShutdownStep, BeginShutdown, DrainBegins, DrainEnds, ShutdownSuccessful,
         ShutdownTimesOut, queueVars, workerVars, history
<1>2. shuttingDown' \in BOOLEAN /\ (shuttingDown => shuttingDown')
  BY Zenon DEF Inv, TypeOK, ShutdownStep, BeginShutdown, DrainBegins, DrainEnds, ShutdownSuccessful,
         ShutdownTimesOut, queueVars
<1>3. /\ main' \in {"serving", "stopping", "successful", "timedOut"}
      /\ drainer' \in {"none", "start", "draining", "returned"}
  BY Zenon DEF Inv, TypeOK, ShutdownStep, BeginShutdown, DrainBegins, DrainEnds, ShutdownSuccessful,
         ShutdownTimesOut
<1>4. TypeOK'
  BY Zenon, <1>1, <1>2, <1>3 DEF Inv, TypeOK
<1>5. Stopped'
  BY Zenon, <1>1 DEF Inv, Stopped, ShutdownStep, BeginShutdown, DrainBegins, DrainEnds,
         ShutdownSuccessful, ShutdownTimesOut, WaitGroupDone
<1>6. QED
  BY Zenon, <1>1, <1>2, <1>4, <1>5, FrameInv

-----------------------------------------------------------------------------
(* AddJob and the queue's delay *)

\* The length of the queue is checked: nothing is in the queue yet.
LEMMA AddJobCheckInv == ASSUME Inv, NEW j \in Jobs, AddJobCheck(j) PROVE Inv'
<1>1. UNCHANGED <<queue, dirty, processing, delayed, failures, shuttingDown, runningJobs, pc,
                  job, jobCtx, runErr, allowRetries, cancelled, main, drainer, runs, outcome,
                  latePicks>>
  BY Zenon DEF AddJobCheck, queueVars, workerVars, shutdownVars, history
<1>2. /\ submission[j] = "new"
      /\ \E s \in {"rejected", "checked"} : submission' = [submission EXCEPT ![j] = s]
  BY Zenon DEF AddJobCheck
<1>3. submission \in [Jobs -> {"new", "checked", "accepted", "rejected"}]
  BY Zenon DEF Inv, TypeOK
<1>4. /\ submission' \in [Jobs -> {"new", "checked", "accepted", "rejected"}]
      /\ \A i \in Jobs : submission'[i] = "accepted" <=> submission[i] = "accepted"
  BY Zenon, <1>2, <1>3
<1>5. TypeOK'
  BY Zenon, <1>1, <1>4 DEF Inv, TypeOK
<1>6. Holding' /\ Queued'
  BY <1>1, <1>4 DEF Inv, Holding, Queued
<1>7. Decided'
  BY Zenon, <1>1, <1>4 DEF Inv, Decided
<1>8. Retried'
  BY Zenon, <1>1 DEF Inv, Retried, RetriesBounded, Counted
<1>9. FailuresForgotten' /\ StatusNotStale' /\ Late' /\ Stopped'
  BY Zenon, <1>1 DEF Inv, FailuresForgotten, StatusNotStale, Late, Stopped
<1>10. QED
  BY Zenon, <1>5, <1>6, <1>7, <1>8, <1>9 DEF Inv

\* Add of the queue keeps the slice and the dirty set in step.
LEMMA QueueAddFacts ==
    ASSUME Inv, NEW j \in Jobs, QueueAdd(j), UNCHANGED processing
    PROVE  /\ queue' \in Seq(Jobs) /\ Distinct(queue)' /\ dirty' \subseteq Jobs
           /\ Range(queue)' = dirty' \ processing'
           /\ dirty' = IF shuttingDown THEN dirty ELSE dirty \cup {j}
<1>1. /\ queue \in Seq(Jobs) /\ Distinct(queue) /\ dirty \subseteq Jobs
      /\ Range(queue) = dirty \ processing
  BY Zenon DEF Inv, TypeOK, Queued
<1>2. CASE shuttingDown \/ j \in dirty
  BY Zenon, <1>1, <1>2 DEF QueueAdd
<1>3. CASE ~shuttingDown /\ j \notin dirty /\ j \in processing
  BY Zenon, <1>1, <1>3 DEF QueueAdd
<1>4. CASE ~shuttingDown /\ j \notin dirty /\ j \notin processing
  <2>1. dirty' = dirty \cup {j} /\ queue' = Append(queue, j)
    BY Zenon, <1>4 DEF QueueAdd
  <2>2. /\ Append(queue, j) \in Seq(Jobs) /\ Distinct(Append(queue, j))
        /\ Range(Append(queue, j)) = Range(queue) \cup {j}
    BY Zenon, <1>1, <1>4, AppendRange
  <2>3. QED
    BY Zenon, <1>1, <1>4, <2>1, <2>2
<1>5. QED
  BY Zenon, <1>2, <1>3, <1>4

\* The job is added: it was nowhere before, and is in the queue unless that is shut down.
LEMMA AddJobInv == ASSUME Inv, NEW j \in Jobs, AddJob(j) PROVE Inv'
<1>1. UNCHANGED <<processing, delayed, failures, shuttingDown, runningJobs, pc, job, jobCtx,
                  runErr, allowRetries, cancelled, main, drainer, runs, outcome, latePicks>>
  BY Zenon DEF AddJob, workerVars, shutdownVars, history
<1>2. submission[j] = "checked" /\ submission' = [submission EXCEPT ![j] = "accepted"]
  BY Zenon DEF AddJob
<1>3. submission \in [Jobs -> {"new", "checked", "accepted", "rejected"}]
  BY Zenon DEF Inv, TypeOK
<1>4. /\ queue' \in Seq(Jobs) /\ Distinct(queue)' /\ dirty' \subseteq Jobs
      /\ Range(queue)' = dirty' \ processing'
      /\ dirty' = IF shuttingDown THEN dirty ELSE dirty \cup {j}
  BY Zenon, <1>1, QueueAddFacts DEF AddJob
<1>5. j \notin processing /\ outcome[j] = "pending" /\ \A w \in Workers : job[w] # j
  BY Zenon, <1>2 DEF Inv, Queued, Holding
<1>6. submission' \in [Jobs -> {"new", "checked", "accepted", "rejected"}]
  BY Zenon, <1>2, <1>3
<1>7. TypeOK'
  BY Zenon, <1>1, <1>4, <1>6 DEF Inv, TypeOK
<1>8. Holding'
  BY Zenon, <1>1 DEF Inv, Holding
<1>9. Queued'
  BY Zenon, <1>1, <1>2, <1>3, <1>4, <1>5 DEF Inv, Queued
<1>10. Decided'
  BY Zenon, <1>1, <1>2, <1>3, <1>4, <1>5 DEF Inv, Decided
<1>11. Retried'
  BY Zenon, <1>1 DEF Inv, Retried, RetriesBounded, Counted
<1>12. FailuresForgotten' /\ StatusNotStale' /\ Late' /\ Stopped'
  BY Zenon, <1>1 DEF Inv, FailuresForgotten, StatusNotStale, Late, Stopped
<1>13. QED
  BY Zenon, <1>7, <1>8, <1>9, <1>10, <1>11, <1>12 DEF Inv

\* The delay of a job is over: it becomes dirty, and is queued unless a worker has it.
LEMMA DelayOverInv == ASSUME Inv, NEW j \in Jobs, QueueDelayOver(j) PROVE Inv'
<1>1. UNCHANGED <<processing, failures, shuttingDown, runningJobs, pc, job, jobCtx, runErr,
                  allowRetries, cancelled, main, drainer, submission, runs, outcome, latePicks>>
  BY Zenon DEF QueueDelayOver, workerVars, shutdownVars, history
<1>2. j \in delayed /\ ~shuttingDown /\ delayed' = delayed \ {j}
  BY Zenon DEF QueueDelayOver
<1>3. /\ queue' \in Seq(Jobs) /\ Distinct(queue)' /\ dirty' \subseteq Jobs
      /\ Range(queue)' = dirty' \ processing'
      /\ dirty' = dirty \cup {j}
  BY Zenon, <1>1, <1>2, QueueAddFacts DEF QueueDelayOver
<1>4. dirty' \cup delayed' = dirty \cup delayed
  BY Zenon, <1>2, <1>3
<1>5. TypeOK'
  BY Zenon, <1>1, <1>2, <1>3 DEF Inv, TypeOK
<1>6. Holding'
  BY Zenon, <1>1 DEF Inv, Holding
<1>7. Queued'
  BY Zenon, <1>1, <1>2, <1>3, <1>4 DEF Inv, Queued
<1>8. Decided'
  BY Zenon, <1>1, <1>4 DEF Inv, Decided
<1>9. Retried'
  BY Zenon, <1>1 DEF Inv, Retried, RetriesBounded, Counted
<1>10. FailuresForgotten' /\ StatusNotStale' /\ Late' /\ Stopped'
  BY Zenon, <1>1 DEF Inv, FailuresForgotten, StatusNotStale, Late, Stopped
<1>11. QED
  BY Zenon, <1>5, <1>6, <1>7, <1>8, <1>9, <1>10 DEF Inv

-----------------------------------------------------------------------------
(* Workers *)

\* A worker that holds no job looks at the context or quits.
LEMMA IdleInv == ASSUME Inv, NEW w \in Workers, CheckContext(w) \/ GetQuit(w) PROVE Inv'
<1>1. UNCHANGED <<queue, dirty, processing, delayed, failures, shuttingDown, runningJobs, job,
                  jobCtx, runErr, allowRetries, cancelled, main, drainer, submission, runs,
                  outcome, latePicks>>
  BY Zenon DEF CheckContext, GetQuit, queueVars, shutdownVars, history
<1>2. PICK to \in {"exited", "get"} :
         pc[w] \in {"check", "get"} /\ pc' = [pc EXCEPT ![w] = to] /\ (to = "get" => ~cancelled)
  BY Zenon DEF CheckContext, GetQuit, Goto
<1>3. pc \in [Workers -> WorkerPC] /\ job \in [Workers -> Jobs \cup {NoJob}]
  BY Zenon DEF Inv, TypeOK
<1>4. pc' \in [Workers -> WorkerPC]
  BY Zenon, <1>2, <1>3 DEF WorkerPC
<1>5. TypeOK'
  BY Zenon, <1>1, <1>4 DEF Inv, TypeOK
<1>6. Holding'
  BY Zenon, <1>1, <1>2, <1>3 DEF Inv, Holding
<1>7. job[w] = NoJob
  BY Zenon, <1>2 DEF Inv, Holding
<1>8. Queued'
  BY <1>1, <1>2, <1>3, <1>7, ConfigAssumption DEF Inv, Queued, TypeOK
<1>9. Decided'
  BY Zenon, <1>1, <1>2, <1>3 DEF Inv, Decided
<1>10. Retried'
  BY Zenon, <1>1, <1>2, <1>3 DEF Inv, Retried, RetriesBounded, Counted
<1>11. StatusNotStale'
  BY Zenon, <1>1, <1>2, <1>3 DEF Inv, StatusNotStale
<1>12. FailuresForgotten' /\ Late' /\ Stopped'
  BY Zenon, <1>1, <1>2, <1>3 DEF Inv, FailuresForgotten, Late, Stopped
<1>13. QED
  BY Zenon, <1>5, <1>6, <1>8, <1>9, <1>10, <1>11, <1>12 DEF Inv

\* A worker takes the job at the head of the queue, which nobody else has.
LEMMA GetJobInv == ASSUME Inv, NEW w \in Workers, GetJob(w) PROVE Inv'
<1> DEFINE j == Head(queue)
<1>1. UNCHANGED <<delayed, failures, shuttingDown, runningJobs, jobCtx, runErr, allowRetries,
                  cancelled, main, drainer, submission, runs, outcome>>
  BY Zenon DEF GetJob, shutdownVars
<1>2. /\ pc[w] = "get" /\ pc' = [pc EXCEPT ![w] = "picked"] /\ job' = [job EXCEPT ![w] = j]
      /\ queue' = Tail(queue) /\ processing' = processing \cup {j} /\ dirty' = dirty \ {j}
      /\ latePicks' = [latePicks EXCEPT ![w] = IF cancelled THEN @ + 1 ELSE @]
  BY Zenon DEF GetJob, Goto
<1>3. /\ queue \in Seq(Jobs) /\ queue # <<>> /\ Distinct(queue)
      /\ Range(queue) = dirty \ processing
  BY Zenon DEF Inv, TypeOK, Queued, GetJob
<1>4. /\ j \in Jobs /\ j \in Range(queue) /\ Tail(queue) \in Seq(Jobs)
      /\ Range(Tail(queue)) = Range(queue) \ {j} /\ Distinct(Tail(queue))
  BY Zenon, <1>3, TailRange
<1> HIDE DEF j
<1>5. j \in dirty /\ j \notin processing
  BY Zenon, <1>3, <1>4
<1>6. /\ pc \in [Workers -> WorkerPC] /\ job \in [Workers -> Jobs \cup {NoJob}]
      /\ latePicks \in [Workers -> Nat]
  BY Zenon DEF Inv, TypeOK
<1>7. \A v \in Workers : job[v] # j
  BY Zenon, <1>4, <1>5 DEF Inv, Holding
<1>8. job[w] = NoJob /\ NoJob # j
  BY Zenon, <1>2, <1>4, ConfigAssumption DEF Inv, Holding
<1>9. outcome[j] = "pending" /\ submission[j] = "accepted"
  BY Zenon, <1>4, <1>5 DEF Inv, Queued, Decided
<1>10. latePicks[w] = 0
  BY Zenon, <1>2 DEF Inv, Late
<1>11. latePicks' = [latePicks EXCEPT ![w] = IF cancelled THEN 1 ELSE 0]
  BY <1>2, <1>6, <1>10
<1>12. TypeOK'
  <2>1. pc' \in [Workers -> WorkerPC] /\ job' \in [Workers -> Jobs \cup {NoJob}]
    BY Zenon, <1>2, <1>4, <1>6 DEF WorkerPC
  <2>2. latePicks' \in [Workers -> Nat]
    BY Zenon, <1>6, <1>11
  <2>3. queue' \in Seq(Jobs) /\ processing' \subseteq Jobs /\ dirty' \subseteq Jobs
    BY Zenon, <1>2, <1>4 DEF Inv, TypeOK
  <2>4. QED
    BY Zenon, <1>1, <2>1, <2>2, <2>3 DEF Inv, TypeOK
<1>13. Holding'
  <2>1. \A v \in Workers : job'[v] = NoJob <=> pc'[v] \in {"check", "get", "exited"}
    BY Zenon, <1>2, <1>6, <1>8 DEF Inv, Holding
  <2>2. \A i \in Jobs : i \in processing' <=> \E v \in Workers : job'[v] = i
    <3> SUFFICES ASSUME NEW i \in Jobs
                 PROVE  i \in processing' <=> \E v \in Workers : job'[v] = i
      OBVIOUS
    <3>1. CASE i = j
      BY Zenon, <3>1, <1>2, <1>6
    <3>2. CASE i # j
      <4>1. \A v \in Workers : job'[v] = i <=> job[v] = i
        BY Zenon, <3>2, <1>2, <1>6, <1>8, ConfigAssumption
      <4>2. QED
        BY Zenon, <3>2, <4>1, <1>2 DEF Inv, Holding
    <3>3. QED
      BY Zenon, <3>1, <3>2
  <2>3. \A u, v \in Workers : job'[u] = job'[v] /\ job'[u] # NoJob => u = v
    BY Zenon, <1>2, <1>6, <1>7 DEF Inv, Holding
  <2>4. QED
    BY Zenon, <2>1, <2>2, <2>3 DEF Holding
<1>14. Queued'
  <2>1. Range(queue)' = dirty' \ processing' /\ Distinct(queue)' /\ dirty' \cap delayed' = {}
    BY Zenon, <1>1, <1>2, <1>3, <1>4 DEF Inv, Queued
  <2>2. \A v \in Workers : job'[v] \in dirty' \cup delayed' => pc'[v] = "done"
    <3> SUFFICES ASSUME NEW v \in Workers, job'[v] \in dirty' \cup delayed'
                 PROVE  pc'[v] = "done"
      OBVIOUS
    <3>1. CASE v = w
      <4>1. j \notin delayed
        BY Zenon, <1>5 DEF Inv, Queued
      <4>2. QED
        BY Zenon, <3>1, <4>1, <1>1, <1>2, <1>6
    <3>2. CASE v # w
      BY Zenon, <3>2, <1>1, <1>2, <1>6 DEF Inv, Queued
    <3>3. QED
      BY Zenon, <3>1, <3>2
  <2>3. \A i \in Jobs : submission'[i] # "accepted" =>
           i \notin dirty' \cup delayed' \cup processing' /\ outcome'[i] = "pending"
    BY Zenon, <1>1, <1>2, <1>9 DEF Inv, Queued
  <2>4. QED
    BY Zenon, <2>1, <2>2, <2>3 DEF Queued
<1>15. Decided'
  <2>1. \A i \in Jobs : outcome'[i] # "pending" => i \notin dirty' \cup delayed'
    BY Zenon, <1>1, <1>2 DEF Inv, Decided
  <2>2. \A v \in Workers :
           /\ pc'[v] \in {"picked", "start", "running", "returned"} => outcome'[job'[v]] = "pending"
           /\ pc'[v] = "doneAndExit" => outcome'[job'[v]] # "pending"
           /\ pc'[v] = "done" /\ outcome'[job'[v]] = "pending" /\ ~shuttingDown' =>
                 job'[v] \in dirty' \cup delayed'
    <3> SUFFICES ASSUME NEW v \in Workers
                 PROVE
           /\ pc'[v] \in {"picked", "start", "running", "returned"} => outcome'[job'[v]] = "pending"
           /\ pc'[v] = "doneAndExit" => outcome'[job'[v]] # "pending"
           /\ pc'[v] = "done" /\ outcome'[job'[v]] = "pending" /\ ~shuttingDown' =>
                 job'[v] \in dirty' \cup delayed'
      OBVIOUS
    <3>1. CASE v = w
      BY Zenon, <3>1, <1>1, <1>2, <1>6, <1>9
    <3>2. CASE v # w
      BY Zenon, <3>2, <1>1, <1>2, <1>6, <1>7 DEF Inv, Decided
    <3>3. QED
      BY Zenon, <3>1, <3>2
  <2>3. \A i \in Jobs :
           submission'[i] = "accepted" /\ outcome'[i] = "pending" /\ ~shuttingDown' =>
              i \in dirty' \cup delayed' \cup processing'
    BY Zenon, <1>1, <1>2 DEF Inv, Decided
  <2>4. QED
    BY Zenon, <2>1, <2>2, <2>3 DEF Decided
<1>16. \A v \in Workers : pc[v] \in {"running", "returned"} =>
          job'[v] = job[v] /\ pc'[v] = pc[v]
  BY Zenon, <1>2, <1>6
<1>17. Retried'
  BY <1>1, <1>16 DEF Inv, Retried, RetriesBounded, Counted
<1>18. StatusNotStale'
  <2> SUFFICES ASSUME NEW id \in runningJobs
               PROVE  \E v \in Workers : pc'[v] = "running" /\ ID[job'[v]] = id
    BY Zenon, <1>1 DEF StatusNotStale
  <2>1. PICK v \in Workers : pc[v] = "running" /\ ID[job[v]] = id
    BY Zenon DEF Inv, StatusNotStale
  <2>2. job'[v] = job[v] /\ pc'[v] = pc[v]
    BY Zenon, <2>1, <1>16
  <2>3. QED
    BY Zenon, <2>1, <2>2
<1>19. Late'
  BY Zenon, <1>1, <1>2, <1>6, <1>11 DEF Inv, Late
<1>20. FailuresForgotten' /\ Stopped'
  BY Zenon, <1>1, <1>2 DEF Inv, FailuresForgotten, Stopped
<1>21. QED
  BY Zenon, <1>12, <1>13, <1>14, <1>15, <1>17, <1>18, <1>19, <1>20 DEF Inv

\* A worker starts to run its job: the runs before were counted as failures.
LEMMA StartRunInv == ASSUME Inv, NEW w \in Workers, StartRun(w) PROVE Inv'
<1>1. UNCHANGED <<queue, dirty, processing, delayed, failures, shuttingDown, job, runErr,
                  allowRetries, cancelled, main, drainer, submission, outcome, latePicks>>
  BY Zenon DEF StartRun, queueVars, shutdownVars
<1>2. /\ pc[w] = "start" /\ pc' = [pc EXCEPT ![w] = "running"]
      /\ jobCtx' = [jobCtx EXCEPT ![w] = IF cancelled THEN "canceled" ELSE "live"]
      /\ runningJobs' = runningJobs \cup {ID[job[w]]}
      /\ runs' = [runs EXCEPT ![job[w]] = @ + 1]
  BY Zenon DEF StartRun, Goto
<1>3. /\ pc \in [Workers -> WorkerPC] /\ job \in [Workers -> Jobs \cup {NoJob}]
      /\ runs \in [Jobs -> Nat] /\ failures \in [Jobs -> Nat] /\ allowRetries \in BOOLEAN
      /\ jobCtx \in [Workers -> {"none", "live", "deadline", "canceled"}]
  BY Zenon DEF Inv, TypeOK
<1>4. job[w] \in Jobs /\ outcome[job[w]] = "pending"
  BY <1>2, <1>3 DEF Inv, Holding, Decided
<1>5. ~\E v \in Workers : job[v] = job[w] /\ pc[v] \in {"running", "returned"}
  BY Zenon, <1>2, <1>4, ConfigAssumption DEF Inv, Holding
<1>6. runs[job[w]] <= Counted(job[w]) /\ failures[job[w]] <= MaxRetries
  BY Zenon, <1>4, <1>5 DEF Inv, Retried
<1>7. TypeOK'
  <2>1. pc' \in [Workers -> WorkerPC]
    BY Zenon, <1>2, <1>3 DEF WorkerPC
  <2>2. jobCtx' \in [Workers -> {"none", "live", "deadline", "canceled"}]
    BY Zenon, <1>2, <1>3
  <2>3. runs' \in [Jobs -> Nat]
    <3>1. runs[job[w]] + 1 \in Nat
      BY <1>3, <1>4
    <3>2. QED
      BY Zenon, <3>1, <1>2, <1>3
  <2>4. runningJobs' \subseteq IDs
    <3>1. ID[job[w]] \in IDs
      BY Zenon, <1>4, ConfigAssumption
    <3>2. runningJobs \subseteq IDs
      BY Zenon DEF Inv, TypeOK
    <3>3. QED
      BY Zenon, <3>1, <3>2, <1>2
  <2>5. QED
    BY Zenon, <1>1, <2>1, <2>2, <2>3, <2>4 DEF Inv, TypeOK
<1>8. Holding'
  BY Zenon, <1>1, <1>2, <1>3, <1>4, ConfigAssumption DEF Inv, Holding
<1>9. Queued'
  BY Zenon, <1>1, <1>2, <1>3 DEF Inv, Queued
<1>10. Decided'
  BY Zenon, <1>1, <1>2, <1>3 DEF Inv, Decided
<1>11. Retried'
  <2>1. \A j \in Jobs : Counted(j)' = Counted(j)
    BY Zenon, <1>1 DEF Counted
  <2>2. ASSUME NEW j \in Jobs, j # job[w]
        PROVE  /\ runs'[j] = runs[j]
               /\ \A v \in Workers : job[v] = j => pc'[v] = pc[v]
    BY Zenon, <2>2, <1>2, <1>3
  <2>3. runs'[job[w]] = runs[job[w]] + 1 /\ pc'[w] = "running"
    BY Zenon, <1>2, <1>3, <1>4
  <2>4. Counted(job[w]) \in Nat /\ runs[job[w]] \in Nat /\ MaxRetries \in Nat
    BY Zenon, <1>3, <1>4, ConfigAssumption DEF Counted
  <2>5. runs'[job[w]] <= Counted(job[w]) + 1
    BY <2>3, <2>4, <1>6
  <2>6. RetriesBounded'
    <3> SUFFICES ASSUME NEW j \in Jobs
                 PROVE  runs'[j] <= IF allowRetries THEN MaxRetries + 1 ELSE 1
      BY Zenon, <1>1 DEF RetriesBounded
    <3>1. CASE j = job[w]
      BY <3>1, <2>3, <2>4, <2>5, <1>3, <1>6 DEF Counted
    <3>2. CASE j # job[w]
      BY Zenon, <3>2, <2>2 DEF Inv, Retried, RetriesBounded
    <3>3. QED
      BY Zenon, <3>1, <3>2
  <2>7. ASSUME NEW j \in Jobs, outcome[j] = "pending"
        PROVE  /\ failures[j] <= MaxRetries
               /\ \/ runs'[j] <= Counted(j)
                  \/ /\ runs'[j] <= Counted(j) + 1
                     /\ \E v \in Workers : job[v] = j /\ pc'[v] \in {"running", "returned"}
    <3>1. CASE j = job[w]
      BY Zenon, <3>1, <2>3, <2>5, <1>6
    <3>2. CASE j # job[w]
      BY Zenon, <3>2, <2>2, <2>7 DEF Inv, Retried
    <3>3. QED
      BY Zenon, <3>1, <3>2
  <2>8. QED
    BY Zenon, <2>1, <2>6, <2>7, <1>1 DEF Retried
<1>12. StatusNotStale'
  BY Zenon, <1>1, <1>2, <1>3 DEF Inv, StatusNotStale
<1>13. FailuresForgotten' /\ Late' /\ Stopped'
  BY Zenon, <1>1, <1>2, <1>3 DEF Inv, FailuresForgotten, Late, Stopped
<1>14. QED
  BY Zenon, <1>7, <1>8, <1>9, <1>10, <1>11, <1>12, <1>13 DEF Inv

\* A worker that finds no other job of the ID running goes on, and one whose job returns
\* clears the status: other workers that run a job of that ID set another one's.
LEMMA ProceedInv ==
    ASSUME Inv, NEW w \in Workers, NEW from, NEW to,
           \/ from = "picked" /\ to = "start" /\ UNCHANGED <<runErr, runningJobs>>
           \/ /\ from = "running" /\ to = "returned" /\ runErr' \in [Workers -> BOOLEAN]
              /\ runningJobs' = runningJobs \ {ID[job[w]]},
           pc[w] = from, pc' = [pc EXCEPT ![w] = to],
           UNCHANGED <<queue, dirty, processing, delayed, failures, shuttingDown, job, jobCtx,
                       allowRetries, cancelled, main, drainer, submission, runs, outcome,
                       latePicks>>
    PROVE  Inv'
<1>1. /\ pc \in [Workers -> WorkerPC] /\ runningJobs \subseteq IDs
      /\ runErr \in [Workers -> BOOLEAN]
  BY Zenon DEF Inv, TypeOK
<1>2. TypeOK'
  <2>1. pc' \in [Workers -> WorkerPC]
    BY Zenon, <1>1 DEF WorkerPC
  <2>2. runErr' \in [Workers -> BOOLEAN] /\ runningJobs' \subseteq IDs
    BY Zenon, <1>1
  <2>3. QED
    BY Zenon, <2>1, <2>2 DEF Inv, TypeOK
<1>3. Holding'
  BY Zenon, <1>1 DEF Inv, Holding
<1>4. Queued'
  BY Zenon, <1>1 DEF Inv, Queued
<1>5. Decided'
  BY Zenon, <1>1 DEF Inv, Decided
<1>6. \A v \in Workers : pc[v] \in {"running", "returned"} => pc'[v] \in {"running", "returned"}
  BY Zenon, <1>1
<1>7. Retried'
  BY Zenon, <1>6 DEF Inv, Retried, RetriesBounded, Counted
<1>8. StatusNotStale'
  <2> SUFFICES ASSUME NEW id \in runningJobs'
               PROVE  \E v \in Workers : pc'[v] = "running" /\ ID[job[v]] = id
    BY Zenon DEF StatusNotStale
  <2>1. PICK v \in Workers : pc[v] = "running" /\ ID[job[v]] = id
    BY Zenon DEF Inv, StatusNotStale
  <2>2. v # w
    BY Zenon, <2>1
  <2>3. QED
    BY Zenon, <2>1, <2>2, <1>1
<1>9. FailuresForgotten' /\ Late' /\ Stopped'
  BY Zenon, <1>1 DEF Inv, FailuresForgotten, Late, Stopped
<1>10. QED
  BY Zenon, <1>2, <1>3, <1>4, <1>5, <1>7, <1>8, <1>9 DEF Inv

\* A worker is through with its job, which gets the outcome o and has n failures counted.
\* A job without an outcome is one that will be tried again: its run was counted and the
\* limiter has it.
LEMMA SettleInv ==
    ASSUME Inv, NEW w \in Workers, NEW n \in Nat, NEW o \in Outcomes,
           NEW to \in {"done", "doneAndExit"},
           pc[w] \in {"picked", "returned"}, pc' = [pc EXCEPT ![w] = to],
           failures' = [failures EXCEPT ![job[w]] = n],
           outcome' = [outcome EXCEPT ![job[w]] = o],
           o = "pending" => /\ to = "done" /\ n = failures[job[w]] + 1 /\ n <= MaxRetries
                            /\ delayed' = delayed \cup {job[w]}
                            /\ pc[w] = "returned" => allowRetries,
           o # "pending" => delayed' = delayed,
           n > 0 => o \in {"pending", "abandoned"} \cup (IF allowRetries THEN {} ELSE {"failed"}),
           jobCtx' \in [Workers -> {"none", "live", "deadline", "canceled"}],
           UNCHANGED <<queue, dirty, processing, shuttingDown, runningJobs, job, runErr,
                       allowRetries, cancelled, main, drainer, submission, runs, latePicks>>
    PROVE  Inv'
<1>1. /\ pc \in [Workers -> WorkerPC] /\ job \in [Workers -> Jobs \cup {NoJob}]
      /\ failures \in [Jobs -> Nat] /\ outcome \in [Jobs -> Outcomes] /\ runs \in [Jobs -> Nat]
      /\ dirty \subseteq Jobs /\ delayed \subseteq Jobs /\ allowRetries \in BOOLEAN
  BY Zenon DEF Inv, TypeOK
<1>0. PICK j \in Jobs : j = job[w]
  BY <1>1 DEF Inv, Holding
<1>2. /\ outcome[j] = "pending" /\ submission[j] = "accepted"
      /\ j \in processing /\ j \notin dirty \cup delayed
  BY Zenon, <1>0, <1>1 DEF Inv, Holding, Decided, Queued
<1>3. \A v \in Workers : v # w => job[v] # j
  BY Zenon, <1>0, ConfigAssumption DEF Inv, Holding
<1>4. /\ \A i \in Jobs : i # j => failures'[i] = failures[i] /\ outcome'[i] = outcome[i]
      /\ failures'[j] = n /\ outcome'[j] = o
  BY Zenon, <1>0, <1>1
<1>5. pc'[w] = to /\ \A v \in Workers : v # w => pc'[v] = pc[v]
  BY Zenon, <1>1
<1>6. delayed \subseteq delayed' /\ delayed' \subseteq delayed \cup {j}
  BY Zenon, <1>0
<1>7. TypeOK'
  <2>1. pc' \in [Workers -> WorkerPC]
    BY Zenon, <1>1 DEF WorkerPC
  <2>2. failures' \in [Jobs -> Nat] /\ outcome' \in [Jobs -> Outcomes]
    BY Zenon, <1>1
  <2>3. delayed' \subseteq Jobs
    BY Zenon, <1>1, <1>6
  <2>4. QED
    BY Zenon, <2>1, <2>2, <2>3 DEF Inv, TypeOK
<1>8. Holding'
  BY Zenon, <1>0, <1>5, ConfigAssumption DEF Inv, Holding
<1>9. Queued'
  <2>1. \A v \in Workers : job[v] \in dirty \cup delayed' => pc'[v] = "done"
    <3> SUFFICES ASSUME NEW v \in Workers, job[v] \in dirty \cup delayed'
                 PROVE  pc'[v] = "done"
      OBVIOUS
    <3>1. CASE v = w
      BY Zenon, <3>1, <1>2, <1>5, <1>0
    <3>2. CASE v # w
      BY <3>2, <1>3, <1>5, <1>6 DEF Inv, Queued
    <3>3. QED
      BY Zenon, <3>1, <3>2
  <2>2. \A i \in Jobs : submission[i] # "accepted" =>
           i \notin dirty \cup delayed' \cup processing /\ outcome'[i] = "pending"
    <3> SUFFICES ASSUME NEW i \in Jobs, submission[i] # "accepted"
                 PROVE  i \notin dirty \cup delayed' \cup processing /\ outcome'[i] = "pending"
      OBVIOUS
    <3>1. i \notin dirty \cup delayed \cup processing /\ outcome[i] = "pending"
      BY Zenon DEF Inv, Queued
    <3>2. QED
      BY Zenon, <3>1, <1>2, <1>4, <1>6
  <2>3. dirty \cap delayed' = {}
    BY Zenon, <1>2, <1>6 DEF Inv, Queued
  <2>4. QED
    BY Zenon, <2>1, <2>2, <2>3 DEF Inv, Queued
<1>10. Decided'
  <2>1. \A i \in Jobs : outcome'[i] # "pending" => i \notin dirty \cup delayed'
    <3> SUFFICES ASSUME NEW i \in Jobs, outcome'[i] # "pending"
                 PROVE  i \notin dirty \cup delayed'
      OBVIOUS
    <3>1. CASE i = j
      BY Zenon, <3>1, <1>2, <1>4
    <3>2. CASE i # j
      BY Zenon, <3>2, <1>4, <1>6 DEF Inv, Decided
    <3>3. QED
      BY Zenon, <3>1, <3>2
  <2>2. ASSUME NEW v \in Workers
        PROVE  /\ pc'[v] \in {"picked", "start", "running", "returned"} =>
                     outcome'[job[v]] = "pending"
               /\ pc'[v] = "doneAndExit" => outcome'[job[v]] # "pending"
               /\ pc'[v] = "done" /\ outcome'[job[v]] = "pending" /\ ~shuttingDown =>
                     job[v] \in dirty \cup delayed'
    <3>1. CASE v = w
      BY Zenon, <3>1, <1>4, <1>5, <1>0
    <3>2. CASE v # w /\ job[v] \in Jobs
      BY <3>2, <1>3, <1>4, <1>5, <1>6 DEF Inv, Decided
    <3>3. CASE v # w /\ job[v] \notin Jobs
      BY <3>3, <1>1, <1>5 DEF Inv, Holding
    <3>4. QED
      BY Zenon, <3>1, <3>2, <3>3
  <2>3. \A i \in Jobs : submission[i] = "accepted" /\ outcome'[i] = "pending" /\ ~shuttingDown =>
           i \in dirty \cup delayed' \cup processing
    BY Zenon, <1>2, <1>4, <1>6 DEF Inv, Decided
  <2>4. QED
    BY Zenon, <2>1, <2>2, <2>3 DEF Decided
<1>11. Retried'
  <2>1. RetriesBounded'
    BY Zenon DEF Inv, Retried, RetriesBounded
  <2>2. ASSUME NEW i \in Jobs, outcome'[i] = "pending"
        PROVE  /\ failures'[i] <= MaxRetries
               /\ \/ runs[i] <= Counted(i)'
                  \/ /\ runs[i] <= Counted(i)' + 1
                     /\ \E v \in Workers : job[v] = i /\ pc'[v] \in {"running", "returned"}
    <3>1. CASE i = j
      <4>1. o = "pending" /\ n = failures[j] + 1 /\ n <= MaxRetries
        BY Zenon, <3>1, <2>2, <1>4, <1>0
      <4>2. runs[j] <= Counted(j)'
        <5>1. /\ runs[j] <= Counted(j) + 1
              /\ ~allowRetries => runs[j] <= Counted(j)
          <6>1. CASE pc[w] = "returned"
            BY <6>1, <4>1, <1>1, <1>2 DEF Inv, Retried, Counted
          <6>2. CASE pc[w] = "picked"
            <7>1. ~\E v \in Workers : job[v] = j /\ pc[v] \in {"running", "returned"}
              BY Zenon, <6>2, <1>3
            <7>2. runs[j] <= Counted(j)
              BY Zenon, <7>1, <1>2 DEF Inv, Retried
            <7>3. QED
              BY <7>2, <1>1, <1>2 DEF Counted
          <6>3. QED
            BY Zenon, <6>1, <6>2
        <5>2. Counted(j)' = IF allowRetries THEN failures[j] + 1 ELSE 0
          BY Zenon, <4>1, <1>4 DEF Counted
        <5>3. QED
          BY Zenon, <5>1, <5>2, <1>1, <1>2 DEF Counted
      <4>3. QED
        BY Zenon, <3>1, <4>1, <4>2, <1>4
    <3>2. CASE i # j
      <4>1. Counted(i)' = Counted(i) /\ failures'[i] = failures[i] /\ outcome[i] = "pending"
        BY Zenon, <3>2, <2>2, <1>4 DEF Counted
      <4>2. \A v \in Workers : job[v] = i => pc'[v] = pc[v]
        BY Zenon, <3>2, <1>5, <1>0
      <4>3. QED
        BY <4>1, <4>2 DEF Inv, Retried
    <3>3. QED
      BY Zenon, <3>1, <3>2
  <2>3. QED
    BY Zenon, <2>1, <2>2 DEF Retried
<1>12. FailuresForgotten'
  <2> SUFFICES ASSUME NEW i \in Jobs, failures'[i] > 0
               PROVE  outcome'[i] \in {"pending", "abandoned"}
                                      \cup (IF allowRetries THEN {} ELSE {"failed"})
    BY Zenon DEF FailuresForgotten
  <2>1. CASE i = j
    BY Zenon, <2>1, <1>4
  <2>2. CASE i # j
    <3>1. failures[i] > 0 /\ outcome'[i] = outcome[i]
      BY Zenon, <2>2, <1>4
    <3>2. QED
      BY Zenon, <3>1 DEF Inv, FailuresForgotten
  <2>3. QED
    BY Zenon, <2>1, <2>2
<1>13. StatusNotStale'
  BY <1>5 DEF Inv, StatusNotStale
<1>14. Late' /\ Stopped'
  BY Zenon, <1>5 DEF Inv, Late, Stopped
<1>15. QED
  BY Zenon, <1>7, <1>8, <1>9, <1>10, <1>11, <1>12, <1>13, <1>14 DEF Inv

\* requeueJob gives the job to the limiter, or gives it up after MaxRetries failures.
LEMMA RequeueInv ==
    ASSUME Inv, NEW w \in Workers, requeueJob(job[w]),
           pc[w] \in {"picked", "returned"}, pc' = [pc EXCEPT ![w] = "done"],
           pc[w] = "returned" => allowRetries,
           jobCtx' \in [Workers -> {"none", "live", "deadline", "canceled"}],
           UNCHANGED <<queue, dirty, processing, shuttingDown, runningJobs, job, runErr,
                       allowRetries, cancelled, main, drainer, submission, runs, latePicks>>
    PROVE  Inv'
<1>1. /\ job[w] \in Jobs /\ outcome[job[w]] = "pending"
      /\ failures \in [Jobs -> Nat] /\ outcome \in [Jobs -> Outcomes]
  <2>1. /\ failures \in [Jobs -> Nat] /\ outcome \in [Jobs -> Outcomes]
        /\ job \in [Workers -> Jobs \cup {NoJob}]
    BY Zenon DEF Inv, TypeOK
  <2>2. job[w] # NoJob /\ outcome[job[w]] = "pending"
    BY Zenon DEF Inv, Holding, Decided
  <2>3. QED
    BY Zenon, <2>1, <2>2
<1>2. failures[job[w]] \in Nat /\ failures[job[w]] + 1 \in Nat /\ MaxRetries \in Nat
  BY <1>1, ConfigAssumption
<1>3. "pending" \in Outcomes /\ "abandoned" \in Outcomes /\ "gaveUp" \in Outcomes
  BY Zenon DEF Outcomes
<1>4. CASE failures[job[w]] < MaxRetries /\ shuttingDown
  <2>1. /\ failures' = [failures EXCEPT ![job[w]] = failures[job[w]] + 1]
        /\ outcome' = [outcome EXCEPT ![job[w]] = "abandoned"] /\ delayed' = delayed
    BY Zenon, <1>4 DEF requeueJob, QueueAddRateLimited
  <2>2. QED
    BY Zenon, <2>1, <1>2, <1>3, SettleInv
<1>5. CASE failures[job[w]] < MaxRetries /\ ~shuttingDown
  <2>1. /\ failures' = [failures EXCEPT ![job[w]] = failures[job[w]] + 1]
        /\ outcome' = [outcome EXCEPT ![job[w]] = "pending"]
        /\ delayed' = delayed \cup {job[w]}
    BY Zenon, <1>5, <1>1 DEF requeueJob, QueueAddRateLimited
  <2>2. failures[job[w]] + 1 <= MaxRetries
    BY <1>2, <1>5
  <2>3. QED
    BY Zenon, <2>1, <2>2, <1>2, <1>3, SettleInv
<1>6. CASE ~(failures[job[w]] < MaxRetries)
  <2>1. /\ failures' = [failures EXCEPT ![job[w]] = 0]
        /\ outcome' = [outcome EXCEPT ![job[w]] = "gaveUp"] /\ delayed' = delayed
    BY Zenon, <1>6 DEF requeueJob, QueueForget
  <2>2. 0 \in Nat /\ ~(0 > 0)
    OBVIOUS
  <2>3. QED
    BY Zenon, <2>1, <2>2, <1>3, SettleInv
<1>7. QED
  BY Zenon, <1>4, <1>5, <1>6

\* A worker looks whether a job of the ID is running.
LEMMA CheckRunningInv == ASSUME Inv, NEW w \in Workers, CheckRunning(w) PROVE Inv'
<1>1. UNCHANGED <<queue, dirty, processing, shuttingDown, runningJobs, job, jobCtx, runErr,
                  allowRetries, cancelled, main, drainer, submission, runs, latePicks>>
  BY Zenon DEF CheckRunning, shutdownVars
<1>2. jobCtx' \in [Workers -> {"none", "live", "deadline", "canceled"}]
  BY Zenon, <1>1 DEF Inv, TypeOK
<1>3. CASE ~AllowConcurrency /\ getJobStatus(job[w])
  <2>1. pc[w] = "picked" /\ pc' = [pc EXCEPT ![w] = "done"] /\ requeueJob(job[w])
    BY Zenon, <1>3 DEF CheckRunning, Goto
  <2>2. QED
    BY Zenon, <2>1, <1>1, <1>2, RequeueInv
<1>4. CASE ~(~AllowConcurrency /\ getJobStatus(job[w]))
  <2>1. /\ pc[w] = "picked" /\ pc' = [pc EXCEPT ![w] = "start"]
        /\ UNCHANGED <<failures, delayed, outcome>>
    BY Zenon, <1>4 DEF CheckRunning, Goto
  <2>2. QED
    BY Zenon, <2>1, <1>1, ProceedInv
<1>5. QED
  BY Zenon, <1>3, <1>4

\* The action of a job returns.
LEMMA RunReturnsInv == ASSUME Inv, NEW w \in Workers, RunReturns(w) PROVE Inv'
<1>1. UNCHANGED <<queue, dirty, processing, delayed, failures, shuttingDown, job, jobCtx,
                  allowRetries, cancelled, main, drainer, submission, runs, outcome, latePicks>>
  BY Zenon DEF RunReturns, queueVars, shutdownVars, history
<1>2. /\ pc[w] = "running" /\ pc' = [pc EXCEPT ![w] = "returned"]
      /\ runningJobs' = runningJobs \ {ID[job[w]]}
  BY Zenon DEF RunReturns, Goto
<1>3. runErr' \in [Workers -> BOOLEAN]
  BY Zenon DEF RunReturns, Inv, TypeOK
<1>4. QED
  BY Zenon, <1>1, <1>2, <1>3, ProceedInv

\* runJob judges the run: it succeeded, was cancelled or failed.
LEMMA JudgeRunInv == ASSUME Inv, NEW w \in Workers, JudgeRun(w) PROVE Inv'
<1>1. UNCHANGED <<queue, dirty, processing, shuttingDown, runningJobs, job, runErr,
                  allowRetries, cancelled, main, drainer, submission, runs, latePicks>>
  BY Zenon DEF JudgeRun, shutdownVars
<1>2. jobCtx' \in [Workers -> {"none", "live", "deadline", "canceled"}]
  BY Zenon DEF JudgeRun, Inv, TypeOK
<1>3. pc[w] = "returned"
  BY Zenon DEF JudgeRun, RunSucceeded, RunCancelled, RunFailed, Goto
<1>4. /\ job[w] \in Jobs /\ outcome[job[w]] = "pending" /\ failures \in [Jobs -> Nat]
      /\ allowRetries \in BOOLEAN
  <2>1. /\ failures \in [Jobs -> Nat] /\ allowRetries \in BOOLEAN
        /\ job \in [Workers -> Jobs \cup {NoJob}]
    BY Zenon DEF Inv, TypeOK
  <2>2. job[w] # NoJob /\ outcome[job[w]] = "pending"
    BY Zenon, <1>3 DEF Inv, Holding, Decided
  <2>3. QED
    BY Zenon, <2>1, <2>2
<1>5. /\ "succeeded" \in Outcomes /\ "abandoned" \in Outcomes /\ "failed" \in Outcomes
  BY Zenon DEF Outcomes
<1>6. failures[job[w]] \in Nat /\ failures = [failures EXCEPT ![job[w]] = failures[job[w]]]
  BY Zenon, <1>4
<1>7. CASE RunSucceeded(w)
  <2>1. /\ pc' = [pc EXCEPT ![w] = "done"] /\ failures' = [failures EXCEPT ![job[w]] = 0]
        /\ outcome' = [outcome EXCEPT ![job[w]] = "succeeded"] /\ delayed' = delayed
    BY Zenon, <1>7 DEF RunSucceeded, QueueForget, Goto
  <2>2. 0 \in Nat /\ ~(0 > 0)
    OBVIOUS
  <2>3. QED
    BY Zenon, <2>1, <2>2, <1>1, <1>2, <1>3, <1>5, SettleInv
<1>8. CASE RunCancelled(w)
  <2>1. /\ pc' = [pc EXCEPT ![w] = "doneAndExit"]
        /\ failures' = [failures EXCEPT ![job[w]] = failures[job[w]]]
        /\ outcome' = [outcome EXCEPT ![job[w]] = "abandoned"] /\ delayed' = delayed
    BY Zenon, <1>6, <1>8 DEF RunCancelled, Goto
  <2>2. QED
    BY Zenon, <2>1, <1>1, <1>2, <1>3, <1>5, <1>6, SettleInv
<1>9. CASE RunFailed(w) /\ allowRetries
  <2>1. pc' = [pc EXCEPT ![w] = "done"] /\ requeueJob(job[w])
    BY Zenon, <1>9 DEF RunFailed, Goto
  <2>2. QED
    BY Zenon, <2>1, <1>1, <1>2, <1>3, <1>9, RequeueInv
<1>10. CASE RunFailed(w) /\ ~allowRetries
  <2>1. /\ pc' = [pc EXCEPT ![w] = "done"]
        /\ failures' = [failures EXCEPT ![job[w]] = failures[job[w]]]
        /\ outcome' = [outcome EXCEPT ![job[w]] = "failed"] /\ delayed' = delayed
    BY Zenon, <1>6, <1>10 DEF RunFailed, Goto
  <2>2. QED
    BY Zenon, <2>1, <1>1, <1>2, <1>3, <1>5, <1>6, <1>10, SettleInv
<1>11. QED
  BY Zenon, <1>7, <1>8, <1>9, <1>10 DEF JudgeRun

\* Done puts a job that became dirty while it was processed back in the queue.
LEMMA DoneJobInv == ASSUME Inv, NEW w \in Workers, DoneJob(w) PROVE Inv'
<1>1. UNCHANGED <<dirty, delayed, failures, shuttingDown, runningJobs, jobCtx, runErr,
                  allowRetries, cancelled, main, drainer, submission, runs, outcome, latePicks>>
  BY Zenon DEF DoneJob, shutdownVars, history
<1>2. /\ pc \in [Workers -> WorkerPC] /\ job \in [Workers -> Jobs \cup {NoJob}]
      /\ queue \in Seq(Jobs) /\ processing \subseteq Jobs /\ dirty \subseteq Jobs
  BY Zenon DEF Inv, TypeOK
<1>3. PICK to \in {"check", "exited"} :
         /\ pc' = [pc EXCEPT ![w] = to]
         /\ \/ pc[w] = "done" /\ to = "check"
            \/ pc[w] = "doneAndExit" /\ to = "exited"
  BY Zenon DEF DoneJob, Goto
<1>4. PICK j \in Jobs : j = job[w]
  BY Zenon, <1>2, <1>3 DEF Inv, Holding
<1>5. /\ job' = [job EXCEPT ![w] = NoJob] /\ processing' = processing \ {j}
      /\ queue' = IF j \in dirty THEN Append(queue, j) ELSE queue
  BY Zenon, <1>4 DEF DoneJob, QueueDone
<1>6. j \in processing /\ \A v \in Workers : v # w => job[v] # j
  BY Zenon, <1>4, ConfigAssumption DEF Inv, Holding
<1>7. /\ pc'[w] = to /\ job'[w] = NoJob
      /\ \A v \in Workers : v # w => pc'[v] = pc[v] /\ job'[v] = job[v]
  BY Zenon, <1>2, <1>3, <1>5
<1>8. /\ queue' \in Seq(Jobs) /\ Distinct(queue') /\ Range(queue') = dirty \ processing'
  <2>1. j \notin Range(queue) /\ Distinct(queue) /\ Range(queue) = dirty \ processing
    BY Zenon, <1>6 DEF Inv, Queued
  <2>2. CASE j \in dirty
    <3>1. queue' = Append(queue, j)
      BY Zenon, <1>5, <2>2
    <3>2. Range(queue') = Range(queue) \cup {j} /\ Distinct(queue') /\ queue' \in Seq(Jobs)
      BY <3>1, <2>1, <1>2, AppendRange
    <3>3. QED
      BY Zenon, <3>2, <2>1, <2>2, <1>5
  <2>3. CASE j \notin dirty
    BY Zenon, <2>1, <2>3, <1>2, <1>5
  <2>4. QED
    BY Zenon, <2>2, <2>3
<1>9. TypeOK'
  <2>1. pc' \in [Workers -> WorkerPC] /\ job' \in [Workers -> Jobs \cup {NoJob}]
    BY Zenon, <1>2, <1>3, <1>5 DEF WorkerPC
  <2>2. processing' \subseteq Jobs
    BY Zenon, <1>2, <1>5
  <2>3. QED
    BY Zenon, <2>1, <2>2, <1>1, <1>8 DEF Inv, TypeOK
<1>10. Holding'
  <2>1. \A v \in Workers : job'[v] = NoJob <=> pc'[v] \in {"check", "get", "exited"}
    BY Zenon, <1>7 DEF Inv, Holding
  <2>2. \A i \in Jobs : i \in processing' <=> \E v \in Workers : job'[v] = i
    BY <1>4, <1>5, <1>6, <1>7, ConfigAssumption DEF Inv, Holding
  <2>3. \A u, v \in Workers : job'[u] = job'[v] /\ job'[u] # NoJob => u = v
    BY <1>7 DEF Inv, Holding
  <2>4. QED
    BY Zenon, <2>1, <2>2, <2>3 DEF Holding
<1>11. Queued'
  <2>1. \A v \in Workers : job'[v] \in dirty \cup delayed => pc'[v] = "done"
    <3>1. NoJob \notin dirty \cup delayed
      BY Zenon, ConfigAssumption DEF Inv, TypeOK
    <3>2. QED
      BY Zenon, <3>1, <1>7 DEF Inv, Queued
  <2>2. QED
    BY Zenon, <2>1, <1>1, <1>5, <1>8 DEF Inv, Queued
<1>12. Decided'
  <2>1. \A v \in Workers :
           /\ pc'[v] \in {"picked", "start", "running", "returned"} => outcome[job'[v]] = "pending"
           /\ pc'[v] = "doneAndExit" => outcome[job'[v]] # "pending"
           /\ pc'[v] = "done" /\ outcome[job'[v]] = "pending" /\ ~shuttingDown =>
                 job'[v] \in dirty \cup delayed
    BY Zenon, <1>7 DEF Inv, Decided
  <2>2. outcome[j] = "pending" /\ ~shuttingDown => j \in dirty \cup delayed
    BY Zenon, <1>3, <1>4 DEF Inv, Decided
  <2>3. QED
    BY Zenon, <2>1, <2>2, <1>1, <1>5 DEF Inv, Decided
<1>13. Retried'
  <2>1. pc[w] \notin {"running", "returned"}
    BY Zenon, <1>3
  <2>2. QED
    BY <2>1, <1>1, <1>7 DEF Inv, Retried, RetriesBounded, Counted
<1>14. StatusNotStale'
  BY <1>1, <1>3, <1>7 DEF Inv, StatusNotStale
<1>15. FailuresForgotten' /\ Late' /\ Stopped'
  BY Zenon, <1>1, <1>3, <1>7 DEF Inv, FailuresForgotten, Late, Stopped
<1>16. QED
  BY Zenon, <1>9, <1>10, <1>11, <1>12, <1>13, <1>14, <1>15 DEF Inv

-----------------------------------------------------------------------------

\* Every behaviour of the executor stays in the invariant.
THEOREM Invariance == Spec => []Inv
<1>1. ASSUME Inv, [Next]_vars PROVE Inv'
  <2>1. CASE \E j \in Jobs : AddJobCheck(j) \/ AddJob(j) \/ QueueDelayOver(j)
    BY Zenon, <1>1, <2>1, AddJobCheckInv, AddJobInv, DelayOverInv
  <2>2. ASSUME NEW w \in Workers, WorkerStep(w) PROVE Inv'
    <3>1. CASE CheckContext(w) \/ GetQuit(w)
      BY Zenon, <1>1, <3>1, IdleInv
    <3>2. CASE GetJob(w)
      BY Zenon, <1>1, <3>2, GetJobInv
    <3>3. CASE CheckRunning(w)
      BY Zenon, <1>1, <3>3, CheckRunningInv
    <3>4. CASE StartRun(w)
      BY Zenon, <1>1, <3>4, StartRunInv
    <3>5. CASE JudgeRun(w)
      BY Zenon, <1>1, <3>5, JudgeRunInv
    <3>6. CASE DoneJob(w)
      BY Zenon, <1>1, <3>6, DoneJobInv
    <3>7. QED
      BY Zenon, <2>2, <3>1, <3>2, <3>3, <3>4, <3>5, <3>6 DEF WorkerStep
  <2>3. CASE \E w \in Workers : RunReturns(w)
    BY Zenon, <1>1, <2>3, RunReturnsInv
  <2>4. CASE Cancel \/ \E w \in Workers : DeadlinePasses(w)
    BY Zenon, <1>1, <2>4, ContextInv
  <2>5. CASE ShutdownStep
    BY Zenon, <1>1, <2>5, ShutdownInv
  <2>6. CASE UNCHANGED vars
    <3>1. UNCHANGED <<queue, dirty, processing, delayed, failures, shuttingDown, runningJobs,
                      pc, job, jobCtx, runErr, allowRetries, cancelled, main, drainer,
                      submission, runs, outcome, latePicks>>
      BY Zenon, <2>6 DEF vars, queueVars, workerVars, shutdownVars, history
    <3>2. TypeOK' /\ Stopped'
      BY Zenon, <1>1, <3>1 DEF Inv, TypeOK, Stopped
    <3>3. QED
      BY Zenon, <1>1, <3>1, <3>2, FrameInv
  <2>7. QED
    BY Zenon, <1>1, <2>1, <2>2, <2>3, <2>4, <2>5, <2>6 DEF Next, Terminated
<1>2. QED
  BY <1>1, InitInv, PTL DEF Spec

\* The state of the executor and its queue keeps its types.
THEOREM TypeCorrect == Spec => []TypeOK
<1>1. Inv => TypeOK
  BY Zenon DEF Inv
<1>2. QED
  BY <1>1, Invariance, PTL

\* No accepted job is lost before the shutdown, and none is left in the queue
\* with an outcome: AddJob, the retries and Done pass every job on.
THEOREM NoJobLost == Spec => []JobsAccountedFor
<1>1. Inv => JobsAccountedFor
  <2> SUFFICES ASSUME Inv, NEW j \in Jobs
               PROVE  /\ submission[j] = "accepted" /\ outcome[j] = "pending" /\ ~shuttingDown =>
                            j \in Range(queue) \cup delayed \/ Held(j)
                      /\ outcome[j] # "pending" => j \notin Range(queue) \cup delayed \cup dirty
    BY Zenon DEF JobsAccountedFor
  <2>1. Range(queue) = dirty \ processing /\ (j \in processing <=> Held(j))
    BY Zenon DEF Inv, Queued, Holding, Held
  <2>2. QED
    BY Zenon, <2>1 DEF Inv, Decided
<1>2. QED
  BY <1>1, Invariance, PTL

\* runJob runs a job at most MaxRetries + 1 times, once without retries.
THEOREM RunsAreBounded == Spec => []RetriesBounded
<1>1. Inv => RetriesBounded
  BY Zenon DEF Inv, Retried
<1>2. QED
  BY <1>1, Invariance, PTL

\* setJobFinished leaves no status behind that would put later jobs aside.
THEOREM StatusFollowsRuns == Spec => []StatusNotStale
<1>1. Inv => StatusNotStale
  BY Zenon DEF Inv
<1>2. QED
  BY <1>1, Invariance, PTL

\* The rate limiter forgets every job that succeeded or was given up.
THEOREM LimiterForgets == Spec => []FailuresForgotten
<1>1. Inv => FailuresForgotten
  BY Zenon DEF Inv
<1>2. QED
  BY <1>1, Invariance, PTL

\* A worker of RunJobs takes at most one job after the cancellation.
THEOREM BacklogLeft == Spec => []OneLatePick
<1>1. Inv => OneLatePick
  BY DEF Inv, Late, OneLatePick
<1>2. QED
  BY <1>1, Invariance, PTL

\* RunJobs reports a successful shutdown only when nothing runs any more.
THEOREM SuccessIsStopped == Spec => []SuccessMeansStopped
<1>1. Inv => SuccessMeansStopped
  <2> SUFFICES ASSUME Inv, main = "successful"
               PROVE  /\ \A w \in Workers : pc[w] = "exited"
                      /\ processing = {} /\ runningJobs = {}
    BY Zenon DEF SuccessMeansStopped
  <2>1. \A w \in Workers : pc[w] = "exited" /\ job[w] = NoJob
    BY Zenon DEF Inv, Stopped, Holding
  <2>2. processing = {}
    <3>1. processing \subseteq Jobs
      BY Zenon DEF Inv, TypeOK
    <3>2. QED
      BY <2>1, <3>1, ConfigAssumption DEF Inv, Holding
  <2>3. runningJobs = {}
    BY Zenon, <2>1 DEF Inv, StatusNotStale
  <2>4. QED
    BY Zenon, <2>1, <2>2, <2>3
<1>2. QED
  BY <1>1, Invariance, PTL
=============================================================================
