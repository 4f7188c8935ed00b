------------------------------ MODULE Executor ------------------------------
(***************************************************************************)
(* The action executor, pkg/executor/executor.go: a rate-limited queue of  *)
(* jobs, a fixed number of workers that run them, and an orderly shutdown  *)
(* when the context is cancelled.                                          *)
(*                                                                         *)
(* A job is an element of Jobs: the event handler makes a new Job for each *)
(* event and adds it once.  Jobs made for the same action share an ID, and *)
(* runningJobs is keyed by it.                                             *)
(*                                                                         *)
(* The queue is client-go's typed rate limiting queue, which is not part   *)
(* of this repository: its operations are modelled from how the executor   *)
(* uses them, each as one step.  It has the structure of the queue of      *)
(* module WorkQueue, which is where blocking and wake-ups are studied;     *)
(* here Get is simply not enabled while it would block.                    *)
(***************************************************************************)
EXTENDS Integers, Sequences, FiniteSets, Functions

CONSTANTS
    Jobs,              \* the jobs the event handlers make
    IDs,               \* what Job.ID() returns
    ID,                \* the ID of each job
    Workers,           \* the worker goroutines
    MaxQueueSize,      \* Config.QueueSize
    MaxRetries,        \* Config.MaxJobRetries
    AllowConcurrency,  \* what Job.AllowConcurrency() returns
    NoJob              \* the job of a worker that holds none

ASSUME ConfigAssumption ==
    /\ MaxQueueSize \in Nat \ {0}
    /\ MaxRetries \in Nat
    /\ AllowConcurrency \in BOOLEAN
    /\ ID \in [Jobs -> IDs]
    /\ NoJob \notin Jobs

VARIABLES
    queue, dirty, processing,  \* client-go queue: ready, to do, in the workers' hands
    delayed,                   \* jobs waiting for their rate limiter's delay
    failures,                  \* the rate limiter's count per job
    shuttingDown,              \* the queue is shut down
    runningJobs,               \* IDs with an entry in e.runningJobs
    allowRetries,              \* Config.RetryJobAfterFailure
    cancelled,                 \* ctx is done
    pc, job,                   \* of each worker: position, job in its hands
    jobCtx,                    \* of each worker: timeoutCtx.Err() of the current run
    runErr,                    \* of each worker: the current run returned an error
    main,                      \* position of RunJobs
    drainer,                   \* position of the goroutine that calls ShutDownWithDrain
    submission,                \* of each job: how far AddJob got
    runs, outcome, latePicks   \* history: runs and fate of each job, jobs each worker
                               \* took from the queue after the cancellation

queueVars == <<queue, dirty, processing, delayed, failures, shuttingDown>>
workerVars == <<pc, job, jobCtx, runErr>>
shutdownVars == <<allowRetries, cancelled, main, drainer>>
history == <<runs, outcome, latePicks>>
vars == <<queueVars, runningJobs, workerVars, shutdownVars, submission, history>>

Init ==
    /\ queue = <<>> /\ dirty = {} /\ processing = {} /\ delayed = {}
    /\ failures = [j \in Jobs |-> 0]
    /\ shuttingDown = FALSE
    /\ runningJobs = {}
    /\ allowRetries \in BOOLEAN
    /\ cancelled = FALSE
    /\ pc = [w \in Workers |-> "check"]
    /\ job = [w \in Workers |-> NoJob]
    /\ jobCtx = [w \in Workers |-> "none"]
    /\ runErr = [w \in Workers |-> FALSE]
    /\ main = "serving"
    /\ drainer = "none"
    /\ submission = [j \in Jobs |-> "new"]
    /\ runs = [j \in Jobs |-> 0]
    /\ outcome = [j \in Jobs |-> "pending"]
    /\ latePicks = [w \in Workers |-> 0]

Goto(w, from, to) ==
    /\ pc[w] = from
    /\ pc' = [pc EXCEPT ![w] = to]

-----------------------------------------------------------------------------
(* The client-go queue, as the executor uses it *)

\* Add: ignored when shutting down or dirty; not queued while being processed.
QueueAdd(j) ==
    IF shuttingDown \/ j \in dirty
    THEN UNCHANGED <<queue, dirty>>
    ELSE /\ dirty' = dirty \cup {j}
         /\ queue' = IF j \in processing THEN queue ELSE Append(queue, j)

\* AddRateLimited: the limiter counts the failure and names a delay; a queue
\* that is shutting down ignores the job.
QueueAddRateLimited(j) ==
    /\ failures' = [failures EXCEPT ![j] = @ + 1]
    /\ delayed' = IF shuttingDown THEN delayed ELSE delayed \cup {j}

QueueForget(j) ==
    /\ failures' = [failures EXCEPT ![j] = 0]
    /\ UNCHANGED delayed

\* The delay of j is over.  The loop that adds delayed jobs ends with the queue.
QueueDelayOver(j) ==
    /\ j \in delayed /\ ~shuttingDown
    /\ delayed' = delayed \ {j}
    /\ QueueAdd(j)
    /\ UNCHANGED <<processing, failures, shuttingDown, runningJobs, workerVars,
                   shutdownVars, submission, history>>

QueueDone(j) ==
    /\ processing' = processing \ {j}
    /\ queue' = IF j \in dirty THEN Append(queue, j) ELSE queue

-----------------------------------------------------------------------------
(* AddJob: the length is read and the job added in two separate steps *)

AddJobCheck(j) ==
    /\ submission[j] = "new"
    /\ submission' = [submission EXCEPT
                         ![j] = IF Len(queue) >= MaxQueueSize THEN "rejected" ELSE "checked"]
    /\ UNCHANGED <<queueVars, runningJobs, workerVars, shutdownVars, history>>

AddJob(j) ==
    /\ submission[j] = "checked"
    /\ submission' = [submission EXCEPT ![j] = "accepted"]
    /\ QueueAdd(j)
    /\ UNCHANGED <<processing, delayed, failures, shuttingDown, runningJobs, workerVars,
                   shutdownVars, history>>

-----------------------------------------------------------------------------
(* runJob *)

CheckContext(w) ==
    /\ Goto(w, "check", IF cancelled THEN "exited" ELSE "get")
    /\ UNCHANGED <<queueVars, runningJobs, job, jobCtx, runErr, shutdownVars, submission,
                   history>>

GetJob(w) ==
    /\ queue # <<>>
    /\ Goto(w, "get", "picked")
    /\ LET j == Head(queue)
       IN  /\ job' = [job EXCEPT ![w] = j]
           /\ queue' = Tail(queue)
           /\ processing' = processing \cup {j}
           /\ dirty' = dirty \ {j}
    /\ latePicks' = [latePicks EXCEPT ![w] = IF cancelled THEN @ + 1 ELSE @]
    /\ UNCHANGED <<delayed, failures, shuttingDown, runningJobs, jobCtx, runErr, shutdownVars,
                   submission, runs, outcome>>

GetQuit(w) ==
    /\ queue = <<>> /\ shuttingDown
    /\ Goto(w, "get", "exited")
    /\ UNCHANGED <<queueVars, runningJobs, job, jobCtx, runErr, shutdownVars, submission,
                   history>>

\* Mutant of requeueJob: a job that may be retried is only counted.
requeueJob_NotAdded(j) ==
    IF failures[j] < MaxRetries
    THEN /\ failures' = [failures EXCEPT ![j] = @ + 1]
         /\ UNCHANGED <<delayed, outcome>>
    ELSE /\ QueueForget(j)
         /\ outcome' = [outcome EXCEPT ![j] = "gaveUp"]

requeueJob(j) ==
    IF failures[j] < MaxRetries
    THEN /\ QueueAddRateLimited(j)
         /\ outcome' = [outcome EXCEPT ![j] = IF shuttingDown THEN "abandoned" ELSE @]
    ELSE /\ QueueForget(j)
         /\ outcome' = [outcome EXCEPT ![j] = "gaveUp"]

getJobStatus(j) == ID[j] \in runningJobs

\* The job is put aside when one with its ID is running.
CheckRunning(w) ==
    LET j == job[w]
        conflict == ~AllowConcurrency /\ getJobStatus(j)
    IN  /\ Goto(w, "picked", IF conflict THEN "done" ELSE "start")
        /\ IF conflict THEN requeueJob(j) ELSE UNCHANGED <<failures, delayed, outcome>>
        /\ UNCHANGED <<queue, dirty, processing, shuttingDown, runningJobs, job, jobCtx,
                       runErr, shutdownVars, submission, runs, latePicks>>

\* context.WithDeadline, setJobRunning and the call of Run
StartRun(w) ==
    /\ Goto(w, "start", "running")
    /\ jobCtx' = [jobCtx EXCEPT ![w] = IF cancelled THEN "canceled" ELSE "live"]
    /\ runningJobs' = runningJobs \cup {ID[job[w]]}
    /\ runs' = [runs EXCEPT ![job[w]] = @ + 1]
    /\ UNCHANGED <<queueVars, job, runErr, shutdownVars, submission, outcome, latePicks>>

\* The job's deadline passes, while it runs or just after it returned.
DeadlinePasses(w) ==
    /\ pc[w] \in {"running", "returned"}
    /\ jobCtx[w] = "live"
    /\ jobCtx' = [jobCtx EXCEPT ![w] = "deadline"]
    /\ UNCHANGED <<queueVars, runningJobs, pc, job, runErr, shutdownVars, submission, history>>

\* Mutant of RunReturns: the status is cleared only when the run succeeded.
RunReturns_LeavesStatus(w) ==
    /\ Goto(w, "running", "returned")
    /\ \E err \in BOOLEAN :
          /\ runErr' = [runErr EXCEPT ![w] = err]
          /\ runningJobs' = IF err THEN runningJobs ELSE runningJobs \ {ID[job[w]]}
    /\ UNCHANGED <<queueVars, job, jobCtx, shutdownVars, submission, history>>

\* Run returns, with or without an error, and setJobFinished clears the status.
RunReturns(w) ==
    /\ Goto(w, "running", "returned")
    /\ \E err \in BOOLEAN : runErr' = [runErr EXCEPT ![w] = err]
    /\ runningJobs' = runningJobs \ {ID[job[w]]}
    /\ UNCHANGED <<queueVars, job, jobCtx, shutdownVars, submission, history>>

\* What runJob does with a run that returned (lines 196 to 215)
RunSucceeded(w) ==
    /\ ~runErr[w] /\ jobCtx[w] = "live"
    /\ Goto(w, "returned", "done")
    /\ QueueForget(job[w])
    /\ outcome' = [outcome EXCEPT ![job[w]] = "succeeded"]

RunCancelled(w) ==
    /\ jobCtx[w] = "canceled"
    /\ Goto(w, "returned", "doneAndExit")
    /\ outcome' = [outcome EXCEPT ![job[w]] = "abandoned"]
    /\ UNCHANGED <<failures, delayed>>

\* Mutant of RunFailed: the job is retried although retries are disabled.
RunFailed_AlwaysRetries(w) ==
    /\ jobCtx[w] = "deadline" \/ (runErr[w] /\ jobCtx[w] = "live")
    /\ Goto(w, "returned", "done")
    /\ requeueJob(job[w])

RunFailed(w) ==
    /\ jobCtx[w] = "deadline" \/ (runErr[w] /\ jobCtx[w] = "live")
    /\ Goto(w, "returned", "done")
    /\ IF allowRetries
       THEN requeueJob(job[w])
       ELSE /\ outcome' = [outcome EXCEPT ![job[w]] = "failed"]
            /\ UNCHANGED <<failures, delayed>>

JudgeRun(w) ==
    /\ RunSucceeded(w) \/ RunCancelled(w) \/ RunFailed(w)
    /\ jobCtx' = [jobCtx EXCEPT ![w] = "none"]
    /\ UNCHANGED <<queue, dirty, processing, shuttingDown, runningJobs, job, runErr,
                   shutdownVars, submission, runs, latePicks>>

\* The deferred queue.Done, and back to the loop of RunJobs
DoneJob(w) ==
    /\ \/ Goto(w, "done", "check")
       \/ Goto(w, "doneAndExit", "exited")
    /\ QueueDone(job[w])
    /\ job' = [job EXCEPT ![w] = NoJob]
    /\ UNCHANGED <<dirty, delayed, failures, shuttingDown, runningJobs, jobCtx, runErr,
                   shutdownVars, submission, history>>

-----------------------------------------------------------------------------
(* RunJobs *)

\* ctx is cancelled, and with it the contexts of the jobs that are running.
Cancel ==
    /\ ~cancelled
    /\ cancelled' = TRUE
    /\ jobCtx' = [w \in Workers |-> IF jobCtx[w] = "live" THEN "canceled" ELSE jobCtx[w]]
    /\ UNCHANGED <<queueVars, runningJobs, pc, job, runErr,
                   allowRetries, main, drainer, submission, history>>

BeginShutdown ==
    /\ main = "serving" /\ cancelled
    /\ main' = "stopping"
    /\ drainer' = "start"
    /\ UNCHANGED <<queueVars, runningJobs, workerVars,
                   allowRetries, cancelled, submission, history>>

\* Mutant of DrainBegins: the queue is not shut down.
DrainBegins_QueueStaysOpen ==
    /\ drainer = "start"
    /\ drainer' = "draining"
    /\ UNCHANGED <<queueVars, runningJobs, workerVars,
                   allowRetries, cancelled, main, submission, history>>

DrainBegins ==
    /\ drainer = "start"
    /\ drainer' = "draining"
    /\ shuttingDown' = TRUE
    /\ UNCHANGED <<queue, dirty, processing, delayed, failures, runningJobs, workerVars,
                   allowRetries, cancelled, main, submission, history>>

DrainEnds ==
    /\ drainer = "draining"
    /\ processing = {}
    /\ drainer' = "returned"
    /\ UNCHANGED <<queueVars, runningJobs, workerVars,
                   allowRetries, cancelled, main, submission, history>>

\* e.wg: the workers and the drainer
WaitGroupDone == drainer = "returned" /\ \A w \in Workers : pc[w] = "exited"

ShutdownSuccessful ==
    /\ main = "stopping"
    /\ WaitGroupDone
    /\ main' = "successful"
    /\ UNCHANGED <<queueVars, runningJobs, workerVars,
                   allowRetries, cancelled, drainer, submission, history>>

\* Mutant of ShutdownTimesOut: RunJobs waits for the workers without a limit.
ShutdownTimesOut_Never ==
    /\ main = "stopping" /\ WaitGroupDone
    /\ main' = "timedOut"
    /\ UNCHANGED <<queueVars, runningJobs, workerVars,
                   allowRetries, cancelled, drainer, submission, history>>

ShutdownTimesOut ==
    /\ main = "stopping"
    /\ main' = "timedOut"
    /\ UNCHANGED <<queueVars, runningJobs, workerVars,
                   allowRetries, cancelled, drainer, submission, history>>

Terminated ==
    /\ main \in {"successful", "timedOut"}
    /\ WaitGroupDone
    /\ UNCHANGED vars

WorkerStep(w) ==
    \/ CheckContext(w) \/ GetJob(w) \/ GetQuit(w) \/ CheckRunning(w)
    \/ StartRun(w) \/ JudgeRun(w) \/ DoneJob(w)

ShutdownStep == BeginShutdown \/ DrainBegins \/ DrainEnds \/ ShutdownSuccessful \/ ShutdownTimesOut

Next ==
    \/ \E j \in Jobs : AddJobCheck(j) \/ AddJob(j) \/ QueueDelayOver(j)
    \/ \E w \in Workers : WorkerStep(w) \/ DeadlinePasses(w) \/ RunReturns(w)
    \/ Cancel
    \/ ShutdownStep
    \/ Terminated

Spec == Init /\ [][Next]_vars

\* Runnable goroutines run, delays and timeouts elapse.  Nobody has to cancel
\* the context or to add a job, and a job need not return.
RuntimeFairness ==
    /\ \A w \in Workers : WF_vars(WorkerStep(w))
    /\ \A j \in Jobs : WF_vars(QueueDelayOver(j))
    /\ WF_vars(ShutdownStep)

\* Jobs honour the context they are given: Run returns in the end.
JobsReturn == \A w \in Workers : WF_vars(RunReturns(w))

\* A job may hang; everything else is scheduled.
HangingSpec == Spec /\ RuntimeFairness

-----------------------------------------------------------------------------
(* Properties *)

WorkerPC == {"check", "get", "picked", "start", "running", "returned", "done",
             "doneAndExit", "exited"}
Outcomes == {"pending", "succeeded", "failed", "gaveUp", "abandoned"}

\* The types of the executor's and its queue's state.
TypeOK ==
    /\ queue \in Seq(Jobs)
    /\ dirty \subseteq Jobs /\ processing \subseteq Jobs /\ delayed \subseteq Jobs
    /\ failures \in [Jobs -> Nat]
    /\ shuttingDown \in BOOLEAN
    /\ runningJobs \subseteq IDs
    /\ allowRetries \in BOOLEAN /\ cancelled \in BOOLEAN
    /\ pc \in [Workers -> WorkerPC]
    /\ job \in [Workers -> Jobs \cup {NoJob}]
    /\ jobCtx \in [Workers -> {"none", "live", "deadline", "canceled"}]
    /\ runErr \in [Workers -> BOOLEAN]
    /\ main \in {"serving", "stopping", "successful", "timedOut"}
    /\ drainer \in {"none", "start", "draining", "returned"}
    /\ submission \in [Jobs -> {"new", "checked", "accepted", "rejected"}]
    /\ runs \in [Jobs -> Nat]
    /\ outcome \in [Jobs -> Outcomes]
    /\ latePicks \in [Workers -> Nat]

Held(j) == \E w \in Workers : job[w] = j

\* Until the queue is shut down, an accepted job is somewhere until it has its
\* outcome, and a job that has its outcome is nowhere it could be run from.
JobsAccountedFor ==
    \A j \in Jobs :
        /\ submission[j] = "accepted" /\ outcome[j] = "pending" /\ ~shuttingDown =>
              j \in Range(queue) \cup delayed \/ Held(j)
        /\ outcome[j] # "pending" => j \notin Range(queue) \cup delayed \cup dirty

\* A job is run at most MaxRetries times after its first run, and only once
\* when retries are disabled, although requeueJob also serves jobs that were
\* put aside without being run.
RetriesBounded ==
    \A j \in Jobs : runs[j] <= IF allowRetries THEN MaxRetries + 1 ELSE 1

\* An entry of runningJobs does not outlive its job: a job is put aside only
\* while one with its ID is really running.
StatusNotStale ==
    \A id \in runningJobs : \E w \in Workers : pc[w] = "running" /\ ID[job[w]] = id

\* After the cancellation a worker takes at most one more job from the queue,
\* the one it was waiting for in Get: a backlog does not hold up the shutdown.
OneLatePick == \A w \in Workers : latePicks[w] <= 1

\* "shutdown successful" is logged only when every worker has exited and no job
\* is running or in anyone's hands.
SuccessMeansStopped ==
    main = "successful" => /\ \A w \in Workers : pc[w] = "exited"
                           /\ processing = {} /\ runningJobs = {}

\* The rate limiter does not track a job that succeeded or was given up, however
\* often it was put aside or retried before.  ("Remember to call Forget!"  A run
\* that fails while retries are disabled is the one end that skips it.)
FailuresForgotten ==
    \A j \in Jobs : failures[j] > 0 =>
        outcome[j] \in {"pending", "abandoned"} \cup (IF allowRetries THEN {} ELSE {"failed"})

\* When jobs return, every accepted job gets its outcome or the executor is
\* cancelled: neither retries nor conflicts with jobs of the same ID go on for
\* ever.
JobsDecided ==
    JobsReturn =>
        \A j \in Jobs : (submission[j] = "accepted") ~> (outcome[j] # "pending" \/ cancelled)

\* When jobs return, all workers exit after a cancellation.
WorkersExit == JobsReturn => (cancelled ~> \A w \in Workers : pc[w] = "exited")

\* RunJobs returns after a cancellation, even when a job never returns.
ShutdownEnds == cancelled ~> main \in {"successful", "timedOut"}

\* What the comment in runJob says of a job that does not allow concurrent
\* runs: it is not run while "it is already running".
NoConcurrentRuns ==
    \A v, w \in Workers :
        /\ pc[v] = "running" /\ pc[w] = "running"
        /\ ID[job[v]] = ID[job[w]]
        => v = w
=============================================================================
