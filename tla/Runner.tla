------------------------------- MODULE Runner -------------------------------
(***************************************************************************)
(* The life of kube-trigger processes, pkg/cmd/cmd.go: runCli, the Runner  *)
(* and its leader election, and how run begins and ends.  What run sets up *)
(* is module Sources, what RunJobs does is module Executor.                *)
(*                                                                         *)
(* Leader election is client-go's.  A leader renews its lease, gives up    *)
(* RenewDeadline after the last renewal that worked, and a candidate takes *)
(* over LeaseDuration after the last renewal it saw.  The lease is named   *)
(* after the version of the program.                                       *)
(***************************************************************************)
EXTENDS Integers

CONSTANTS
    Replicas,        \* the processes; each is started again after it ended
    Versions,        \* versions of the program
    Version,         \* the version each replica runs
    LeaseDuration, RenewDeadline,  \* in ticks
    Nobody,          \* the holder of a lease that was never taken
    Gone,            \* the holder of a lease whose process has ended
    MaxFaults        \* bound of the model: outages of the API server and signals

ASSUME RunnerAssumption ==
    /\ Version \in [Replicas -> Versions]
    /\ RenewDeadline \in Nat \ {0} /\ LeaseDuration \in Nat /\ RenewDeadline < LeaseDuration
    /\ Nobody \notin Replicas /\ Gone \notin Replicas
    /\ MaxFaults \in Nat

VARIABLES
    elect,        \* the flag leader-elect
    option,       \* the executor's flags: good, a zero that executor.New refuses, a
                  \* negative number of workers, or a value nobody looks at
    proc,         \* of each replica: whether the process runs
    elector,      \* of each replica: state of its leader elector
    main,         \* of each replica: how far run got
    busy,         \* of each replica: an action is being run
    holder, age,  \* of each version's lease: its holder, ticks since it was renewed
    api, faults   \* whether the API server answers; faults that happened

Options == {"good", "zero", "negativeWorkers", "unchecked"}

procVars == <<proc, elector, main, busy>>
leaseVars == <<holder, age>>
vars == <<elect, option, procVars, leaseVars, api, faults>>

Init ==
    /\ elect \in BOOLEAN
    /\ option \in Options
    /\ proc = [r \in Replicas |-> "down"]
    /\ elector = [r \in Replicas |-> "none"]
    /\ main = [r \in Replicas |-> "none"]
    /\ busy = [r \in Replicas |-> FALSE]
    /\ holder = [v \in Versions |-> Nobody]
    /\ age = [v \in Versions |-> 0]
    /\ api = TRUE /\ faults = 0

\* The defaults pass validate, which NewCommand calls before the flags are parsed;
\* what the flags say is not validated.  Start begins run, or the leader election.
Launch(r) ==
    /\ proc[r] = "down"
    /\ proc' = [proc EXCEPT ![r] = "up"]
    /\ elector' = [elector EXCEPT ![r] = IF elect THEN "candidate" ELSE "none"]
    /\ main' = [main EXCEPT ![r] = IF elect THEN "none" ELSE "setup"]
    /\ UNCHANGED <<elect, option, busy, leaseVars, api, faults>>

\* The process ends, and with it everything it was doing.  Its lease is not released.
Ends(r) ==
    /\ proc' = [proc EXCEPT ![r] = "down"]
    /\ elector' = [elector EXCEPT ![r] = "none"]
    /\ main' = [main EXCEPT ![r] = "none"]
    /\ busy' = [busy EXCEPT ![r] = FALSE]
    /\ holder' = [holder EXCEPT ![Version[r]] = IF @ = r THEN Gone ELSE @]
    /\ UNCHANGED <<elect, option, age, api>>

-----------------------------------------------------------------------------
(* Leader election *)

\* Mutant of Free: a candidate does not wait for longer than the leader.
Free_AtDeadline(v) == holder[v] = Nobody \/ age[v] >= RenewDeadline

\* Mutant of Free: a lease whose holder is gone stays taken.
Free_NeverExpires(v) == holder[v] = Nobody

Free(v) == holder[v] = Nobody \/ age[v] >= LeaseDuration

\* OnStartedLeading begins run.
Acquire(r) ==
    /\ elector[r] = "candidate" /\ api /\ Free(Version[r])
    /\ elector' = [elector EXCEPT ![r] = "leading"]
    /\ main' = [main EXCEPT ![r] = "setup"]
    /\ holder' = [holder EXCEPT ![Version[r]] = r]
    /\ age' = [age EXCEPT ![Version[r]] = 0]
    /\ UNCHANGED <<elect, option, proc, busy, api, faults>>

Renew(r) ==
    /\ elector[r] = "leading" /\ api /\ age[Version[r]] > 0
    /\ age' = [age EXCEPT ![Version[r]] = 0]
    /\ UNCHANGED <<elect, option, procVars, holder, api, faults>>

\* The elector gives up: the context of run is cancelled, and OnStoppedLeading sends
\* an error to errChan.
Lose(r) ==
    /\ elector[r] = "leading" /\ age[Version[r]] >= RenewDeadline
    /\ elector' = [elector EXCEPT ![r] = "lost"]
    /\ UNCHANGED <<elect, option, proc, main, busy, leaseVars, api, faults>>

-----------------------------------------------------------------------------
(* run *)

\* Everything up to RunJobs, with triggers that module Sources can start.  run fails
\* without the API server, and when executor.New finds a zero for the queue size, the
\* workers, the retry delay, the rate or the timeout.  max-retry it does not look at:
\* a zero there, and negative numbers but that of the workers, are "unchecked".
SetUp(r) ==
    /\ main[r] = "setup" /\ (api => option # "negativeWorkers")
    /\ main' = [main EXCEPT ![r] = IF api /\ option # "zero" THEN "jobs" ELSE "failed"]
    /\ UNCHANGED <<elect, option, proc, elector, busy, leaseVars, api, faults>>

\* executor.New takes negative numbers too, and RunJobs panics when it is the workers'.
RunPanics(r) ==
    /\ main[r] = "setup" /\ api /\ option = "negativeWorkers"
    /\ Ends(r)
    /\ UNCHANGED faults

\* Workers run actions, also one they were waiting for when the context ends.
BeginAction(r) ==
    /\ main[r] = "jobs" /\ ~busy[r]
    /\ busy' = [busy EXCEPT ![r] = TRUE]
    /\ UNCHANGED <<elect, option, proc, elector, main, leaseVars, api, faults>>

EndAction(r) ==
    /\ busy[r]
    /\ busy' = [busy EXCEPT ![r] = FALSE]
    /\ UNCHANGED <<elect, option, proc, elector, main, leaseVars, api, faults>>

\* RunJobs sees that its context is done, and returns when the actions have ended or
\* took too long.
Drain(r) ==
    /\ main[r] = "jobs" /\ elector[r] = "lost"
    /\ main' = [main EXCEPT ![r] = "draining"]
    /\ UNCHANGED <<elect, option, proc, elector, busy, leaseVars, api, faults>>

RunReturns(r) ==
    /\ main[r] = "draining"
    /\ main' = [main EXCEPT ![r] = "returned"]
    /\ UNCHANGED <<elect, option, proc, elector, busy, leaseVars, api, faults>>

-----------------------------------------------------------------------------
(* runCli *)

\* errChan has no buffer: a run that failed and an elector that lost its lease wait at
\* "failed" and "lost" to send to it, possibly both.  runCli receives once, from either.
RunnerErr(r) ==
    /\ proc[r] = "up" /\ (main[r] = "failed" \/ elector[r] = "lost")
    /\ Ends(r)
    /\ UNCHANGED faults

\* A signal arrives.  Nobody waits for the actions that are being run.
Sigterm(r) ==
    /\ proc[r] = "up" /\ faults < MaxFaults
    /\ Ends(r)
    /\ faults' = faults + 1

-----------------------------------------------------------------------------
(* The API server and time *)

ApiFails ==
    /\ api /\ faults < MaxFaults
    /\ api' = FALSE
    /\ faults' = faults + 1
    /\ UNCHANGED <<elect, option, procVars, leaseVars>>

ApiRecovers ==
    /\ ~api
    /\ api' = TRUE
    /\ UNCHANGED <<elect, option, procVars, leaseVars, faults>>

\* A leader that can renew does so in time, and gives up at its deadline.
RenewsInTime ==
    \A r \in Replicas : elector[r] = "leading" =>
        age[Version[r]] < IF api THEN RenewDeadline - 1 ELSE RenewDeadline

\* A process that lost its lease ends before the lease runs out.
ExitsInTime ==
    \A r \in Replicas : elector[r] = "lost" => age[Version[r]] < LeaseDuration - 1

Tick ==
    /\ RenewsInTime /\ ExitsInTime
    /\ age' = [v \in Versions |-> IF age[v] < LeaseDuration THEN age[v] + 1 ELSE age[v]]
    /\ UNCHANGED <<elect, option, procVars, holder, api, faults>>

Next ==
    \/ \E r \in Replicas :
          \/ Launch(r) \/ Acquire(r) \/ Renew(r) \/ Lose(r)
          \/ SetUp(r) \/ RunPanics(r) \/ BeginAction(r) \/ EndAction(r)
          \/ Drain(r) \/ RunReturns(r) \/ RunnerErr(r) \/ Sigterm(r)
    \/ ApiFails \/ ApiRecovers \/ Tick

Spec == Init /\ [][Next]_vars

\* Processes are started again and scheduled, outages end, time passes.  Actions need
\* not end, and nobody has to send a signal.
FairSpec ==
    /\ Spec
    /\ \A r \in Replicas :
          /\ WF_vars(Launch(r)) /\ WF_vars(Renew(r)) /\ WF_vars(Lose(r)) /\ WF_vars(SetUp(r))
          /\ WF_vars(RunPanics(r)) /\ WF_vars(RunnerErr(r))
    /\ WF_vars(\E r \in Replicas : Acquire(r))
    /\ WF_vars(ApiRecovers) /\ WF_vars(Tick)

-----------------------------------------------------------------------------
(* Properties *)

\* The types of the processes' and the leases' state.
TypeOK ==
    /\ elect \in BOOLEAN /\ option \in Options
    /\ proc \in [Replicas -> {"down", "up"}]
    /\ elector \in [Replicas -> {"none", "candidate", "leading", "lost"}]
    /\ main \in [Replicas -> {"none", "setup", "failed", "jobs", "draining", "returned"}]
    /\ busy \in [Replicas -> BOOLEAN]
    /\ holder \in [Versions -> Replicas \cup {Nobody, Gone}]
    /\ age \in [Versions -> 0..LeaseDuration]
    /\ api \in BOOLEAN /\ faults \in 0..MaxFaults

Active(r) == main[r] # "none"

\* "there is only one active kube-trigger": with leader election two processes of
\* one version never watch or run actions at the same time, not even while one that
\* lost its lease is shutting down.  That rests on ExitsInTime: a process that lost its
\* lease is gone before the lease runs out, which the code does not enforce.
OneActive ==
    elect => \A r, s \in Replicas : Active(r) /\ Active(s) /\ Version[r] = Version[s] => r = s

\* After outages, signals and lost leases some process of each version works again.
WorkResumes ==
    option = "good" =>
        \A v \in Versions : (\E r \in Replicas : Version[r] = v) =>
            []<>(\E r \in Replicas : Version[r] = v /\ main[r] = "jobs" /\ elector[r] # "lost")
=============================================================================
