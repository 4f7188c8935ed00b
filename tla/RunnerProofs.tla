---------------------------- MODULE RunnerProofs ----------------------------
(***************************************************************************)
(* What module Runner promises for any number of replicas and versions and *)
(* any lease that is longer than its renew deadline.                       *)
(*                                                                         *)
(* OneActive is not inductive: that a candidate cannot take over from a    *)
(* process that is still active follows from who holds the lease and how   *)
(* old it may be, which LeaseInv adds.                                     *)
(***************************************************************************)
EXTENDS Runner, TLAPS

\* A leader and a process that just lost its lease are still the holder, and the lease
\* has not run out; what is active was started by an elector that won.
LeaseInv ==
    elect => \A r \in Replicas :
        /\ elector[r] \in {"leading", "lost"} => holder[Version[r]] = r
        /\ elector[r] = "leading" => age[Version[r]] <= RenewDeadline
        /\ elector[r] = "lost" => age[Version[r]] < LeaseDuration
        /\ main[r] # "none" => elector[r] \in {"leading", "lost"}

\* The state of the processes and leases is well typed: launching, electing,
\* working, failing and ticking keep every variable in its type.
THEOREM TypeCorrect == Spec => []TypeOK
<1>1. Init => TypeOK
  BY RunnerAssumption DEF Init, TypeOK
<1>2. TypeOK /\ [Next]_vars => TypeOK'
  <2> SUFFICES ASSUME TypeOK, [Next]_vars PROVE TypeOK'
    OBVIOUS
  <2> USE RunnerAssumption DEF TypeOK
  <2>1. ASSUME NEW r \in Replicas, Launch(r) PROVE TypeOK'
    BY <2>1 DEF Launch, leaseVars
  <2>2. ASSUME NEW r \in Replicas, Ends(r), faults' \in 0..MaxFaults PROVE TypeOK'
    BY <2>2 DEF Ends
  <2>3. ASSUME NEW r \in Replicas, Acquire(r) PROVE TypeOK'
    BY <2>3 DEF Acquire
  <2>4. ASSUME NEW r \in Replicas, Renew(r) PROVE TypeOK'
    BY <2>4 DEF Renew, procVars
  <2>5. ASSUME NEW r \in Replicas, Lose(r) PROVE TypeOK'
    BY <2>5 DEF Lose, leaseVars
  <2>6. ASSUME NEW r \in Replicas, SetUp(r) PROVE TypeOK'
    BY <2>6 DEF SetUp, leaseVars
  <2>7. ASSUME NEW r \in Replicas, BeginAction(r) \/ EndAction(r) PROVE TypeOK'
    BY <2>7 DEF BeginAction, EndAction, leaseVars
  <2>8. ASSUME NEW r \in Replicas, Drain(r) \/ RunReturns(r) PROVE TypeOK'
    BY <2>8 DEF Drain, RunReturns, leaseVars
  <2>9. ASSUME NEW r \in Replicas, RunPanics(r) \/ RunnerErr(r) \/ Sigterm(r) PROVE TypeOK'
    BY <2>2, <2>9 DEF RunPanics, RunnerErr, Sigterm
  <2>10. CASE ApiFails \/ ApiRecovers
    <3>1. api' \in BOOLEAN
      BY <2>10 DEF ApiFails, ApiRecovers
    <3>2. faults' \in 0..MaxFaults
      BY <2>10 DEF ApiFails, ApiRecovers
    <3>3. UNCHANGED <<elect, option, procVars, leaseVars>>
      BY <2>10 DEF ApiFails, ApiRecovers
    <3>4. QED
      BY <3>1, <3>2, <3>3 DEF procVars, leaseVars
  <2>11. CASE Tick
    <3>1. age' \in [Versions -> 0..LeaseDuration]
      BY <2>11 DEF Tick
    <3>2. QED
      BY <3>1, <2>11 DEF Tick, procVars
  <2>12. CASE UNCHANGED vars
    BY <2>12 DEF vars, procVars, leaseVars
  <2>13. QED
    BY <2>1, <2>3, <2>4, <2>5, <2>6, <2>7, <2>8, <2>9, <2>10, <2>11, <2>12 DEF Next
<1>3. QED
  BY <1>1, <1>2, PTL DEF Spec

\* A process that ends takes only its own claims with it.
LEMMA EndsKeepsLease ==
    ASSUME TypeOK, LeaseInv, NEW r \in Replicas, Ends(r) PROVE LeaseInv'
  BY RunnerAssumption DEF TypeOK, LeaseInv, Ends

\* Every step keeps LeaseInv: in particular a candidate that acquires the lease finds
\* that no process of its version is leading or shutting down.
LEMMA LeaseInductive == TypeOK /\ LeaseInv /\ [Next]_vars => LeaseInv'
<1> SUFFICES ASSUME TypeOK, LeaseInv, [Next]_vars PROVE LeaseInv'
  OBVIOUS
<1> USE RunnerAssumption DEF TypeOK
<1>1. ASSUME NEW r \in Replicas, Launch(r) PROVE LeaseInv'
  BY <1>1 DEF LeaseInv, Launch, leaseVars
<1>2. ASSUME NEW r \in Replicas, Acquire(r) PROVE LeaseInv'
  <2> SUFFICES ASSUME elect', NEW s \in Replicas
               PROVE /\ elector'[s] \in {"leading", "lost"} => holder'[Version[s]] = s
                     /\ elector'[s] = "leading" => age'[Version[s]] <= RenewDeadline
                     /\ elector'[s] = "lost" => age'[Version[s]] < LeaseDuration
                     /\ main'[s] # "none" => elector'[s] \in {"leading", "lost"}
    BY DEF LeaseInv
  <2>1. CASE s = r
    BY <1>2, <2>1 DEF Acquire
  <2>2. CASE s # r /\ Version[s] # Version[r]
    BY <1>2, <2>2 DEF Acquire, LeaseInv
  <2>3. CASE s # r /\ Version[s] = Version[r]
    <3>1. elector[s] \notin {"leading", "lost"}
      BY <1>2, <2>3 DEF Acquire, LeaseInv, Free
    <3>2. QED
      BY <1>2, <2>3, <3>1 DEF Acquire, LeaseInv
  <2>4. QED
    BY <2>1, <2>2, <2>3
<1>3. ASSUME NEW r \in Replicas, Renew(r) PROVE LeaseInv'
  BY <1>3 DEF LeaseInv, Renew, procVars
<1>4. ASSUME NEW r \in Replicas, Lose(r) PROVE LeaseInv'
  BY <1>4 DEF LeaseInv, Lose, leaseVars
<1>5. ASSUME NEW r \in Replicas, SetUp(r) PROVE LeaseInv'
  BY <1>5 DEF LeaseInv, SetUp, leaseVars
<1>6. ASSUME NEW r \in Replicas, BeginAction(r) \/ EndAction(r) PROVE LeaseInv'
  BY <1>6 DEF LeaseInv, BeginAction, EndAction, leaseVars
<1>7. ASSUME NEW r \in Replicas, Drain(r) \/ RunReturns(r) PROVE LeaseInv'
  <2>1. \A s \in Replicas : main'[s] # "none" => main[s] # "none"
    BY <1>7 DEF Drain, RunReturns
  <2>2. UNCHANGED <<elect, elector, holder, age>>
    BY <1>7 DEF Drain, RunReturns, leaseVars
  <2>3. QED
    BY <2>1, <2>2 DEF LeaseInv
<1>8. ASSUME NEW r \in Replicas, RunPanics(r) \/ RunnerErr(r) \/ Sigterm(r) PROVE LeaseInv'
  BY <1>8, EndsKeepsLease DEF RunPanics, RunnerErr, Sigterm
<1>9. CASE ApiFails \/ ApiRecovers
  BY <1>9 DEF LeaseInv, ApiFails, ApiRecovers, procVars, leaseVars
<1>10. CASE Tick
  <2>1. \A s \in Replicas : age'[Version[s]] <= age[Version[s]] + 1
    BY <1>10 DEF Tick
  <2>2. \A s \in Replicas : elector[s] = "leading" => age[Version[s]] < RenewDeadline
    BY <1>10 DEF Tick, RenewsInTime
  <2>3. \A s \in Replicas : elector[s] = "lost" => age[Version[s]] < LeaseDuration - 1
    BY <1>10 DEF Tick, ExitsInTime
  <2>4. age' \in [Versions -> 0..LeaseDuration]
    BY <1>10 DEF Tick
  <2>5. QED
    BY <1>10, <2>1, <2>2, <2>3, <2>4 DEF LeaseInv, Tick, procVars
<1>11. CASE UNCHANGED vars
  BY <1>11 DEF LeaseInv, vars, procVars, leaseVars
<1>12. QED
  BY <1>1, <1>2, <1>3, <1>4, <1>5, <1>6, <1>7, <1>8, <1>9, <1>10, <1>11 DEF Next

\* "there is only one active kube-trigger": with leader election at most one process of
\* a version is active, for every number of replicas and every outage of the API server.
THEOREM OnlyOneActive == Spec => []OneActive
<1>1. Init => LeaseInv
  BY DEF Init, LeaseInv
<1>2. LeaseInv => OneActive
  BY DEF LeaseInv, OneActive, Active
<1>3. QED
  BY <1>1, <1>2, TypeCorrect, LeaseInductive, PTL DEF Spec
=============================================================================
