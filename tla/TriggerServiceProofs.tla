------------------------ MODULE TriggerServiceProofs ------------------------
(***************************************************************************)
(* Theorems about TriggerService, for every set of services and            *)
(* namespaces and every bound on edits and faults.                         *)
(***************************************************************************)
EXTENDS TriggerService, TLAPS

USE ServiceAssumption

\* What the variable pass is during a pass.
Pass == [at : Positions, service : Services, uid : Generations, spec : Generations]

\* The type invariant is inductive.
LEMMA TypeNext == TypeOK /\ [Next]_vars => TypeOK'
<1> SUFFICES ASSUME TypeOK, [Next]_vars PROVE TypeOK'
  OBVIOUS
<1> USE DEF TypeOK, Generations, userVars, objects, cache, Idle, Positions
<1>1. ASSUME NEW s \in Services, Apply(s) PROVE TypeOK'
  BY <1>1 DEF Apply, Exists
<1>2. ASSUME NEW s \in Services, MarkDeleted(s) PROVE TypeOK'
  BY <1>2 DEF MarkDeleted
<1>3. ASSUME NEW s \in Services, Removed(s) PROVE TypeOK'
  BY <1>3 DEF Removed, NoService
<1>4. ASSUME NEW s \in Services, CollectConfig(s) PROVE TypeOK'
  BY <1>4 DEF CollectConfig, NoConfig
<1>5. ASSUME NEW s \in Services, CollectDeployment(s) PROVE TypeOK'
  BY <1>5 DEF CollectDeployment
<1>6. ASSUME NEW s \in Services, PodStarts(s) PROVE TypeOK'
  BY <1>6 DEF PodStarts
<1>7. ASSUME NEW n \in Namespaces, CollectAccount(n) PROVE TypeOK'
  BY <1>7 DEF CollectAccount
<1>8. ASSUME NEW s \in Services, ObserveService(s) PROVE TypeOK'
  BY <1>8 DEF ObserveService
<1>9. ASSUME NEW s \in Services, ObserveDeployment(s) PROVE TypeOK'
  BY <1>9 DEF ObserveDeployment
<1>10. ASSUME NEW s \in Services, ObservePod(s) PROVE TypeOK'
  BY <1>10 DEF ObservePod, PodState
<1>11. ASSUME NEW n \in Namespaces, ObserveAccount(n) PROVE TypeOK'
  BY <1>11 DEF ObserveAccount
<1>12. CASE Resync
  BY <1>12 DEF Resync
<1>13. ASSUME NEW s \in Services, Begin(s) PROVE TypeOK'
  BY <1>13 DEF Begin, PassStarts
<1>14. CASE AddFinalizer
  BY <1>14 DEF AddFinalizer, At, ReturnErr
<1>15. CASE CreateConfig
  BY <1>15 DEF CreateConfig, At, Goto
<1>16. CASE CreateNameless
  BY <1>16 DEF CreateNameless, At, ReturnErr
<1>17. CASE UpdateConfig
  BY <1>17 DEF UpdateConfig, At, Goto
<1>18. CASE restartPod
  <2> DEFINE s == pass.service
  <2>1. pass \in Pass
    BY <1>18 DEF restartPod, At, Pass
  <2>2. CASE podSeen[s] = "none"
    BY <1>18, <2>1, <2>2 DEF restartPod, Goto, Pass
  <2>3. CASE podSeen[s] = "current"
    <3>1. /\ Goto("list")
          /\ pod' = [pod EXCEPT ![s] = 0]
          /\ podSeen' = [podSeen EXCEPT ![s] = "gone"]
          /\ UNCHANGED <<userVars, cm, deploy, sa, bound, tsSeen, deploySeen, saSeen, queue,
                         faults, interrupted>>
      BY <1>18, <2>3 DEF restartPod
    <3> QED
      BY <2>1, <3>1 DEF Goto, Pass
  <2>4. CASE podSeen[s] = "gone"
    BY <1>18, <2>1, <2>4 DEF restartPod, ReturnErr, Pass
  <2> QED
    BY <2>1, <2>2, <2>3, <2>4 DEF Pass
<1>19. CASE ListDeployments
  BY <1>19 DEF ListDeployments, At, Goto, Return
<1>20. CASE AccountExists
  BY <1>20 DEF AccountExists, At, Goto
<1>21. CASE CreateAccount
  <2>1. pass \in Pass /\ Home \in Namespaces
    BY <1>21 DEF CreateAccount, NewAccount, Home, At, Pass
  <2>2. CASE sa[Home] = Nobody
    BY <1>21, <2>1, <2>2 DEF CreateAccount, NewAccount, Goto, Pass
  <2>3. CASE sa[Home] # Nobody
    BY <1>21, <2>1, <2>3 DEF CreateAccount, NewAccount, ReturnErr, Pass
  <2> QED
    BY <2>2, <2>3
<1>22. CASE AccountUnknown
  BY <1>22 DEF AccountUnknown, At, Goto
<1>23. CASE BindAccount
  BY <1>23 DEF BindAccount, Home, At, Goto
<1>24. CASE CreateDeployment
  BY <1>24 DEF CreateDeployment, At, Return, ReturnErr
<1>25. CASE Fail
  BY <1>25 DEF Fail, Abort, Home, At, ReturnErr
<1>26. CASE Crash
  BY <1>26 DEF Crash, Abort, Home, At, Deployments, PodState, Accounts
<1>27. CASE UNCHANGED vars
  BY <1>27 DEF vars
<1> QED
  BY <1>1, <1>2, <1>3, <1>4, <1>5, <1>6, <1>7, <1>8, <1>9, <1>10, <1>11, <1>12, <1>13, <1>14,
     <1>15, <1>16, <1>17, <1>18, <1>19, <1>20, <1>21, <1>22, <1>23, <1>24, <1>25, <1>26, <1>27
     DEF Next, Observe, PassStep

\* The types of the objects, the cache and the pass hold for every instance.
THEOREM TypeCorrect == Spec => []TypeOK
<1>1. Init => TypeOK
  BY DEF Init, TypeOK, Generations, NoService, NoConfig, Idle
<1> QED
  BY <1>1, TypeNext, PTL DEF Spec

-----------------------------------------------------------------------------
(***************************************************************************)
(* The binding.  createRoles leaves a known account alone, so what has to  *)
(* be shown is that an account is bound, was left behind by a pass that    *)
(* ended too early, or belongs to the pass that is about to bind it.       *)
(***************************************************************************)

Settled(n) == n \in bound \cup interrupted

AccountInv ==
    /\ \A n \in Accounts \cup saSeen : Settled(n) \/ (At("bind") /\ Home = n)
    /\ At("deploy") => Settled(Home)
    /\ \A s \in Services : deploy[s] # 0 => Settled(Namespace[s])

\* Every step preserves what is known of the accounts.
LEMMA AccountNext == TypeOK /\ AccountInv /\ [Next]_vars => AccountInv'
<1> SUFFICES ASSUME TypeOK, AccountInv, [Next]_vars PROVE AccountInv'
  OBVIOUS
<1> USE DEF AccountInv, Settled, Accounts, Home, At, userVars, objects, cache
<1>t. /\ sa \in [Namespaces -> (Services \X Generations) \cup {Nobody, Installed}]
      /\ deploy \in [Services -> Generations]
      /\ saSeen \subseteq Namespaces
      /\ pass = Idle \/ pass \in Pass
      /\ At("idle") <=> pass = Idle
  BY DEF TypeOK, Pass, Idle, Positions
<1>1. ASSUME NEW s \in Services,
             Apply(s) \/ MarkDeleted(s) \/ Removed(s) \/ CollectConfig(s) \/ PodStarts(s)
             \/ ObserveService(s) \/ ObserveDeployment(s) \/ ObservePod(s)
      PROVE  AccountInv'
  BY <1>1 DEF Apply, MarkDeleted, Removed, CollectConfig, PodStarts, ObserveService,
              ObserveDeployment, ObservePod
<1>2. ASSUME NEW s \in Services, CollectDeployment(s) PROVE AccountInv'
  BY <1>t, <1>2 DEF CollectDeployment
<1>3. ASSUME NEW n \in Namespaces, CollectAccount(n) PROVE AccountInv'
  BY <1>t, <1>3 DEF CollectAccount
<1>4. ASSUME NEW n \in Namespaces, ObserveAccount(n) PROVE AccountInv'
  BY <1>t, <1>4 DEF ObserveAccount
<1>5. CASE Resync
  BY <1>5 DEF Resync
<1>6. ASSUME NEW s \in Services, Begin(s) PROVE AccountInv'
  BY <1>t, <1>6 DEF Begin, PassStarts
<1>7. CASE AddFinalizer \/ CreateNameless
  BY <1>t, <1>7 DEF AddFinalizer, CreateNameless, ReturnErr, Idle
<1>8. CASE CreateConfig \/ UpdateConfig
  BY <1>t, <1>8 DEF CreateConfig, UpdateConfig, Goto
<1>9. CASE restartPod
  BY <1>t, <1>9 DEF restartPod, Goto, ReturnErr, Idle
<1>10. CASE ListDeployments
  BY <1>t, <1>10 DEF ListDeployments, Goto, Return, Idle
<1>11. CASE AccountExists
  BY <1>t, <1>11 DEF AccountExists, Goto
<1>12. CASE CreateAccount
  BY <1>t, <1>12 DEF CreateAccount, NewAccount, Goto, ReturnErr, Idle
<1>13. CASE AccountUnknown
  BY <1>t, <1>13 DEF AccountUnknown, Goto
<1>14. CASE BindAccount
  BY <1>t, <1>14 DEF BindAccount, Goto
<1>15. CASE CreateDeployment
  BY <1>t, <1>15 DEF CreateDeployment, Return, ReturnErr, Idle, Pass
<1>16. CASE Fail
  BY <1>t, <1>16 DEF Fail, Abort, ReturnErr, Idle
<1>17. CASE Crash
  BY <1>t, <1>17 DEF Crash, Abort, Idle
<1>18. CASE UNCHANGED vars
  BY <1>18 DEF vars
<1> QED
  BY <1>1, <1>2, <1>3, <1>4, <1>5, <1>6, <1>7, <1>8, <1>9, <1>10, <1>11, <1>12, <1>13, <1>14,
     <1>15, <1>16, <1>17, <1>18 DEF Next, Observe, PassStep

\* A worker runs without the binding only where a pass ended between the
\* creation of the account and its binding.
THEOREM Unbound == Spec => []UnboundOnlyAfterInterruption
<1>1. Init => AccountInv
  BY DEF Init, AccountInv, Accounts, Settled, At, Idle
<1>2. AccountInv => UnboundOnlyAfterInterruption
  BY DEF AccountInv, Settled, UnboundOnlyAfterInterruption
<1> QED
  BY <1>1, <1>2, AccountNext, TypeCorrect, PTL DEF Spec

-----------------------------------------------------------------------------
(***************************************************************************)
(* The config map.  A pass works with the spec it read at its beginning,   *)
(* which is older than the service by the time it is written, but never    *)
(* older than what is in the config map.  A service that exists has the    *)
(* spec of its last generation, and that is what a cache that catches up,  *)
(* or starts anew, gets to see.                                            *)
(***************************************************************************)

Active == ~At("idle") /\ pass.uid # 0

SpecInv ==
    /\ \A s \in Services :
          /\ Exists(s) => ts[s].spec = generation[s]
          /\ ts[s].spec <= generation[s]
          /\ cm[s].spec <= generation[s]
          /\ tsSeen[s].spec <= generation[s]
          /\ tsSeen[s].uid # 0 => cm[s].spec <= tsSeen[s].spec
    /\ Active =>
          /\ cm[pass.service].spec <= pass.spec
          /\ pass.spec <= generation[pass.service]
          /\ tsSeen[pass.service].uid # 0 => pass.spec <= tsSeen[pass.service].spec

\* The objects this argument is about are as TypeOK says, with specs that are
\* numbers.
LEMMA SpecTypes ==
    TypeOK => /\ generation \in [Services -> Nat]
              /\ ts \in [Services -> [uid : Nat, spec : Nat, deleting : BOOLEAN]]
              /\ tsSeen \in [Services -> [uid : Nat, spec : Nat, deleting : BOOLEAN]]
              /\ cm \in [Services -> [uid : Nat, spec : Nat]]
              /\ ~At("idle") => /\ pass.service \in Services
                                /\ pass.uid \in Nat /\ pass.spec \in Nat
  BY DEF TypeOK, Generations, At, Idle

\* Every step preserves the order of the specs in flight.
LEMMA SpecNext == TypeOK /\ SpecInv /\ [Next]_vars => SpecInv'
<1> SUFFICES ASSUME TypeOK, SpecInv, [Next]_vars PROVE SpecInv'
  OBVIOUS
<1> USE SpecTypes DEF SpecInv, Active, Exists, At, userVars, objects, cache
<1>1. ASSUME NEW s \in Services, Apply(s) PROVE SpecInv'
  BY <1>1 DEF Apply
<1>2. ASSUME NEW s \in Services, MarkDeleted(s) \/ Removed(s) PROVE SpecInv'
  <2>1. CASE MarkDeleted(s)
    BY <2>1 DEF MarkDeleted
  <2>2. CASE Removed(s)
    BY <2>2 DEF Removed, NoService
  <2> QED
    BY <1>2, <2>1, <2>2
<1>3. ASSUME NEW s \in Services, CollectConfig(s) PROVE SpecInv'
  BY <1>3 DEF CollectConfig, NoConfig
<1>4. ASSUME NEW s \in Services,
             CollectDeployment(s) \/ PodStarts(s) \/ ObserveDeployment(s) \/ ObservePod(s)
      PROVE  SpecInv'
  BY <1>4 DEF CollectDeployment, PodStarts, ObserveDeployment, ObservePod
<1>5. ASSUME NEW n \in Namespaces, CollectAccount(n) \/ ObserveAccount(n) PROVE SpecInv'
  BY <1>5 DEF CollectAccount, ObserveAccount
<1>6. ASSUME NEW s \in Services, ObserveService(s) PROVE SpecInv'
  BY <1>6 DEF ObserveService
<1>7. CASE Resync
  BY <1>7 DEF Resync
<1>8. ASSUME NEW s \in Services, Begin(s) PROVE SpecInv'
  BY <1>8 DEF Begin, PassStarts
<1>9. CASE AddFinalizer \/ CreateNameless
  BY <1>9 DEF AddFinalizer, CreateNameless, ReturnErr, Idle
<1>10. CASE CreateConfig
  BY <1>10 DEF CreateConfig, Goto
<1>11. CASE UpdateConfig
  BY <1>11 DEF UpdateConfig, Goto
<1>12. CASE restartPod
  BY <1>12 DEF restartPod, Goto, ReturnErr, Idle
<1>13. CASE ListDeployments
  BY <1>13 DEF ListDeployments, Goto, Return, Idle
<1>14. CASE AccountExists \/ CreateAccount
  BY <1>14 DEF AccountExists, CreateAccount, NewAccount, Goto, ReturnErr, Idle
<1>15. CASE AccountUnknown \/ BindAccount
  BY <1>15 DEF AccountUnknown, BindAccount, Goto
<1>16. CASE CreateDeployment
  BY <1>16 DEF CreateDeployment, Return, ReturnErr, Idle
<1>17. CASE Fail
  BY <1>17 DEF Fail, ReturnErr, Idle
<1>18. CASE Crash
  BY <1>18 DEF Crash, Idle
<1>19. CASE UNCHANGED vars
  BY <1>19 DEF vars
<1> QED
  BY <1>1, <1>2, <1>3, <1>4, <1>5, <1>6, <1>7, <1>8, <1>9, <1>10, <1>11, <1>12, <1>13, <1>14,
     <1>15, <1>16, <1>17, <1>18, <1>19 DEF Next, Observe, PassStep

\* No step makes the spec in a config map older.
LEMMA ConfigStep ==
    TypeOK /\ SpecInv /\ [Next]_vars =>
        \A s \in Services : cm[s].uid # 0 /\ cm'[s].uid # 0 => cm[s].spec <= cm'[s].spec
<1> SUFFICES ASSUME TypeOK, SpecInv, [Next]_vars, NEW s \in Services,
                    cm[s].uid # 0, cm'[s].uid # 0
             PROVE  cm[s].spec <= cm'[s].spec
  OBVIOUS
<1> USE SpecTypes DEF At, userVars, objects, cache
<1>1. CASE cm' = cm
  BY <1>1
<1>2. ASSUME NEW t \in Services, CollectConfig(t) PROVE cm[s].spec <= cm'[s].spec
  BY <1>2 DEF CollectConfig, NoConfig
<1>3. CASE CreateConfig
  BY <1>3 DEF CreateConfig
<1>4. CASE UpdateConfig
  BY <1>4 DEF UpdateConfig, SpecInv, Active
<1>5. \/ cm' = cm
      \/ \E t \in Services : CollectConfig(t)
      \/ CreateConfig \/ UpdateConfig
  <2>1. ASSUME NEW t \in Services,
               Apply(t) \/ MarkDeleted(t) \/ Removed(t) \/ CollectDeployment(t) \/ PodStarts(t)
               \/ ObserveService(t) \/ ObserveDeployment(t) \/ ObservePod(t) \/ Begin(t)
        PROVE  cm' = cm
    BY <2>1 DEF Apply, MarkDeleted, Removed, CollectDeployment, PodStarts, ObserveService,
                ObserveDeployment, ObservePod, Begin, PassStarts
  <2>2. ASSUME NEW n \in Namespaces, CollectAccount(n) \/ ObserveAccount(n) PROVE cm' = cm
    BY <2>2 DEF CollectAccount, ObserveAccount
  <2>3. CASE Resync \/ AddFinalizer \/ CreateNameless \/ restartPod \/ ListDeployments
    BY <2>3 DEF Resync, AddFinalizer, CreateNameless, restartPod, ListDeployments
  <2>4. CASE AccountExists \/ CreateAccount \/ AccountUnknown \/ BindAccount
    BY <2>4 DEF AccountExists, CreateAccount, NewAccount, AccountUnknown, BindAccount
  <2>5. CASE CreateDeployment \/ Fail \/ Crash
    BY <2>5 DEF CreateDeployment, Fail, Crash
  <2>6. CASE UNCHANGED vars
    BY <2>6 DEF vars
  <2> QED
    BY <2>1, <2>2, <2>3, <2>4, <2>5, <2>6 DEF Next, Observe, PassStep
<1> QED
  BY <1>1, <1>2, <1>3, <1>4, <1>5

\* handleTriggerConfig never replaces a spec by an older one.
THEOREM ConfigMonotone == Spec => ConfigNeverGoesBack
<1>1. ASSUME Init PROVE SpecInv
  <2>1. ~Active
    BY <1>1 DEF Init, Active, At, Idle
  <2>2. ASSUME NEW s \in Services
        PROVE  /\ generation[s] = 0 /\ ts[s] = NoService /\ tsSeen[s] = NoService
               /\ cm[s] = NoConfig
    BY <1>1 DEF Init
  <2>3. NoService.uid = 0 /\ NoService.spec = 0 /\ NoConfig.spec = 0
    BY DEF NoService, NoConfig
  <2>4. ASSUME NEW s \in Services
        PROVE  /\ generation[s] = 0 /\ ts[s].uid = 0 /\ ts[s].spec = 0
               /\ tsSeen[s].uid = 0 /\ tsSeen[s].spec = 0 /\ cm[s].spec = 0
    BY Zenon, <2>2, <2>3
  <2>5. 0 <= 0
    OBVIOUS
  <2> QED
    BY Zenon, <2>1, <2>4, <2>5 DEF SpecInv, Exists
<1> QED
  BY <1>1, SpecNext, ConfigStep, TypeCorrect, PTL DEF Spec, ConfigNeverGoesBack
=============================================================================
