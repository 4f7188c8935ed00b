--------------------------- MODULE TriggerService ---------------------------
(***************************************************************************)
(* The reconciler of TriggerServices,                                      *)
(* controllers/triggerservice/triggerservice_controller.go, against an API *)
(* server: for every service it keeps a config map with the service's      *)
(* spec, a service account that is a subject of the cluster role binding,  *)
(* and a deployment whose pod reads the config map when it starts.         *)
(*                                                                         *)
(* Reconcile is split at its calls of the API server; users, the garbage   *)
(* collector, the controllers of the cluster and the informers that feed   *)
(* the manager's cached client act in between.  The manager reconciles one *)
(* service at a time.  Any call may fail, and the manager may crash.       *)
(*                                                                         *)
(* Every write of a service gets the next generation; a spec stands for    *)
(* the generation that wrote it and a UID for the one that created the     *)
(* object.  0 is the UID, spec or owner of an object that does not exist.  *)
(*                                                                         *)
(* Config maps and the binding are written with the version that was read  *)
(* (Update) or only if they do not exist (Create), so that a write based   *)
(* on an outdated read fails: read and write are one step or a failure.    *)
(***************************************************************************)
EXTENDS Integers, FiniteSets

CONSTANTS
    Services,        \* the TriggerServices users may create
    Names,           \* their names: the value of label trigger.oam.dev/name
    Namespaces,      \* their namespaces
    Name, Namespace, \* of each service
    Installed,       \* the owner of an account that was installed with its binding
    Nobody,          \* the owner of an account that does not exist
    MaxGeneration,   \* bound on the writes of a service by users
    MaxFaults        \* bound on failed calls and crashes

ASSUME ServiceAssumption ==
    /\ Name \in [Services -> Names]
    /\ Namespace \in [Services -> Namespaces]
    /\ \A s, t \in Services : Name[s] = Name[t] /\ Namespace[s] = Namespace[t] => s = t
    /\ Installed \notin Services \X Nat /\ Nobody \notin (Services \X Nat) \cup {Installed}
    /\ MaxGeneration \in Nat /\ MaxFaults \in Nat

VARIABLES
    generation,   \* of each service: the writes so far
    ts,           \* of each service: the TriggerService object
    cm,           \* of each service: the config map, its owner and the spec in it
    deploy,       \* of each service: the owner of its deployment
    pod,          \* of each service: the spec its pod was started with
    sa,           \* of each namespace: the owner of the service account
    bound,        \* namespaces whose account is a subject of the binding
    tsSeen, deploySeen, podSeen, saSeen,  \* the manager's cache
    queue,        \* services to be reconciled
    pass,         \* the Reconcile in progress
    faults,       \* failed calls and crashes so far
    interrupted   \* history: namespaces where a pass ended between the creation
                  \* of the account and its binding

userVars == <<generation, ts>>
objects == <<cm, deploy, pod, sa, bound>>
cache == <<tsSeen, deploySeen, podSeen, saSeen>>
vars == <<userVars, objects, cache, queue, pass, faults, interrupted>>

NoService == [uid |-> 0, spec |-> 0, deleting |-> FALSE]
NoConfig == [uid |-> 0, spec |-> 0]
\* Between two calls of Reconcile.
Idle == [at |-> "idle"]

Exists(s) == ts[s].uid # 0

Init ==
    /\ generation = [s \in Services |-> 0]
    /\ ts = [s \in Services |-> NoService]
    /\ cm = [s \in Services |-> NoConfig]
    /\ deploy = [s \in Services |-> 0]
    /\ pod = [s \in Services |-> 0]
    /\ sa \in [Namespaces -> {Installed, Nobody}]
    /\ bound = {n \in Namespaces : sa[n] = Installed}
    /\ tsSeen = ts
    /\ deploySeen = {}
    /\ podSeen = [s \in Services |-> "none"]
    /\ saSeen = bound
    /\ queue = {}
    /\ pass = Idle
    /\ faults = 0
    /\ interrupted = {}

-----------------------------------------------------------------------------
(* Users *)

\* kubectl apply: creates the service or changes its spec.
Apply(s) ==
    /\ generation[s] < MaxGeneration
    /\ ~ts[s].deleting
    /\ LET g == generation[s] + 1 IN
       /\ generation' = [generation EXCEPT ![s] = g]
       /\ ts' = [ts EXCEPT ![s] = [uid |-> IF Exists(s) THEN ts[s].uid ELSE g, spec |-> g,
                                  deleting |-> FALSE]]
    /\ UNCHANGED <<objects, cache, queue, pass, faults, interrupted>>

\* kubectl delete of a service on which somebody put a finalizer: it stays,
\* marked, until that one is done.
MarkDeleted(s) ==
    /\ Exists(s) /\ ~ts[s].deleting
    /\ ts' = [ts EXCEPT ![s] = [uid |-> ts[s].uid, spec |-> ts[s].spec, deleting |-> TRUE]]
    /\ UNCHANGED <<generation, objects, cache, queue, pass, faults, interrupted>>

\* The service is gone, at once or after the mark.
Removed(s) ==
    /\ Exists(s)
    /\ ts' = [ts EXCEPT ![s] = NoService]
    /\ UNCHANGED <<generation, objects, cache, queue, pass, faults, interrupted>>

-----------------------------------------------------------------------------
(* The cluster *)

\* The garbage collector removes objects whose owner does not exist any more;
\* pods go with their deployment.
CollectConfig(s) ==
    /\ cm[s].uid \notin {0, ts[s].uid}
    /\ cm' = [cm EXCEPT ![s] = NoConfig]
    /\ UNCHANGED <<userVars, deploy, pod, sa, bound, cache, queue, pass, faults, interrupted>>

CollectDeployment(s) ==
    /\ deploy[s] \notin {0, ts[s].uid}
    /\ deploy' = [deploy EXCEPT ![s] = 0]
    /\ pod' = [pod EXCEPT ![s] = 0]
    /\ podSeen' = [podSeen EXCEPT ![s] = IF @ = "current" THEN "gone" ELSE @]
    /\ UNCHANGED <<userVars, cm, sa, bound, tsSeen, deploySeen, saSeen, queue, pass, faults,
                   interrupted>>

CollectAccount(n) ==
    /\ sa[n] \notin {Nobody, Installed}
    /\ ts[sa[n][1]].uid # sa[n][2]
    /\ sa' = [sa EXCEPT ![n] = Nobody]
    /\ UNCHANGED <<userVars, cm, deploy, pod, bound, cache, queue, pass, faults, interrupted>>

\* A pod needs its service account to be created and mounts the config map.
PodStarts(s) ==
    /\ deploy[s] # 0 /\ pod[s] = 0
    /\ sa[Namespace[s]] # Nobody /\ cm[s].uid # 0
    /\ pod' = [pod EXCEPT ![s] = cm[s].spec]
    /\ UNCHANGED <<userVars, cm, deploy, sa, bound, cache, queue, pass, faults, interrupted>>

-----------------------------------------------------------------------------
(* The manager's informers *)

\* The controller watches TriggerServices only: every change of one queues it.
ObserveService(s) ==
    /\ tsSeen[s] # ts[s]
    /\ tsSeen' = [tsSeen EXCEPT ![s] = ts[s]]
    /\ queue' = queue \cup {s}
    /\ UNCHANGED <<userVars, objects, deploySeen, podSeen, saSeen, pass, faults, interrupted>>

Deployments == {s \in Services : deploy[s] # 0}
Accounts == {n \in Namespaces : sa[n] # Nobody}
PodState(s) == IF pod[s] = 0 THEN "none" ELSE "current"

ObserveDeployment(s) ==
    /\ (s \in deploySeen) # (s \in Deployments)
    /\ deploySeen' = IF s \in Deployments THEN deploySeen \cup {s} ELSE deploySeen \ {s}
    /\ UNCHANGED <<userVars, objects, tsSeen, podSeen, saSeen, queue, pass, faults, interrupted>>

ObservePod(s) ==
    /\ podSeen[s] # PodState(s)
    /\ podSeen' = [podSeen EXCEPT ![s] = PodState(s)]
    /\ UNCHANGED <<userVars, objects, tsSeen, deploySeen, saSeen, queue, pass, faults, interrupted>>

ObserveAccount(n) ==
    /\ (n \in saSeen) # (n \in Accounts)
    /\ saSeen' = IF n \in Accounts THEN saSeen \cup {n} ELSE saSeen \ {n}
    /\ UNCHANGED <<userVars, objects, tsSeen, deploySeen, podSeen, queue, pass, faults, interrupted>>

\* The periodic resynchronisation queues every service in the cache.
Resync ==
    /\ queue' = queue \cup {s \in Services : tsSeen[s].uid # 0}
    /\ queue' # queue
    /\ UNCHANGED <<userVars, objects, cache, pass, faults, interrupted>>

-----------------------------------------------------------------------------
(* Reconcile *)

At(p) == pass.at = p
Goto(p) == pass' = [at |-> p, service |-> pass.service, uid |-> pass.uid, spec |-> pass.spec]

\* Reconcile returns nil, or an error: then the service is queued again.
Return == pass' = Idle /\ UNCHANGED queue
ReturnErr == pass' = Idle /\ queue' = queue \cup {pass.service}

PassStarts(s, t) ==
    /\ At("idle")
    /\ s \in queue
    /\ queue' = queue \ {s}
    /\ pass' = [at |-> IF t.deleting THEN "finalizer" ELSE "config",
                service |-> s, uid |-> t.uid, spec |-> t.spec]
    /\ UNCHANGED <<userVars, objects, cache, faults, interrupted>>

Begin_AnyReplica(s) ==
    \E v \in 0..tsSeen[s].spec : PassStarts(s, [tsSeen[s] EXCEPT !.spec = v])

\* Reads the service.  One that is not found is not an error: the pass goes on
\* with an empty TriggerService.
Begin(s) == PassStarts(s, tsSeen[s])

\* The finalizer is added once the service is being deleted, which the API
\* server refuses.
AddFinalizer ==
    /\ At("finalizer")
    /\ ReturnErr
    /\ UNCHANGED <<userVars, objects, cache, faults, interrupted>>

\* handleTriggerConfig without a config map.
CreateConfig ==
    /\ At("config") /\ pass.uid # 0
    /\ cm[pass.service].uid = 0
    /\ cm' = [cm EXCEPT ![pass.service] = [uid |-> pass.uid, spec |-> pass.spec]]
    /\ Goto("list")
    /\ UNCHANGED <<userVars, deploy, pod, sa, bound, cache, queue, faults, interrupted>>

\* An empty TriggerService has neither name nor namespace: no config map is
\* found and none can be created.
CreateNameless ==
    /\ At("config") /\ pass.uid = 0
    /\ ReturnErr
    /\ UNCHANGED <<userVars, objects, cache, faults, interrupted>>

UpdateConfig_NoRestart ==
    /\ At("config") /\ pass.uid # 0
    /\ cm[pass.service].uid # 0
    /\ cm' = [cm EXCEPT ![pass.service] = [uid |-> cm[pass.service].uid, spec |-> pass.spec]]
    /\ Goto("list")
    /\ UNCHANGED <<userVars, deploy, pod, sa, bound, cache, queue, faults, interrupted>>

\* handleTriggerConfig with a config map, whose owner stays.
UpdateConfig ==
    /\ At("config") /\ pass.uid # 0
    /\ cm[pass.service].uid # 0
    /\ cm' = [cm EXCEPT ![pass.service] = [uid |-> cm[pass.service].uid, spec |-> pass.spec]]
    /\ Goto("restart")
    /\ UNCHANGED <<userVars, deploy, pod, sa, bound, cache, queue, faults, interrupted>>

\* restartPod: deletes the pods in the cache; one that is gone is an error.
restartPod ==
    /\ At("restart")
    /\ LET s == pass.service IN
       \/ /\ podSeen[s] = "none"
          /\ Goto("list")
          /\ UNCHANGED <<pod, podSeen, queue>>
       \/ /\ podSeen[s] = "current"
          /\ pod' = [pod EXCEPT ![s] = 0]
          /\ podSeen' = [podSeen EXCEPT ![s] = "gone"]
          /\ Goto("list")
          /\ UNCHANGED queue
       \/ /\ podSeen[s] = "gone"
          /\ ReturnErr
          /\ UNCHANGED <<pod, podSeen>>
    /\ UNCHANGED <<userVars, cm, deploy, sa, bound, tsSeen, deploySeen, saSeen, faults, interrupted>>

\* The deployments with the service's label, in whichever namespace.
Listed == {s \in deploySeen : Name[s] = Name[pass.service]}

ListDeployments ==
    /\ At("list")
    /\ \/ Listed # {} /\ Return
       \/ Listed = {} /\ Goto("roles") /\ UNCHANGED queue
    /\ UNCHANGED <<userVars, objects, cache, faults, interrupted>>

Home == Namespace[pass.service]

\* createRoles finds the account and returns: it does not look at the binding.
AccountExists ==
    /\ At("roles") /\ Home \in saSeen
    /\ Goto("deploy")
    /\ UNCHANGED <<userVars, objects, cache, queue, faults, interrupted>>

NewAccount(owner, next) ==
    /\ At("roles") /\ Home \notin saSeen
    /\ \/ /\ sa[Home] = Nobody
          /\ sa' = [sa EXCEPT ![Home] = owner]
          /\ Goto(next)
          /\ UNCHANGED queue
       \/ /\ sa[Home] # Nobody
          /\ ReturnErr
          /\ UNCHANGED sa
    /\ UNCHANGED <<userVars, cm, deploy, pod, bound, cache, faults, interrupted>>

\* Mutant of CreateAccount: the pass goes on without binding the account.
CreateAccount_Unbound == NewAccount(<<pass.service, pass.uid>>, "deploy")

\* createRoles does not find the account; one the cache does not have yet makes
\* Create fail.
CreateAccount == NewAccount(<<pass.service, pass.uid>>, "bind")

\* An error other than "not found" is dropped: createRoles goes on to the binding, of
\* an account that this pass has not created.
AccountUnknown ==
    /\ At("roles")
    /\ faults < MaxFaults
    /\ faults' = faults + 1
    /\ Goto("bindUnknown")
    /\ UNCHANGED <<userVars, objects, cache, queue, interrupted>>

BindAccount ==
    /\ At("bind") \/ At("bindUnknown")
    /\ bound' = bound \cup {Home}
    /\ Goto("deploy")
    /\ UNCHANGED <<userVars, cm, deploy, pod, sa, cache, queue, faults, interrupted>>

\* A deployment the cache does not have yet makes Create fail.
CreateDeployment ==
    /\ At("deploy")
    /\ \/ /\ deploy[pass.service] = 0
          /\ deploy' = [deploy EXCEPT ![pass.service] = pass.uid]
          /\ Return
       \/ /\ deploy[pass.service] # 0
          /\ ReturnErr
          /\ UNCHANGED deploy
    /\ UNCHANGED <<userVars, cm, pod, sa, bound, cache, faults, interrupted>>

\* What the end of a pass before its next step leaves undone: an account that the pass
\* has created and not bound.
Abort ==
    /\ faults < MaxFaults
    /\ faults' = faults + 1
    /\ interrupted' = IF At("bind") THEN interrupted \cup {Home} ELSE interrupted

\* A call fails, or compiling the worker's template does.
Fail ==
    /\ ~At("idle")
    /\ Abort
    /\ ReturnErr
    /\ UNCHANGED <<userVars, objects, cache>>

\* The manager stops at any point and starts again: it lists everything and
\* queues every service there is.
Crash ==
    /\ Abort
    /\ pass' = Idle
    /\ queue' = {s \in Services : Exists(s)}
    /\ tsSeen' = ts
    /\ deploySeen' = Deployments
    /\ podSeen' = [s \in Services |-> PodState(s)]
    /\ saSeen' = Accounts
    /\ UNCHANGED <<userVars, objects>>

-----------------------------------------------------------------------------

\* The steps of Reconcile after its first.
PassStep ==
    \/ AddFinalizer \/ CreateConfig \/ CreateNameless \/ UpdateConfig \/ restartPod
    \/ ListDeployments \/ AccountExists \/ CreateAccount \/ BindAccount \/ CreateDeployment

Observe ==
    \/ \E s \in Services : ObserveService(s) \/ ObserveDeployment(s) \/ ObservePod(s)
    \/ \E n \in Namespaces : ObserveAccount(n)

Next ==
    \/ \E s \in Services : Apply(s) \/ MarkDeleted(s) \/ Removed(s)
    \/ \E s \in Services : CollectConfig(s) \/ CollectDeployment(s) \/ PodStarts(s)
    \/ \E n \in Namespaces : CollectAccount(n)
    \/ Observe
    \/ Resync
    \/ \E s \in Services : Begin(s)
    \/ PassStep
    \/ AccountUnknown
    \/ Fail
    \/ Crash

Spec == Init /\ [][Next]_vars

\* The cluster and the informers make progress, a pass goes on, and the queue,
\* which is first in, first out, gives every service its turn.  Users need not
\* do anything.
FairSpec ==
    /\ Spec
    /\ \A s \in Services :
          /\ WF_vars(CollectConfig(s)) /\ WF_vars(CollectDeployment(s)) /\ WF_vars(PodStarts(s))
          /\ WF_vars(ObserveService(s)) /\ WF_vars(ObserveDeployment(s)) /\ WF_vars(ObservePod(s))
          /\ SF_vars(Begin(s))
    /\ \A n \in Namespaces : WF_vars(CollectAccount(n)) /\ WF_vars(ObserveAccount(n))
    /\ WF_vars(Resync)
    /\ WF_vars(PassStep)

-----------------------------------------------------------------------------
(* Properties *)

Generations == 0..MaxGeneration
Positions == {"finalizer", "config", "restart", "list", "roles", "bind", "bindUnknown",
              "deploy"}

\* The types of the objects, the cache and the pass.
TypeOK ==
    /\ generation \in [Services -> Generations]
    /\ ts \in [Services -> [uid : Generations, spec : Generations, deleting : BOOLEAN]]
    /\ cm \in [Services -> [uid : Generations, spec : Generations]]
    /\ deploy \in [Services -> Generations]
    /\ pod \in [Services -> Generations]
    /\ sa \in [Namespaces -> (Services \X Generations) \cup {Nobody, Installed}]
    /\ bound \subseteq Namespaces
    /\ tsSeen \in [Services -> [uid : Generations, spec : Generations, deleting : BOOLEAN]]
    /\ deploySeen \subseteq Services
    /\ podSeen \in [Services -> {"none", "current", "gone"}]
    /\ saSeen \subseteq Namespaces
    /\ queue \subseteq Services
    /\ \/ pass = Idle
       \/ pass \in [at : Positions, service : Services, uid : Generations, spec : Generations]
    /\ faults \in 0..MaxFaults
    /\ interrupted \subseteq Namespaces

\* createRoles binds the account it creates before createWorker creates the
\* deployment.  It does not come back to an account that exists, so the one way
\* to a worker without permissions is a pass that ended between the two.
UnboundOnlyAfterInterruption ==
    \A s \in Services : deploy[s] # 0 => Namespace[s] \in bound \cup interrupted

\* Whatever was in flight when a service was edited, deleted, created again or
\* retried, handleTriggerConfig never puts an older spec into a config map that
\* holds a newer one.  That a manager which restarts lists what is current is assumed:
\* a list from an API server that lags behind another could be older.
ConfigNeverGoesBack ==
    [][\A s \in Services : cm[s].uid # 0 /\ cm'[s].uid # 0 => cm[s].spec <= cm'[s].spec]_vars

\* Where the account was installed, a service that exists is served again and
\* again by a pod that was started with its current spec: edits, failures,
\* crashes, the collection of what an earlier service of that name left, and
\* outdated caches are made good by a later pass.
Served ==
    \A s \in Services :
        sa[Namespace[s]] = Installed =>
            []<>(Exists(s) /\ ~ts[s].deleting => pod[s] = ts[s].spec)
=============================================================================
