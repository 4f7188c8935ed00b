------------------------------- MODULE Sources -------------------------------
(***************************************************************************)
(* How a kube-trigger process gets from its configuration to running       *)
(* sources: run of pkg/cmd/cmd.go with the packages config and registry,   *)
(* and the set-up of the two builtin sources, the resource watcher and the *)
(* cronjob.                                                                *)
(*                                                                         *)
(* A trigger is known by its index in the list of triggers, and so is its  *)
(* event handler.                                                          *)
(***************************************************************************)
EXTENDS Integers, Sequences, FiniteSetsExt

CONSTANTS
    Keys,        \* identifiers of watcher configs: API version, kind, namespace, labels
    Clusters,    \* the clusters triggers may name
    Local,       \* defaultCluster
    Environments \* what processes are started with: the files of the configuration, the
                 \* flag multi-cluster-config-type, the clusters that have a secret

EventTypes == {"create", "update", "delete"}

\* A trigger: the type of its source and that source's properties, whether they can be
\* parsed and whether there is a definition for its action
Triggers == [source : {"resource-watcher", "cronjob", "unknown"}, key : Keys,
             events : SUBSET EventTypes, clusters : Seq(Clusters),
             parses : BOOLEAN, action : BOOLEAN]

Files == [supported : BOOLEAN, parses : BOOLEAN, triggers : Seq(Triggers)]

GetterTypes == {"cluster-gateway", "cluster-gateway-secret", "other"}

ASSUME SourcesAssumption ==
    /\ Local \in Clusters /\ "cron" \notin Keys
    /\ Environments \subseteq [dir : Seq(Files), getter : GetterTypes, secrets : SUBSET Clusters]

VARIABLES
    env,       \* the environment of the process
    stage,     \* how far run got: load, init, run, serving, or failed with an error
    conf,      \* the triggers
    next,      \* the trigger to initialize next
    configs,   \* of the watcher: the merged config of each key
    handlers,  \* of the watcher: the event handlers of each key
    cron,      \* the cronjob instance kept: its trigger, or 0
    toRun,     \* the instances that are still to be run
    started,   \* the controllers that were started: key, cluster, place in the config's list
    crons      \* the triggers whose cronjobs were started

sourceVars == <<env, stage, conf, next, configs, handlers, cron, toRun, started, crons>>

NoConfigs == [k \in {} |-> [events |-> {}, clusters |-> <<>>]]
NoHandlers == [k \in {} |-> <<>>]

SourcesInit ==
    /\ env \in Environments
    /\ stage = "load" /\ conf = <<>> /\ next = 1
    /\ configs = NoConfigs /\ handlers = NoHandlers /\ cron = 0
    /\ toRun = {} /\ started = {} /\ crons = {}

\* The process is started anew, in the same environment.
SourcesRestart ==
    /\ stage' = "load" /\ conf' = <<>> /\ next' = 1
    /\ configs' = NoConfigs /\ handlers' = NoHandlers /\ cron' = 0
    /\ toRun' = {} /\ started' = {} /\ crons' = {}
    /\ UNCHANGED env

-----------------------------------------------------------------------------
(* Reading the configuration *)

\* NewFromFileOrDir of a directory: files of other formats are skipped, and one that
\* cannot be parsed fails the whole.
Loads(files) == \A n \in DOMAIN files : files[n].supported => files[n].parses
AllTriggers(files) ==
    MapThenFoldSet(\o, <<>>, LAMBDA n : files[n].triggers, Min,
                   {n \in DOMAIN files : files[n].supported})

\* The registry of builtin sources
Registered(type) == type \in {"resource-watcher", "cronjob"}

Validate(triggers) ==
    /\ triggers # <<>>
    /\ \A n \in DOMAIN triggers : Registered(triggers[n].source) /\ triggers[n].action

LoadConfig ==
    /\ stage = "load"
    /\ IF Loads(env.dir) /\ Validate(AllTriggers(env.dir))
       THEN conf' = AllTriggers(env.dir) /\ stage' = "init"
       ELSE stage' = "failed" /\ UNCHANGED conf
    /\ UNCHANGED <<env, next, configs, handlers, cron, toRun, started, crons>>

-----------------------------------------------------------------------------
(* Initializing the sources *)

\* Mutant of Merge: the new config replaces the old one.
Merge_Replaces(c, new) == [events |-> new.events, clusters |-> new.clusters]

\* Merge of two watcher configs of one key: their labels are equal, their events are
\* united, and the clusters are those of the first.
Merge(c, new) == [events |-> c.events \cup new.events, clusters |-> c.clusters]

\* K8sResourceWatcher.Init, on the instance all watcher triggers share
WatcherInit(n) ==
    LET t == conf[n]
        seen == t.key \in DOMAIN configs
        config == IF seen THEN Merge(configs[t.key], t)
                  ELSE [events |-> t.events, clusters |-> t.clusters]
    IN  /\ configs' = [k \in DOMAIN configs \cup {t.key} |->
                          IF k = t.key THEN config ELSE configs[k]]
        /\ handlers' = [k \in DOMAIN handlers \cup {t.key} |->
                          IF k # t.key THEN handlers[k]
                          ELSE IF seen THEN Append(handlers[k], n) ELSE <<n>>]
        /\ UNCHANGED cron

\* CronJob.Init: the source is not a singleton, the instance is a new one and
\* takes the place of an earlier one in instances.
CronInit(n) ==
    /\ cron' = n
    /\ UNCHANGED <<configs, handlers>>

\* A trigger whose properties cannot be parsed is logged and skipped.
InitSource ==
    /\ stage = "init" /\ next <= Len(conf)
    /\ next' = next + 1
    /\ CASE ~conf[next].parses -> UNCHANGED <<configs, handlers, cron>>
         [] conf[next].parses /\ conf[next].source = "resource-watcher" -> WatcherInit(next)
         [] conf[next].parses /\ conf[next].source = "cronjob" -> CronInit(next)
    /\ UNCHANGED <<env, stage, conf, toRun, started, crons>>

AllInitialized ==
    /\ stage = "init" /\ next > Len(conf)
    /\ stage' = "run"
    /\ toRun' = DOMAIN configs \cup (IF cron = 0 THEN {} ELSE {"cron"})
    /\ UNCHANGED <<env, conf, next, configs, handlers, cron, started, crons>>

-----------------------------------------------------------------------------
(* Running the sources *)

ClustersOf(config) == IF config.clusters = <<>> THEN <<Local>> ELSE config.clusters

\* GetDynamicClientAndMapper of the getter that was chosen
Reachable(cluster) ==
    \/ env.getter = "cluster-gateway"
    \/ env.getter = "cluster-gateway-secret" /\ cluster \in env.secrets \cup {Local}

\* The indexes of the clusters that come before the first one there is no client for
Before(clusters) == {n \in DOMAIN clusters : \A m \in 1..n : Reachable(clusters[m])}

\* K8sResourceWatcher.Run for the next of its configs, which come in any order.  At the
\* first cluster without a client it returns, and leaves the other configs alone.  A
\* cluster that the list names twice gets two controllers.
WatcherRun(k) ==
    LET clusters == ClustersOf(configs[k])
    IN  /\ started' = started \cup {<<k, clusters[n], n>> : n \in Before(clusters)}
        /\ toRun' = IF Before(clusters) = DOMAIN clusters
                    THEN toRun \ {k} ELSE toRun \cap {"cron"}
        /\ UNCHANGED crons

\* The watcher runs all of its configs in one call, before or after the cronjob.
CronRun ==
    /\ toRun \ {"cron"} \in {{}, DOMAIN configs}
    /\ crons' = crons \cup {cron}
    /\ toRun' = toRun \ {"cron"}
    /\ UNCHANGED started

\* Instances are run one after the other, in any order; an error is logged.
RunSource ==
    /\ stage = "run"
    /\ \E i \in toRun : IF i = "cron" THEN CronRun ELSE WatcherRun(i)
    /\ UNCHANGED <<env, stage, conf, next, configs, handlers, cron>>

AllRun ==
    /\ stage = "run" /\ toRun = {}
    /\ stage' = "serving"
    /\ UNCHANGED <<env, conf, next, configs, handlers, cron, toRun, started, crons>>

run == LoadConfig \/ InitSource \/ AllInitialized \/ RunSource \/ AllRun

-----------------------------------------------------------------------------
(* What the configuration asks for, read off the list of triggers *)

Usable(k) == {n \in DOMAIN conf : /\ conf[n].source = "resource-watcher"
                                  /\ conf[n].parses /\ conf[n].key = k}
AskedEvents(k) == UNION {conf[n].events : n \in Usable(k)}
FirstClusters(k) == ClustersOf(conf[Min(Usable(k))])
InOrder(s) == \A m, n \in DOMAIN s : m < n => s[m] < s[n]
=============================================================================
