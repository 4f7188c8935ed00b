----------------------- MODULE ResourceWatcherProofs -----------------------
(***************************************************************************)
(* What a kube-trigger process makes of its configuration and of the       *)
(* objects it watches, for every configuration, every set of clusters and  *)
(* objects, and however often it is stopped, dies and starts again.        *)
(***************************************************************************)
EXTENDS ResourceWatcher, FiniteSetTheorems, TLAPS

(* The sources *)

\* run goes through its stages with the triggers it read.
Loaded ==
    /\ env \in Environments
    /\ stage \in {"load", "init", "run", "serving", "failed"}
    /\ conf \in Seq(Triggers) /\ Len(conf) <= MaxTriggers
    /\ \A n \in DOMAIN conf : Registered(conf[n].source) /\ ControllersOf(conf[n]) \subseteq Controllers
    /\ next \in 1..(Len(conf) + 1) /\ cron \in 0..(next - 1)
    /\ stage \in {"load", "failed"} => conf = <<>>
    /\ stage \in {"run", "serving"} => next = Len(conf) + 1

\* The usable triggers of a key that were initialized already
SoFar(k) == {n \in Usable(k) : n < next}

\* The watcher has what the triggers of a key initialized so far ask for.
AsAskedSoFar(k) ==
    /\ handlers[k] \in Seq(Nat) /\ handlers[k] # <<>> /\ Len(handlers[k]) < next
    /\ Range(handlers[k]) = SoFar(k) /\ InOrder(handlers[k])
    /\ configs[k].events = UNION {conf[n].events : n \in SoFar(k)}
    /\ configs[k].clusters = conf[handlers[k][1]].clusters

Prepared ==
    /\ DOMAIN handlers = DOMAIN configs /\ DOMAIN configs \subseteq Keys
    /\ \A k \in Keys : k \in DOMAIN configs <=> SoFar(k) # {}
    /\ \A k \in DOMAIN configs : AsAskedSoFar(k)

ClustersFor(k) == ClustersOf(configs[k])
Planned(k) == {<<k, ClustersFor(k)[n], n>> : n \in DOMAIN ClustersFor(k)}
AllReachable ==
    \A k \in DOMAIN configs : \A n \in DOMAIN ClustersFor(k) : Reachable(ClustersFor(k)[n])

\* The watcher has started what is no longer to be run, unless a cluster has no client.
Launched ==
    /\ stage \notin {"run", "serving"} => toRun = {} /\ started = {} /\ crons = {}
    /\ stage = "serving" => toRun = {}
    /\ toRun \subseteq DOMAIN configs \cup {"cron"} /\ ("cron" \in toRun => cron # 0)
    /\ crons \subseteq 1..Len(conf)
    /\ started \subseteq {c \in Controllers : c[1] \in DOMAIN configs /\ c \in Planned(c[1])}
    /\ stage \in {"run", "serving"} /\ AllReachable =>
          \A k \in DOMAIN configs \ toRun : Planned(k) \subseteq started

SourcesInv == Loaded /\ Prepared /\ Launched

\* Triggers are records, and their clusters sequences.
LEMMA TriggerType ==
    ASSUME Loaded, NEW n \in DOMAIN conf
    PROVE  /\ conf[n].key \in Keys /\ conf[n].clusters \in Seq(Clusters)
           /\ conf[n].source = "resource-watcher" \/ conf[n].source = "cronjob"
           /\ conf[n].parses \in BOOLEAN
<1>1. conf[n] \in Triggers
  BY DEF Loaded
<1>2. Registered(conf[n].source)
  BY Zenon DEF Loaded
<1>3. QED
  BY Zenon, <1>1, <1>2 DEF Triggers, Registered

\* A process that has not read its configuration has prepared nothing.
LEMMA SourcesInitInv == SourcesInit => SourcesInv
<1> SUFFICES ASSUME SourcesInit PROVE SourcesInv
  OBVIOUS
<1>1. /\ env \in Environments /\ stage = "load" /\ conf = <<>> /\ next = 1 /\ cron = 0
      /\ configs = NoConfigs /\ handlers = NoHandlers
      /\ toRun = {} /\ started = {} /\ crons = {}
  BY Zenon DEF SourcesInit
<1>2. conf \in Seq(Triggers) /\ Len(conf) = 0 /\ DOMAIN conf = {}
  BY <1>1
<1>3. DOMAIN configs = {} /\ DOMAIN handlers = {}
  BY Zenon, <1>1 DEF NoConfigs, NoHandlers
<1>4. Loaded
  BY <1>1, <1>2, WatcherAssumption DEF Loaded
<1>5. Prepared
  BY Zenon, <1>2, <1>3 DEF Prepared, SoFar, Usable
<1>6. Launched
  BY Zenon, <1>1, <1>3 DEF Launched
<1>7. QED
  BY Zenon, <1>4, <1>5, <1>6 DEF SourcesInv

\* A new process is like the first one.
LEMMA SourcesRestartInv == ASSUME SourcesInv, SourcesRestart PROVE SourcesInv'
<1>1. SourcesInit'
  BY Zenon DEF SourcesRestart, SourcesInit, SourcesInv, Loaded
<1>2. QED
  BY <1>1, SourcesInitInv, PTL

\* LoadConfig takes the triggers of the files, or fails.
LEMMA LoadConfigInv == ASSUME SourcesInv, LoadConfig PROVE SourcesInv'
<1>1. /\ UNCHANGED <<env, next, configs, handlers, cron, toRun, started, crons>>
      /\ stage = "load" /\ conf = <<>>
  BY Zenon DEF LoadConfig, SourcesInv, Loaded
<1>2. next = 1 /\ cron = 0 /\ DOMAIN conf = {}
  BY <1>1 DEF SourcesInv, Loaded
<1>3. DOMAIN configs = {} /\ DOMAIN handlers = {}
  <2>1. \A k : SoFar(k) = {}
    BY Zenon, <1>2 DEF SoFar, Usable
  <2>2. QED
    BY Zenon, <2>1 DEF SourcesInv, Prepared
<1>4. toRun = {} /\ started = {} /\ crons = {}
  BY Zenon, <1>1 DEF SourcesInv, Launched
<1>5. Loaded'
  <2>1. CASE conf' = AllTriggers(env.dir) /\ stage' = "init" /\ Validate(AllTriggers(env.dir))
    <3>1. /\ conf' \in Seq(Triggers) /\ Len(conf') <= MaxTriggers
          /\ \A n \in DOMAIN conf' : ControllersOf(conf'[n]) \subseteq Controllers
      BY Zenon, <2>1, TriggersAssumption DEF SourcesInv, Loaded
    <3>2. \A n \in DOMAIN conf' : Registered(conf'[n].source)
      BY Zenon, <2>1 DEF Validate
    <3>3. next' \in 1..(Len(conf') + 1) /\ cron' \in 0..(next' - 1)
      BY <1>1, <1>2, <3>1
    <3>4. QED
      BY Zenon, <2>1, <3>1, <3>2, <3>3, <1>1 DEF SourcesInv, Loaded
  <2>2. CASE stage' = "failed" /\ UNCHANGED conf
    BY Zenon, <2>2, <1>1 DEF SourcesInv, Loaded
  <2>3. QED
    BY Zenon, <2>1, <2>2 DEF LoadConfig
<1>6. Prepared'
  <2>1. \A k : SoFar(k)' = {}
    <3>1. DOMAIN conf' = 1..Len(conf') /\ next' = 1
      BY <1>1, <1>2, <1>5 DEF Loaded
    <3>2. QED
      BY <3>1 DEF SoFar, Usable
  <2>2. QED
    BY Zenon, <2>1, <1>1, <1>3 DEF Prepared
<1>7. Launched'
  <2>1. stage' \notin {"run", "serving"}
    BY Zenon DEF LoadConfig
  <2>2. QED
    BY Zenon, <2>1, <1>1, <1>3, <1>4 DEF Launched
<1>8. QED
  BY Zenon, <1>5, <1>6, <1>7 DEF SourcesInv

\* How the triggers initialized grow by one.
LEMMA SoFarGrows ==
    ASSUME Loaded, InitSource
    PROVE  /\ next \in DOMAIN conf
           /\ \A k : next \in Usable(k) => SoFar(k)' = SoFar(k) \cup {next}
           /\ \A k : next \notin Usable(k) => SoFar(k)' = SoFar(k)
           /\ \A k : \A n \in SoFar(k) : n \in Nat /\ n < next
<1>1. conf' = conf /\ next' = next + 1 /\ next <= Len(conf)
  BY Zenon DEF InitSource
<1>2. DOMAIN conf = 1..Len(conf) /\ Len(conf) \in Nat /\ next \in Nat /\ next >= 1
  BY DEF Loaded
<1>3. next \in DOMAIN conf
  BY <1>1, <1>2
<1>4. ASSUME NEW k PROVE /\ next \in Usable(k) => SoFar(k)' = SoFar(k) \cup {next}
                         /\ next \notin Usable(k) => SoFar(k)' = SoFar(k)
                         /\ \A n \in SoFar(k) : n \in Nat /\ n < next
  <2>1. Usable(k)' = Usable(k) /\ Usable(k) \subseteq DOMAIN conf
    BY Zenon, <1>1 DEF Usable
  <2>2. QED
    BY <2>1, <1>1, <1>2 DEF SoFar
<1>5. QED
  BY Zenon, <1>3, <1>4

\* A trigger that is not the watcher's, or that does not parse, changes nothing for it.
LEMMA InitOtherInv ==
    ASSUME SourcesInv, InitSource, UNCHANGED <<configs, handlers>>,
           ~conf[next].parses \/ conf[next].source # "resource-watcher"
    PROVE  Prepared'
<1>1. conf' = conf /\ next' = next + 1 /\ next \in Int
  BY DEF InitSource, SourcesInv, Loaded
<1>2. \A k : SoFar(k)' = SoFar(k)
  <2>1. \A k : next \notin Usable(k)
    BY Zenon DEF Usable
  <2>2. QED
    BY Zenon, <2>1, SoFarGrows DEF SourcesInv
<1>3. ASSUME NEW k \in DOMAIN configs PROVE AsAskedSoFar(k)'
  <2>1. AsAskedSoFar(k)
    BY Zenon DEF SourcesInv, Prepared
  <2>2. Len(handlers[k]) < next'
    BY <2>1, <1>1 DEF AsAskedSoFar
  <2>3. QED
    BY Zenon, <2>1, <2>2, <1>1, <1>2 DEF AsAskedSoFar
<1>4. QED
  BY Zenon, <1>1, <1>2, <1>3 DEF SourcesInv, Prepared

\* The handler of a new trigger comes after those of the earlier ones.
LEMMA AppendHandler ==
    ASSUME NEW S, S \subseteq Nat, NEW s \in Seq(S), s # <<>>, InOrder(s), NEW n \in S,
           \A m \in Range(s) : m < n
    PROVE  /\ Append(s, n) \in Seq(S) /\ Append(s, n) # <<>> /\ Len(Append(s, n)) = Len(s) + 1
           /\ Range(Append(s, n)) = Range(s) \cup {n} /\ InOrder(Append(s, n))
           /\ Append(s, n)[1] = s[1]
<1> DEFINE r == Append(s, n)
<1>1. /\ r \in Seq(S) /\ Len(r) = Len(s) + 1 /\ Len(s) \in Nat /\ Len(s) >= 1
      /\ \A m \in 1..Len(s) : r[m] = s[m]
      /\ r[Len(r)] = n
  OBVIOUS
<1> HIDE DEF r
<1>2. DOMAIN s = 1..Len(s) /\ DOMAIN r = 1..Len(r)
  BY <1>1
<1>3. Range(r) = Range(s) \cup {n}
  BY <1>1, <1>2 DEF Range
<1>4. \A m \in 1..Len(s) : s[m] < n
  BY Zenon, <1>2 DEF Range
<1>5. InOrder(r)
  BY <1>1, <1>2, <1>4 DEF InOrder
<1>6. r # <<>> /\ r[1] = s[1]
  BY <1>1
<1>7. QED
  BY Zenon, <1>1, <1>3, <1>5, <1>6 DEF r

\* One handler is in order.
LEMMA OneHandler ==
    ASSUME NEW n \in Nat
    PROVE  /\ <<n>> \in Seq(Nat) /\ <<n>> # <<>> /\ Len(<<n>>) = 1 /\ <<n>>[1] = n
           /\ Range(<<n>>) = {n} /\ InOrder(<<n>>)
BY DEF Range, InOrder

\* WatcherInit adds the trigger to its key.
LEMMA WatcherInitInv ==
    ASSUME SourcesInv, InitSource, conf[next].parses, conf[next].source = "resource-watcher",
           WatcherInit(next)
    PROVE  Prepared'
<1>1. conf' = conf /\ next' = next + 1 /\ next \in Nat
  BY DEF InitSource, SourcesInv, Loaded
<1>2. PICK key \in Keys : key = conf[next].key
  BY Zenon, SoFarGrows, TriggerType DEF SourcesInv
<1>3. /\ DOMAIN handlers = DOMAIN configs /\ DOMAIN configs \subseteq Keys
      /\ \A k \in Keys : k \in DOMAIN configs <=> SoFar(k) # {}
  BY Zenon DEF SourcesInv, Prepared
<1>4. /\ SoFar(key)' = SoFar(key) \cup {next}
      /\ \A k : k # key => SoFar(k)' = SoFar(k)
      /\ \A n \in SoFar(key) : n \in Nat /\ n < next
  <2>1. next \in Usable(key) /\ \A k : k # key => next \notin Usable(k)
    BY Zenon, <1>2, SoFarGrows DEF SourcesInv, Usable
  <2>2. QED
    BY Zenon, <2>1, SoFarGrows DEF SourcesInv
<1>5. /\ DOMAIN configs' = DOMAIN configs \cup {key}
      /\ DOMAIN handlers' = DOMAIN configs \cup {key}
      /\ \A k \in DOMAIN configs : k # key => configs'[k] = configs[k] /\ handlers'[k] = handlers[k]
  BY Zenon, <1>2, <1>3 DEF WatcherInit
<1>6. \A k \in Keys : k \in DOMAIN configs' <=> SoFar(k)' # {}
  BY Zenon, <1>3, <1>4, <1>5
<1>7. ASSUME NEW k \in DOMAIN configs, k # key PROVE AsAskedSoFar(k)'
  <2>1. AsAskedSoFar(k)
    BY Zenon DEF SourcesInv, Prepared
  <2>2. Len(handlers[k]) < next'
    BY <2>1, <1>1 DEF AsAskedSoFar
  <2>3. SoFar(k)' = SoFar(k) /\ configs'[k] = configs[k] /\ handlers'[k] = handlers[k]
    BY Zenon, <1>4, <1>5, <1>7
  <2>4. QED
    BY <2>1, <2>2, <2>3, <1>1 DEF AsAskedSoFar
<1>8. ASSUME key \in DOMAIN configs PROVE AsAskedSoFar(key)'
  <2>1. /\ handlers[key] \in Seq(Nat) /\ handlers[key] # <<>> /\ Len(handlers[key]) < next
        /\ Range(handlers[key]) = SoFar(key) /\ InOrder(handlers[key])
        /\ configs[key].events = UNION {conf[n].events : n \in SoFar(key)}
        /\ configs[key].clusters = conf[handlers[key][1]].clusters
    BY Zenon, <1>8 DEF SourcesInv, Prepared, AsAskedSoFar
  <2>2. /\ configs'[key] = Merge(configs[key], conf[next])
        /\ handlers'[key] = Append(handlers[key], next)
    BY Zenon, <1>2, <1>3, <1>8 DEF WatcherInit
  <2>3. \A m \in Range(handlers[key]) : m < next
    BY Zenon, <2>1, <1>4
  <2>4. /\ handlers'[key] \in Seq(Nat) /\ handlers'[key] # <<>>
        /\ Len(handlers'[key]) = Len(handlers[key]) + 1
        /\ Range(handlers'[key]) = SoFar(key)' /\ InOrder(handlers'[key])
        /\ handlers'[key][1] = handlers[key][1]
    <3>1. Nat \subseteq Nat
      BY Zenon
    <3>2. PICK h \in Seq(Nat) : h = handlers[key]
      BY Zenon, <2>1
    <3>3. h # <<>> /\ InOrder(h) /\ next \in Nat /\ \A m \in Range(h) : m < next
      BY Zenon, <3>2, <2>1, <2>3, <1>1
    <3>4. /\ Append(h, next) \in Seq(Nat) /\ Append(h, next) # <<>>
          /\ Len(Append(h, next)) = Len(h) + 1 /\ InOrder(Append(h, next))
          /\ Range(Append(h, next)) = Range(h) \cup {next} /\ Append(h, next)[1] = h[1]
      BY <3>1, <3>3, AppendHandler
    <3>5. QED
      BY Zenon, <3>2, <3>4, <2>1, <2>2, <1>4
  <2>5. Len(handlers'[key]) < next'
    BY <2>1, <2>4, <1>1
  <2>6. configs'[key].events = UNION {conf[n].events : n \in SoFar(key)'}
    <3>1. configs'[key].events = configs[key].events \cup conf[next].events
      BY <2>2 DEF Merge
    <3>2. QED
      BY <3>1, <2>1, <1>4
  <2>7. configs'[key].clusters = conf[handlers'[key][1]].clusters
    BY <2>1, <2>2, <2>4 DEF Merge
  <2>8. QED
    BY Zenon, <2>4, <2>5, <2>6, <2>7, <1>1 DEF AsAskedSoFar
<1>9. ASSUME key \notin DOMAIN configs PROVE AsAskedSoFar(key)'
  <2>1. /\ configs'[key] = [events |-> conf[next].events, clusters |-> conf[next].clusters]
        /\ handlers'[key] = <<next>>
    BY Zenon, <1>2, <1>3, <1>9 DEF WatcherInit
  <2>2. SoFar(key)' = {next}
    BY Zenon, <1>2, <1>3, <1>4, <1>9
  <2>3. /\ handlers'[key] \in Seq(Nat) /\ handlers'[key] # <<>>
        /\ Len(handlers'[key]) = 1 /\ handlers'[key][1] = next
        /\ Range(handlers'[key]) = SoFar(key)' /\ InOrder(handlers'[key])
    BY Zenon, <2>1, <2>2, <1>1, OneHandler
  <2>4. Len(handlers'[key]) < next'
    BY <2>3, <1>1 DEF SourcesInv, Loaded
  <2>5. configs'[key].events = UNION {conf[n].events : n \in SoFar(key)'}
    BY <2>1, <2>2
  <2>6. configs'[key].clusters = conf[handlers'[key][1]].clusters
    BY <2>1, <2>3
  <2>7. QED
    BY Zenon, <2>3, <2>4, <2>5, <2>6, <1>1 DEF AsAskedSoFar
<1>10. QED
  BY Zenon, <1>2, <1>3, <1>5, <1>6, <1>7, <1>8, <1>9 DEF Prepared

\* InitSource prepares what the next trigger asks for.
LEMMA InitSourceInv == ASSUME SourcesInv, InitSource PROVE SourcesInv'
<1>1. /\ UNCHANGED <<env, stage, conf, toRun, started, crons>> /\ next' = next + 1
      /\ stage = "init" /\ next <= Len(conf)
  BY Zenon DEF InitSource
<1>2. next \in DOMAIN conf
  BY Zenon, SoFarGrows DEF SourcesInv
<1>3. /\ conf[next].source = "resource-watcher" \/ conf[next].source = "cronjob"
      /\ conf[next].parses \in BOOLEAN
  BY Zenon, <1>2, TriggerType DEF SourcesInv
<1>4. Prepared' /\ (cron' = cron \/ cron' = next)
  <2>1. CASE ~conf[next].parses
    <3>1. UNCHANGED <<configs, handlers, cron>>
      BY Zenon, <2>1 DEF InitSource
    <3>2. QED
      BY Zenon, <2>1, <3>1, InitOtherInv
  <2>2. CASE conf[next].parses /\ conf[next].source = "resource-watcher"
    <3>1. WatcherInit(next)
      BY Zenon, <2>2 DEF InitSource
    <3>2. QED
      BY Zenon, <2>2, <3>1, WatcherInitInv DEF WatcherInit
  <2>3. CASE conf[next].parses /\ conf[next].source = "cronjob"
    <3>1. CronInit(next)
      BY Zenon, <2>3 DEF InitSource
    <3>2. QED
      BY Zenon, <2>3, <3>1, InitOtherInv DEF CronInit
  <2>4. QED
    BY Zenon, <2>1, <2>2, <2>3, <1>3
<1>5. Loaded'
  <2>1. next' \in 1..(Len(conf) + 1) /\ cron' \in 0..(next' - 1)
    BY <1>1, <1>4 DEF SourcesInv, Loaded
  <2>2. QED
    BY Zenon, <2>1, <1>1 DEF SourcesInv, Loaded
<1>6. Launched'
  BY Zenon, <1>1 DEF SourcesInv, Launched
<1>7. QED
  BY Zenon, <1>4, <1>5, <1>6 DEF SourcesInv

\* What prepares and launches nothing needs no more than the same variables.
LEMMA PreparedKept ==
    ASSUME Prepared, UNCHANGED <<conf, next, configs, handlers>>
    PROVE  Prepared'
<1>1. \A k : SoFar(k)' = SoFar(k)
  BY Zenon DEF SoFar, Usable
<1>2. \A k : AsAskedSoFar(k) => AsAskedSoFar(k)'
  BY Zenon, <1>1 DEF AsAskedSoFar
<1>3. QED
  BY Zenon, <1>1, <1>2 DEF Prepared

\* All sources of the watcher, and the one cronjob that was kept, are to be run.
LEMMA AllInitializedInv == ASSUME SourcesInv, AllInitialized PROVE SourcesInv'
<1>1. /\ UNCHANGED <<env, conf, next, configs, handlers, cron, started, crons>>
      /\ stage = "init" /\ stage' = "run" /\ next > Len(conf)
      /\ toRun' = DOMAIN configs \cup (IF cron = 0 THEN {} ELSE {"cron"})
  BY Zenon DEF AllInitialized
<1>2. Loaded'
  <2>1. next = Len(conf) + 1
    BY <1>1 DEF SourcesInv, Loaded
  <2>2. QED
    BY Zenon, <2>1, <1>1 DEF SourcesInv, Loaded
<1>3. Prepared'
  BY Zenon, <1>1, PreparedKept DEF SourcesInv
<1>4. Launched'
  <2>1. "cron" \notin DOMAIN configs
    BY Zenon, SourcesAssumption DEF SourcesInv, Prepared
  <2>2. /\ toRun' \subseteq DOMAIN configs \cup {"cron"} /\ DOMAIN configs \subseteq toRun'
        /\ "cron" \in toRun' => cron # 0
    BY Zenon, <2>1, <1>1
  <2>3. started' = {} /\ crons' = {}
    BY Zenon, <1>1 DEF SourcesInv, Launched
  <2>4. QED
    BY Zenon, <2>2, <2>3, <1>1 DEF Launched
<1>5. QED
  BY Zenon, <1>2, <1>3, <1>4 DEF SourcesInv

\* The clusters of a config that was prepared are clusters, and what they ask for
\* are controllers.
LEMMA ClustersType ==
    ASSUME SourcesInv, NEW k \in DOMAIN configs
    PROVE  ClustersFor(k) \in Seq(Clusters) /\ Planned(k) \subseteq Controllers
<1>1. AsAskedSoFar(k)
  BY Zenon DEF SourcesInv, Prepared
<1>2. handlers[k][1] \in DOMAIN conf /\ conf[handlers[k][1]].key = k
  <2>1. handlers[k] \in Seq(Nat) /\ handlers[k] # <<>> /\ Range(handlers[k]) = SoFar(k)
    BY Zenon, <1>1 DEF AsAskedSoFar
  <2>2. 1 \in DOMAIN handlers[k]
    BY <2>1
  <2>3. handlers[k][1] \in SoFar(k)
    BY Zenon, <2>1, <2>2 DEF Range
  <2>4. QED
    BY Zenon, <2>3 DEF SoFar, Usable
<1>3. configs[k].clusters \in Seq(Clusters)
  BY Zenon, <1>1, <1>2, TriggerType DEF AsAskedSoFar, SourcesInv
<1>4. <<Local>> \in Seq(Clusters)
  BY SourcesAssumption
<1>5. Planned(k) = ControllersOf(conf[handlers[k][1]])
  BY Zenon, <1>1, <1>2 DEF Planned, ClustersFor, ControllersOf, ClustersOf, AsAskedSoFar
<1>6. Planned(k) \subseteq Controllers
  BY Zenon, <1>2, <1>5 DEF SourcesInv, Loaded
<1>7. QED
  BY Zenon, <1>3, <1>4, <1>6 DEF ClustersFor, ClustersOf

\* The controllers started so far are those of the configs that were run.
LEMMA WatcherRunInv ==
    ASSUME SourcesInv, RunSource, NEW k \in toRun, k # "cron", WatcherRun(k)
    PROVE  Launched'
<1> DEFINE clusters == ClustersFor(k)
           new == {<<k, clusters[n], n>> : n \in Before(clusters)}
<1>1. /\ UNCHANGED <<env, stage, conf, next, configs, handlers, cron, crons>>
      /\ stage = "run" /\ started' = started \cup new
      /\ toRun' = IF Before(clusters) = DOMAIN clusters
                  THEN toRun \ {k} ELSE toRun \cap {"cron"}
  BY Zenon DEF RunSource, WatcherRun, ClustersFor
<1>2. k \in DOMAIN configs /\ k \in Keys
  BY Zenon DEF SourcesInv, Launched, Prepared
<1>3. clusters \in Seq(Clusters) /\ Planned(k) \subseteq Controllers
  BY Zenon, <1>2, ClustersType
<1>4. Before(clusters) \subseteq DOMAIN clusters
  BY Zenon DEF Before
<1>5. new \subseteq Planned(k) /\ (Before(clusters) = DOMAIN clusters => new = Planned(k))
  BY Zenon, <1>4 DEF Planned
<1>6. \A c \in Planned(k) : c[1] = k
  BY DEF Planned
<1>7. ASSUME AllReachable PROVE Before(clusters) = DOMAIN clusters
  <2>1. \A n \in DOMAIN clusters : 1..n \subseteq DOMAIN clusters
    BY <1>3
  <2>2. \A n \in DOMAIN clusters : n \in Before(clusters)
    BY Zenon, <2>1, <1>2, <1>7 DEF Before, AllReachable
  <2>3. QED
    BY Zenon, <2>2, <1>4
<1> HIDE DEF clusters, new
<1>8. /\ toRun' \subseteq toRun /\ (Before(clusters) = DOMAIN clusters => toRun \subseteq toRun' \cup {k})
  BY Zenon, <1>1
<1>9. /\ ~(stage' \notin {"run", "serving"}) /\ stage' # "serving"
      /\ toRun' \subseteq DOMAIN configs' \cup {"cron"} /\ ("cron" \in toRun' => cron' # 0)
      /\ crons' \subseteq 1..Len(conf')
  BY Zenon, <1>1, <1>8 DEF SourcesInv, Launched
<1>10. (\A j : Planned(j)' = Planned(j)) /\ (AllReachable' <=> AllReachable)
  BY Zenon, <1>1 DEF Planned, ClustersFor, AllReachable, Reachable
<1>11. started' \subseteq {c \in Controllers : c[1] \in DOMAIN configs' /\ c \in Planned(c[1])'}
  BY Zenon, <1>1, <1>2, <1>3, <1>5, <1>6, <1>10 DEF SourcesInv, Launched
<1>12. ASSUME AllReachable PROVE \A j \in DOMAIN configs \ toRun' : Planned(j) \subseteq started'
  <2>1. \A j \in DOMAIN configs \ toRun : Planned(j) \subseteq started
    BY Zenon, <1>12, <1>1 DEF SourcesInv, Launched
  <2>2. toRun \subseteq toRun' \cup {k} /\ Planned(k) \subseteq started'
    BY Zenon, <1>1, <1>5, <1>7, <1>8, <1>12
  <2>3. QED
    BY Zenon, <2>1, <2>2, <1>1
<1>13. QED
  BY Zenon, <1>1, <1>9, <1>10, <1>11, <1>12 DEF Launched

\* The cronjob is run next to them.
LEMMA CronRunInv ==
    ASSUME SourcesInv, RunSource, "cron" \in toRun, CronRun
    PROVE  Launched'
<1>1. /\ UNCHANGED <<env, stage, conf, next, configs, handlers, cron, started>>
      /\ stage = "run" /\ crons' = crons \cup {cron} /\ toRun' = toRun \ {"cron"}
  BY Zenon DEF RunSource, CronRun
<1>2. cron \in 1..Len(conf)
  <2>1. cron # 0
    BY Zenon DEF SourcesInv, Launched
  <2>2. QED
    BY <2>1 DEF SourcesInv, Loaded
<1>3. "cron" \notin DOMAIN configs
  BY Zenon, SourcesAssumption DEF SourcesInv, Prepared
<1>4. DOMAIN configs \ toRun' = DOMAIN configs \ toRun
  BY Zenon, <1>1, <1>3
<1>5. (\A j : Planned(j)' = Planned(j)) /\ (AllReachable' <=> AllReachable)
  BY Zenon, <1>1 DEF Planned, ClustersFor, AllReachable, Reachable
<1>6. crons' \subseteq 1..Len(conf)
  BY Zenon, <1>1, <1>2 DEF SourcesInv, Launched
<1>7. toRun' \subseteq DOMAIN configs \cup {"cron"} /\ "cron" \notin toRun'
  BY Zenon, <1>1 DEF SourcesInv, Launched
<1>8. QED
  BY Zenon, <1>1, <1>4, <1>5, <1>6, <1>7 DEF SourcesInv, Launched

\* Running the sources one by one, and serving once all were run
LEMMA RunSourcesInv == ASSUME SourcesInv, RunSource \/ AllRun PROVE SourcesInv'
<1>1. /\ UNCHANGED <<env, conf, next, configs, handlers, cron>>
      /\ stage = "run" /\ stage' \in {"run", "serving"}
  BY Zenon DEF RunSource, AllRun
<1>2. Loaded'
  BY Zenon, <1>1 DEF SourcesInv, Loaded
<1>3. Prepared'
  BY Zenon, <1>1, PreparedKept DEF SourcesInv
<1>4. CASE RunSource
  <2>1. PICK i \in toRun : IF i = "cron" THEN CronRun ELSE WatcherRun(i)
    BY Zenon, <1>4 DEF RunSource
  <2>2. Launched'
    BY Zenon, <2>1, <1>4, WatcherRunInv, CronRunInv
  <2>3. QED
    BY Zenon, <2>2, <1>2, <1>3 DEF SourcesInv
<1>5. CASE AllRun
  <2>1. stage' = "serving" /\ toRun = {} /\ UNCHANGED <<toRun, started, crons>>
    BY Zenon, <1>5 DEF AllRun
  <2>2. (\A j : Planned(j)' = Planned(j)) /\ (AllReachable' <=> AllReachable)
    BY Zenon, <1>1 DEF Planned, ClustersFor, AllReachable, Reachable
  <2>3. Launched'
    BY Zenon, <2>1, <2>2, <1>1 DEF SourcesInv, Launched
  <2>4. QED
    BY Zenon, <2>3, <1>2, <1>3 DEF SourcesInv
<1>6. QED
  BY Zenon, <1>4, <1>5

\* run keeps the invariant of the sources.  It starts controllers, and changes no
\* handlers once there are some.
LEMMA runInv ==
    ASSUME SourcesInv, run
    PROVE  /\ SourcesInv' /\ started \subseteq started'
           /\ started = {} \/ handlers' = handlers
<1>1. SourcesInv'
  BY Zenon, LoadConfigInv, InitSourceInv, AllInitializedInv, RunSourcesInv DEF run
<1>2. started \subseteq started'
  BY Zenon DEF run, LoadConfig, InitSource, AllInitialized, RunSource, AllRun, WatcherRun, CronRun
<1>3. stage # "init" => handlers' = handlers
  BY Zenon DEF run, LoadConfig, InitSource, AllInitialized, RunSource, AllRun
<1>4. stage = "init" => started = {}
  BY Zenon DEF SourcesInv, Launched
<1>5. QED
  BY Zenon, <1>1, <1>2, <1>3, <1>4

\* Variables of the sources that do not change
LEMMA SourcesKept == ASSUME SourcesInv, UNCHANGED sourceVars PROVE SourcesInv'
<1>1. UNCHANGED <<env, stage, conf, next, configs, handlers, cron, toRun, started, crons>>
  BY Zenon DEF sourceVars
<1>2. Loaded'
  BY Zenon, <1>1 DEF SourcesInv, Loaded
<1>3. Prepared'
  BY Zenon, <1>1, PreparedKept DEF SourcesInv
<1>4. Launched'
  <2>1. (\A j : Planned(j)' = Planned(j)) /\ (AllReachable' <=> AllReachable)
    BY Zenon, <1>1 DEF Planned, ClustersFor, AllReachable, Reachable
  <2>2. QED
    BY Zenon, <2>1, <1>1 DEF SourcesInv, Launched
<1>5. QED
  BY Zenon, <1>2, <1>3, <1>4 DEF SourcesInv

\* The handler called first is that of the first usable trigger.
LEMMA FirstHandler ==
    ASSUME NEW s \in Seq(Nat), s # <<>>, InOrder(s)
    PROVE  s[1] = Min(Range(s))
<1> DEFINE R == Range(s)
<1>1. Len(s) \in Nat /\ Len(s) >= 1 /\ DOMAIN s = 1..Len(s) /\ \A n \in DOMAIN s : s[n] \in Nat
  OBVIOUS
<1>2. s[1] \in R /\ \A y \in R : s[1] <= y
  BY <1>1 DEF Range, InOrder
<1>3. \A y \in R : y \in Nat
  BY Zenon, <1>1 DEF Range
<1> HIDE DEF R
<1>4. Min(R) \in R /\ \A y \in R : Min(R) <= y
  BY Zenon, <1>2 DEF Min
<1>5. s[1] = Min(R)
  BY <1>2, <1>3, <1>4
<1>6. QED
  BY <1>5 DEF R

\* When all triggers are initialized, the watcher has what the configuration asks for.
LEMMA SetUp == SourcesInv => SetUpAsAsked
<1> SUFFICES ASSUME SourcesInv PROVE SetUpAsAsked
  OBVIOUS
<1> DEFINE asked == UNION {ControllersOf(conf[Min(Usable(k))]) : k \in {k \in Keys : Usable(k) # {}}}
<1>1. ASSUME stage \in {"run", "serving"}
      PROVE  \A k \in Keys :
                /\ k \in DOMAIN configs <=> Usable(k) # {}
                /\ k \in DOMAIN configs =>
                      /\ Range(handlers[k]) = Usable(k) /\ InOrder(handlers[k])
                      /\ configs[k].events = AskedEvents(k)
                      /\ ClustersFor(k) = FirstClusters(k)
                      /\ Planned(k) = ControllersOf(conf[Min(Usable(k))])
  <2>1. \A k : SoFar(k) = Usable(k)
    <3>1. next = Len(conf) + 1 /\ conf \in Seq(Triggers)
      BY Zenon, <1>1 DEF SourcesInv, Loaded
    <3>2. \A n \in DOMAIN conf : n < next
      BY <3>1
    <3>3. QED
      BY Zenon, <3>2 DEF SoFar, Usable
  <2>2. ASSUME NEW k \in DOMAIN configs
        PROVE  /\ ClustersFor(k) = FirstClusters(k)
               /\ Planned(k) = ControllersOf(conf[Min(Usable(k))])
    <3>1. /\ handlers[k] \in Seq(Nat) /\ handlers[k] # <<>> /\ InOrder(handlers[k])
          /\ Range(handlers[k]) = Usable(k)
          /\ configs[k].clusters = conf[handlers[k][1]].clusters
      BY Zenon, <2>1 DEF SourcesInv, Prepared, AsAskedSoFar
    <3>2. handlers[k][1] = Min(Usable(k))
      BY Zenon, <3>1, FirstHandler
    <3>3. conf[handlers[k][1]].key = k
      <4>1. 1 \in DOMAIN handlers[k]
        BY <3>1
      <4>2. QED
        BY Zenon, <4>1, <3>1 DEF Range, Usable
    <3>4. ClustersFor(k) = ClustersOf(conf[Min(Usable(k))])
      BY Zenon, <3>1, <3>2 DEF ClustersFor, ClustersOf
    <3>5. QED
      BY Zenon, <3>2, <3>3, <3>4 DEF Planned, FirstClusters, ControllersOf
  <2>3. QED
    BY Zenon, <2>1, <2>2 DEF SourcesInv, Prepared, AsAskedSoFar, AskedEvents
<1>2. ASSUME stage = "serving"
      PROVE  started \subseteq asked /\ ((\A c \in asked : Reachable(c[2])) => started = asked)
  <2>1. DOMAIN configs \subseteq Keys
    BY Zenon DEF SourcesInv, Prepared
  <2>2. asked = UNION {Planned(k) : k \in DOMAIN configs}
    BY Zenon, <2>1, <1>1, <1>2
  <2> HIDE DEF asked
  <2>3. started \subseteq asked
    BY Zenon, <2>2 DEF SourcesInv, Launched
  <2>4. ASSUME \A c \in asked : Reachable(c[2]) PROVE asked \subseteq started
    <3>1. AllReachable
      <4> SUFFICES ASSUME NEW k \in DOMAIN configs, NEW n \in DOMAIN ClustersFor(k)
                   PROVE  Reachable(ClustersFor(k)[n])
        BY Zenon DEF AllReachable
      <4>1. PICK c \in Planned(k) : c = <<k, ClustersFor(k)[n], n>>
        BY Zenon DEF Planned
      <4>2. c[2] = ClustersFor(k)[n]
        BY <4>1
      <4>3. QED
        BY Zenon, <4>2, <2>2, <2>4
    <3>2. \A k \in DOMAIN configs \ toRun : Planned(k) \subseteq started
      BY Zenon, <3>1, <1>2 DEF SourcesInv, Launched
    <3>3. toRun = {}
      BY Zenon, <1>2 DEF SourcesInv, Launched
    <3>4. QED
      BY Zenon, <3>2, <3>3, <2>2
  <2>5. QED
    BY Zenon, <2>3, <2>4
<1>3. QED
  BY Zenon, <1>1, <1>2 DEF SetUpAsAsked, ClustersFor

-----------------------------------------------------------------------------
(* The controllers *)

Events == [type : EventTypes, obj : Objects]

\* No controller started after the time the last one took.
Clocks ==
    /\ now \in Nat /\ serverStartTime \in Nat /\ serverStartTime <= now
    /\ life \in [Objects -> {"none", "live", "gone"}]
    /\ born \in [Objects -> Nat] /\ \A o \in Objects : born[o] <= now
    /\ startedAt \in [Controllers -> Nat]
    /\ \A c \in Controllers : startedAt[c] <= serverStartTime

ControllerTypes ==
    /\ informer \in [Controllers -> {"off", "listing", "watching", "expired", "stopped"}]
    /\ cache \in [Controllers -> SUBSET Objects]
    /\ queue \in [Controllers -> Seq(Events)]
    /\ current \in [Controllers -> Events \cup {NoEvent}]
    /\ turn \in [Controllers -> Nat]
    /\ creates \in [Controllers \X TriggerIndex \X Objects -> Nat]
    /\ last \in [Controllers \X TriggerIndex \X Objects -> EventTypes \cup {"none"}]

\* The objects of a controller
Mine(c) == {o \in Objects : Watches(c, o)}

\* The events of a controller that handlers are still to be called with
Pending(c) == {e \in Range(queue[c]) \cup {current[c]} : e # NoEvent}

\* A controller that was not started or has not listed yet has nothing, and a worker
\* is with one of the handlers of its key while it has an event.
Working(c) ==
    /\ informer[c] # "off" => c \in started
    /\ informer[c] \in {"off", "listing"} =>
          queue[c] = <<>> /\ current[c] = NoEvent /\ cache[c] = {}
    /\ current[c] = NoEvent => turn[c] = 0
    /\ current[c] # NoEvent => turn[c] \in 1..Len(handlers[c[1]])

\* Caches and events are of the controller's own objects, which exist, and of the
\* deletion of an object only when it is gone.
OwnOnly(c) ==
    /\ \A o \in cache[c] : o \in Mine(c) /\ life[o] # "none"
    /\ \A e \in Pending(c) : /\ e.obj \in Mine(c) /\ life[e.obj] # "none"
                             /\ e.type = "delete" => life[e.obj] = "gone"

\* Event e may come before event f.
MayPrecede(e, f) == e.obj = f.obj => e.type # "delete" /\ f.type # "create"

\* Events of an object are queued in the order of its life.
Sorted(q) == \A m, n \in DOMAIN q : m < n => MayPrecede(q[m], q[n])

InSequence(c) ==
    /\ Sorted(queue[c])
    /\ current[c] # NoEvent => \A e \in Range(queue[c]) : MayPrecede(current[c], e)

Untold(c, o) == \A t \in TriggerIndex : last[<<c, t, o>>] = "none"

\* Nobody was told of o, or is about to be.
Unheard(c, o) == Untold(c, o) /\ \A e \in Pending(c) : e.obj # o

\* Objects that do not exist yet, and those the informer has still to find out about
Unknown(c) ==
    /\ \A o \in Mine(c) : life[o] = "none" => Unheard(c, o)
    /\ informer[c] = "watching" => Live(c) \subseteq cache[c]
    /\ informer[c] = "expired" => \A o \in Live(c) \ cache[c] : Unheard(c, o)

\* What an earlier process told of an object, a new one does not tell again: the object
\* is older than its controllers.
ToldBefore(c) ==
    informer[c] = "listing" => \A o \in Mine(c) : born[o] > startedAt[c] => Untold(c, o)

\* Nobody has heard of an object whose creation is queued and recent, and the handlers
\* that are still to be called with the current one have not.
Fresh(c) ==
    /\ \A e \in Range(queue[c]) :
          e.type = "create" /\ born[e.obj] > startedAt[c] => Untold(c, e.obj)
    /\ current[c].type = "create" =>
          /\ born[current[c].obj] > startedAt[c]
          /\ \A n \in turn[c]..Len(handlers[c[1]]) :
                last[<<c, handlers[c[1]][n], current[c].obj>>] = "none"

\* After the deletion of an object there is nothing to be told of it.
Final(c) ==
    \A o \in Mine(c), t \in TriggerIndex : last[<<c, t, o>>] = "delete" =>
        /\ life[o] = "gone"
        /\ \A e \in Range(queue[c]) : e.obj # o
        /\ current[c] # NoEvent /\ current[c].obj = o => current[c].type = "delete"

ControllerInv(c) ==
    /\ Working(c) /\ OwnOnly(c) /\ InSequence(c) /\ Unknown(c) /\ ToldBefore(c)
    /\ Fresh(c) /\ Final(c)

\* A trigger that was told of nothing was told of no creation, and of one at most.
Counted == \A p \in Controllers \X TriggerIndex \X Objects :
              creates[p] <= 1 /\ (last[p] = "none" => creates[p] = 0)

Inv == /\ SourcesInv /\ Clocks /\ ControllerTypes /\ Counted
       /\ \A c \in Controllers : ControllerInv(c)

\* An event is none but NoEvent, and its parts are what it was made of.
LEMMA EventFacts ==
    /\ NoEvent.type = "none" /\ NoEvent \notin Events
    /\ \A type \in EventTypes, o \in Objects :
          /\ Event(type, o) \in Events /\ Event(type, o) # NoEvent
          /\ Event(type, o).type = type /\ Event(type, o).obj = o
<1>1. NoEvent.type = "none"
  BY DEF NoEvent
<1>2. \A e \in Events : e.type # "none"
  BY DEF Events, EventTypes
<1>3. \A type \in EventTypes, o \in Objects :
          Event(type, o) \in Events /\ Event(type, o).type = type /\ Event(type, o).obj = o
  BY DEF Event, Events
<1>4. QED
  BY Zenon, <1>1, <1>2, <1>3

\* A worker takes the first event.
LEMMA TakeEvent ==
    ASSUME NEW S, NEW q \in Seq(S), q # <<>>, Sorted(q)
    PROVE  /\ Tail(q) \in Seq(S) /\ Head(q) \in S /\ Sorted(Tail(q))
           /\ Range(q) = Range(Tail(q)) \cup {Head(q)}
           /\ \A e \in Range(Tail(q)) : MayPrecede(Head(q), e)
<1> DEFINE r == Tail(q)
<1>1. /\ r \in Seq(S) /\ Len(r) = Len(q) - 1 /\ Len(q) >= 1 /\ Len(q) \in Nat
      /\ \A n \in 1..Len(r) : r[n] = q[n + 1]
      /\ Head(q) = q[1] /\ q[1] \in S
  OBVIOUS
<1>2. DOMAIN q = 1..Len(q) /\ DOMAIN r = 1..Len(r)
  BY <1>1
<1> HIDE DEF r
<1>3. Range(r) \subseteq Range(q) /\ q[1] \in Range(q)
  <2>1. 1 \in 1..Len(q) /\ \A n \in 1..Len(r) : n + 1 \in 1..Len(q)
    BY <1>1
  <2>2. q[1] \in Range(q)
    BY Zenon, <2>1, <1>2 DEF Range
  <2>3. ASSUME NEW n \in 1..Len(r) PROVE r[n] \in Range(q)
    <3>1. n + 1 \in DOMAIN q /\ r[n] = q[n + 1]
      BY Zenon, <2>1, <1>1, <1>2
    <3>2. QED
      BY Zenon, <3>1 DEF Range
  <2>4. QED
    BY Zenon, <2>2, <2>3, <1>2 DEF Range
<1>4. ASSUME NEW n \in 1..Len(q), n # 1 PROVE q[n] \in Range(r)
  <2>1. n - 1 \in 1..Len(r) /\ r[n - 1] = q[n]
    BY <1>1, <1>4
  <2>2. QED
    BY Zenon, <2>1, <1>2 DEF Range
<1>5. Range(q) \subseteq Range(r) \cup {q[1]}
  BY Zenon, <1>2, <1>4 DEF Range
<1>6. Sorted(r)
  <2>1. ASSUME NEW m \in 1..Len(r), NEW n \in 1..Len(r), m < n PROVE MayPrecede(r[m], r[n])
    <3>1. m + 1 \in 1..Len(q) /\ n + 1 \in 1..Len(q) /\ m + 1 < n + 1
      BY <2>1, <1>1
    <3>2. QED
      BY Zenon, <3>1, <1>1, <1>2 DEF Sorted
  <2>2. QED
    BY Zenon, <2>1, <1>2 DEF Sorted
<1>7. \A n \in 1..Len(r) : MayPrecede(q[1], r[n])
  BY <1>1, <1>2 DEF Sorted
<1>8. \A e \in Range(r) : MayPrecede(q[1], e)
  BY Zenon, <1>2, <1>7 DEF Range
<1>9. QED
  BY <1>1, <1>3, <1>5, <1>6, <1>8 DEF r

\* A callback queues a list of one.
LEMMA AppendIsConcat ==
    ASSUME NEW S, NEW q \in Seq(S), NEW e \in S
    PROVE  Append(q, e) = q \o <<e>>
  OBVIOUS

\* A list adds several events at once.
LEMMA ConcatEvents ==
    ASSUME NEW S, NEW q \in Seq(S), NEW r \in Seq(S), Sorted(q), Sorted(r),
           \A x \in Range(q), y \in Range(r) : MayPrecede(x, y)
    PROVE  /\ q \o r \in Seq(S) /\ Range(q \o r) = Range(q) \cup Range(r)
           /\ Sorted(q \o r)
<1> DEFINE s == q \o r
<1>1. /\ s \in Seq(S) /\ Len(s) = Len(q) + Len(r) /\ Len(q) \in Nat /\ Len(r) \in Nat
      /\ \A n \in 1..Len(q) : s[n] = q[n]
      /\ \A n \in 1..Len(r) : s[Len(q) + n] = r[n]
  OBVIOUS
<1> HIDE DEF s
<1>2. DOMAIN q = 1..Len(q) /\ DOMAIN r = 1..Len(r) /\ DOMAIN s = 1..Len(s)
  BY <1>1
<1>3. \A n \in DOMAIN s : \/ n \in DOMAIN q /\ s[n] = q[n]
                          \/ n > Len(q) /\ n - Len(q) \in DOMAIN r /\ s[n] = r[n - Len(q)]
  <2> SUFFICES ASSUME NEW n \in DOMAIN s, n \notin DOMAIN q
               PROVE  n > Len(q) /\ n - Len(q) \in DOMAIN r /\ s[n] = r[n - Len(q)]
    BY <1>1, <1>2
  <2>1. n > Len(q) /\ n - Len(q) \in 1..Len(r) /\ n = Len(q) + (n - Len(q))
    BY <1>1, <1>2
  <2>2. QED
    BY <2>1, <1>1, <1>2
<1>4. Range(s) \subseteq Range(q) \cup Range(r)
  BY Zenon, <1>3 DEF Range
<1>5. Range(q) \subseteq Range(s)
  BY <1>1, <1>2 DEF Range
<1>6. Range(r) \subseteq Range(s)
  <2> SUFFICES ASSUME NEW n \in 1..Len(r) PROVE r[n] \in Range(s)
    BY Zenon, <1>2 DEF Range
  <2>1. Len(q) + n \in 1..Len(s) /\ s[Len(q) + n] = r[n]
    BY <1>1
  <2>2. QED
    BY Zenon, <2>1, <1>2 DEF Range
<1>7. \A m \in DOMAIN q, n \in DOMAIN r : MayPrecede(q[m], r[n])
  BY Zenon DEF Range
<1>8. ASSUME NEW m \in DOMAIN s, NEW n \in DOMAIN s, m < n PROVE MayPrecede(s[m], s[n])
  <2>1. CASE n \in DOMAIN q
    <3>1. m \in DOMAIN q /\ s[m] = q[m] /\ s[n] = q[n]
      BY <2>1, <1>8, <1>1, <1>2
    <3>2. QED
      BY Zenon, <3>1, <2>1, <1>8 DEF Sorted
  <2>2. CASE n \notin DOMAIN q /\ m \in DOMAIN q
    BY Zenon, <2>2, <1>3, <1>1, <1>2, <1>7
  <2>3. CASE n \notin DOMAIN q /\ m \notin DOMAIN q
    <3>1. /\ m - Len(q) \in DOMAIN r /\ s[m] = r[m - Len(q)]
          /\ n - Len(q) \in DOMAIN r /\ s[n] = r[n - Len(q)]
      BY Zenon, <2>3, <1>3
    <3>2. m - Len(q) < n - Len(q)
      BY <1>8, <1>1, <1>2
    <3>3. QED
      BY Zenon, <3>1, <3>2 DEF Sorted
  <2>4. QED
    BY Zenon, <2>1, <2>2, <2>3
<1>9. Sorted(s)
  BY Zenon, <1>8 DEF Sorted
<1>10. QED
  BY <1>1, <1>4, <1>5, <1>6, <1>9 DEF s

\* The events of a list are about the objects listed, each of them once.
LEMMA EventsForFacts ==
    ASSUME NEW type \in EventTypes, NEW objs \in SUBSET Objects
    PROVE  /\ EventsFor(type, objs) \in Seq(Events) /\ Sorted(EventsFor(type, objs))
           /\ \A e \in Range(EventsFor(type, objs)) :
                 e \in Events /\ e.type = type /\ e.obj \in objs
<1> DEFINE s == Listing(objs)
           r == EventsFor(type, objs)
<1>1. IsFiniteSet(objs)
  BY Zenon, FS_Subset, WatcherAssumption
<1>2. Cardinality(objs) \in Nat /\ ExistsBijection(1..Cardinality(objs), objs)
  BY Zenon, <1>1, FS_CardinalityType
<1>3. \E f \in Injection(1..Cardinality(objs), objs) : TRUE
  BY Zenon, <1>2 DEF ExistsBijection, Bijection
<1>4. s \in [1..Cardinality(objs) -> objs] /\ IsInjective(s)
  BY Zenon, <1>3 DEF Listing, Injection
<1>5. r = [n \in DOMAIN s |-> Event(type, s[n])]
  BY Zenon DEF EventsFor
<1> HIDE DEF s, r
<1>6. DOMAIN r = 1..Cardinality(objs) /\ \A n \in DOMAIN r : r[n] = Event(type, s[n]) /\ s[n] \in objs
  BY Zenon, <1>4, <1>5
<1>7. \A n \in DOMAIN r : r[n] \in Events /\ r[n].type = type /\ r[n].obj = s[n]
  <2> SUFFICES ASSUME NEW n \in DOMAIN r
               PROVE  r[n] \in Events /\ r[n].type = type /\ r[n].obj = s[n]
    OBVIOUS
  <2>1. PICK o \in Objects : o = s[n]
    BY Zenon, <1>6
  <2>2. QED
    BY <2>1, <1>6, EventFacts
<1>8. r \in Seq(Events)
  <2>1. r \in [1..Cardinality(objs) -> Events]
    BY Zenon, <1>5, <1>6, <1>7
  <2>2. QED
    BY <2>1, <1>2
<1>9. \A m, n \in DOMAIN r : m # n => r[m].obj # r[n].obj
  BY Zenon, <1>4, <1>6, <1>7 DEF IsInjective
<1>10. \A m, n \in DOMAIN r : m < n => m # n
  BY <1>2, <1>6
<1>11. Sorted(r)
  BY Zenon, <1>9, <1>10 DEF Sorted, MayPrecede
<1>12. \A e \in Range(r) : e \in Events /\ e.type = type /\ e.obj \in objs
  BY Zenon, <1>6, <1>7 DEF Range
<1>13. QED
  BY <1>8, <1>11, <1>12 DEF r

\* A controller that has nothing yet: it was not started, or it is about to list
Empty(c) ==
    /\ informer[c] \in {"off", "listing"} /\ (informer[c] # "off" => c \in started)
    /\ queue[c] = <<>> /\ current[c] = NoEvent /\ cache[c] = {} /\ turn[c] = 0
    /\ \A o \in Mine(c) : life[o] = "none" => Untold(c, o)
    /\ \A o \in Mine(c), t \in TriggerIndex : last[<<c, t, o>>] = "delete" => life[o] = "gone"
    /\ ToldBefore(c)

\* Such a controller satisfies the invariant.
LEMMA EmptyController == \A c \in Controllers : Empty(c) => ControllerInv(c)
<1> SUFFICES ASSUME NEW c \in Controllers, Empty(c) PROVE ControllerInv(c)
  OBVIOUS
<1>1. DOMAIN queue[c] = {} /\ Range(queue[c]) = {}
  BY DEF Empty, Range
<1>2. Pending(c) = {}
  BY Zenon, <1>1 DEF Empty, Pending
<1>3. Working(c)
  BY Zenon DEF Empty, Working
<1>4. OwnOnly(c)
  BY Zenon, <1>2 DEF Empty, OwnOnly
<1>5. InSequence(c)
  BY Zenon, <1>1 DEF Empty, InSequence, Sorted
<1>6. Unknown(c) /\ ToldBefore(c)
  BY Zenon, <1>2 DEF Empty, Unknown, Unheard
<1>7. Fresh(c)
  BY Zenon, <1>1, EventFacts DEF Empty, Fresh
<1>8. Final(c)
  BY Zenon, <1>1 DEF Empty, Final
<1>9. QED
  BY Zenon, <1>3, <1>4, <1>5, <1>6, <1>7, <1>8 DEF ControllerInv

\* So does it after a step.
LEMMA EmptyNext == (\A c \in Controllers : Empty(c) => ControllerInv(c))'
  BY EmptyController, PTL

\* What a step leaves alone: the state of a controller but for its informer, what was
\* told of its objects, the handlers it is at, the objects themselves
SameEvents(c) == /\ queue'[c] = queue[c] /\ current'[c] = current[c] /\ turn'[c] = turn[c]
                 /\ startedAt'[c] = startedAt[c]
SameTold(c) == \A o \in Mine(c), t \in TriggerIndex : last'[<<c, t, o>>] = last[<<c, t, o>>]
SameHandlers(c) == /\ started \subseteq started'
                   /\ current[c] = NoEvent \/ handlers'[c[1]] = handlers[c[1]]
SameObjects(c) == \A o \in Mine(c) : life'[o] = life[o] /\ born'[o] = born[o]

\* The handlers of a controller that was started are those of triggers, in order.
LEMMA HandlerFacts ==
    ASSUME SourcesInv, NEW c \in started
    PROVE  /\ handlers[c[1]] \in Seq(Nat) /\ handlers[c[1]] # <<>> /\ InOrder(handlers[c[1]])
           /\ Len(handlers[c[1]]) <= Len(conf)
           /\ \A n \in 1..Len(handlers[c[1]]) : handlers[c[1]][n] \in TriggerIndex
<1>1. c[1] \in DOMAIN configs
  BY Zenon DEF SourcesInv, Launched
<1>2. /\ handlers[c[1]] \in Seq(Nat) /\ handlers[c[1]] # <<>> /\ InOrder(handlers[c[1]])
      /\ Len(handlers[c[1]]) < next /\ Range(handlers[c[1]]) = SoFar(c[1])
  BY Zenon, <1>1 DEF SourcesInv, Prepared, AsAskedSoFar
<1>3. \A n \in 1..Len(handlers[c[1]]) : handlers[c[1]][n] \in DOMAIN conf
  <2>1. DOMAIN handlers[c[1]] = 1..Len(handlers[c[1]])
    BY <1>2
  <2>2. QED
    BY Zenon, <2>1, <1>2 DEF Range, SoFar, Usable
<1>4. conf \in Seq(Triggers) /\ Len(conf) <= MaxTriggers /\ next <= Len(conf) + 1 /\ next \in Int
  BY DEF SourcesInv, Loaded
<1>5. DOMAIN conf \subseteq TriggerIndex /\ Len(handlers[c[1]]) <= Len(conf)
  BY <1>2, <1>4, WatcherAssumption DEF TriggerIndex
<1>6. QED
  BY Zenon, <1>2, <1>3, <1>5

\* A worker that has an event is with a handler of its key.
LEMMA TurnFacts ==
    ASSUME SourcesInv, NEW c \in Controllers, Working(c), current[c] # NoEvent
    PROVE  /\ c \in started /\ informer[c] \notin {"off", "listing"}
           /\ turn[c] \in 1..Len(handlers[c[1]]) /\ Len(handlers[c[1]]) \in Nat
           /\ \A n \in turn[c]..Len(handlers[c[1]]) : handlers[c[1]][n] \in TriggerIndex
<1>1. c \in started /\ informer[c] \notin {"off", "listing"} /\ turn[c] \in 1..Len(handlers[c[1]])
  BY Zenon DEF Working
<1>2. Len(handlers[c[1]]) \in Nat
  BY <1>1, HandlerFacts
<1>3. turn[c]..Len(handlers[c[1]]) \subseteq 1..Len(handlers[c[1]])
  BY <1>1, <1>2
<1>4. QED
  BY Zenon, <1>1, <1>2, <1>3, HandlerFacts

\* Another controller's steps, and those of the sources, do not matter to it.
LEMMA ControllerKept ==
    ASSUME SourcesInv, NEW c \in Controllers, ControllerInv(c), SameEvents(c), SameTold(c),
           SameHandlers(c), SameObjects(c),
           cache'[c] = cache[c], informer'[c] = informer[c]
    PROVE  ControllerInv(c)'
<1>1. Pending(c)' = Pending(c) /\ Range(queue'[c]) = Range(queue[c])
  BY Zenon DEF Pending, SameEvents
<1>2. \A o \in Mine(c) : (Untold(c, o)' <=> Untold(c, o)) /\ (Unheard(c, o)' <=> Unheard(c, o))
  BY Zenon, <1>1 DEF Untold, Unheard, SameTold
<1>3. Working(c)'
  BY Zenon DEF ControllerInv, Working, SameEvents, SameHandlers
<1>4. OwnOnly(c)'
  BY Zenon, <1>1 DEF ControllerInv, OwnOnly, SameObjects, Mine
<1>5. InSequence(c)'
  BY Zenon, <1>1 DEF ControllerInv, InSequence, SameEvents
<1>6. Unknown(c)' /\ ToldBefore(c)'
  <2>1. Live(c)' = Live(c) /\ Live(c) \subseteq Mine(c)
    BY Zenon DEF Live, SameObjects, Mine
  <2>2. Unknown(c)'
    BY Zenon, <2>1, <1>2 DEF ControllerInv, Unknown, SameObjects, Mine
  <2>3. ToldBefore(c)'
    BY Zenon, <1>2 DEF ControllerInv, ToldBefore, SameObjects, SameEvents, Mine
  <2>4. QED
    BY Zenon, <2>2, <2>3
<1>7. \A e \in Range(queue[c]) : e \in Pending(c) \/ e = NoEvent
  BY Zenon DEF Pending
<1>8. Fresh(c)'
  <2>1. ASSUME NEW e \in Range(queue[c]), e.type = "create", born'[e.obj] > startedAt[c]
        PROVE  Untold(c, e.obj)'
    <3>1. e.obj \in Mine(c)
      BY Zenon, <2>1, <1>7, EventFacts DEF ControllerInv, OwnOnly
    <3>2. QED
      BY Zenon, <2>1, <3>1, <1>2 DEF ControllerInv, Fresh, SameObjects
  <2>2. ASSUME current[c].type = "create"
        PROVE  /\ born'[current[c].obj] > startedAt[c]
               /\ \A n \in turn[c]..Len(handlers'[c[1]]) :
                     last'[<<c, handlers'[c[1]][n], current[c].obj>>] = "none"
    <3>1. current[c] \in Pending(c) /\ handlers'[c[1]] = handlers[c[1]]
      BY Zenon, <2>2, EventFacts DEF Pending, SameHandlers
    <3>2. current[c].obj \in Mine(c)
      BY Zenon, <3>1 DEF ControllerInv, OwnOnly
    <3>3. \A n \in turn[c]..Len(handlers[c[1]]) : handlers[c[1]][n] \in TriggerIndex
      BY Zenon, <2>2, EventFacts, TurnFacts DEF ControllerInv
    <3>4. /\ born[current[c].obj] > startedAt[c]
          /\ \A n \in turn[c]..Len(handlers[c[1]]) :
                last[<<c, handlers[c[1]][n], current[c].obj>>] = "none"
      BY Zenon, <2>2 DEF ControllerInv, Fresh
    <3>5. /\ born'[current[c].obj] = born[current[c].obj]
          /\ \A t \in TriggerIndex : last'[<<c, t, current[c].obj>>] = last[<<c, t, current[c].obj>>]
      BY Zenon, <3>2 DEF SameObjects, SameTold
    <3>6. QED
      BY Zenon, <3>1, <3>3, <3>4, <3>5
  <2>3. QED
    BY Zenon, <2>1, <2>2, <1>1 DEF Fresh, SameEvents
<1>9. Final(c)'
  <2> SUFFICES ASSUME NEW o \in Mine(c), NEW t \in TriggerIndex, last'[<<c, t, o>>] = "delete"
               PROVE  /\ life'[o] = "gone" /\ \A e \in Range(queue'[c]) : e.obj # o
                      /\ current'[c] # NoEvent /\ current'[c].obj = o => current'[c].type = "delete"
    BY Zenon DEF Final, Mine
  <2>1. last[<<c, t, o>>] = "delete" /\ life'[o] = life[o]
    BY Zenon DEF SameTold, SameObjects
  <2>2. QED
    BY Zenon, <2>1, <1>1 DEF ControllerInv, Final, SameEvents
<1>10. QED
  BY Zenon, <1>3, <1>4, <1>5, <1>6, <1>8, <1>9 DEF ControllerInv

-----------------------------------------------------------------------------
(* The steps of the process *)

\* A process that was just started, with no objects yet
LEMMA InitInv == Init => Inv
<1> SUFFICES ASSUME Init PROVE Inv
  OBVIOUS
<1>1. SourcesInv
  BY Zenon, SourcesInitInv DEF Init
<1>2. Clocks
  BY DEF Init, Clocks
<1>3. ControllerTypes
  <2>1. <<>> \in Seq(Events) /\ 0 \in Nat
    OBVIOUS
  <2>2. QED
    BY Zenon, <2>1 DEF Init, ControllerTypes
<1>4. Counted
  BY DEF Init, Counted
<1>5. ASSUME NEW c \in Controllers PROVE Empty(c)
  <2>1. \A o \in Objects, t \in TriggerIndex : last[<<c, t, o>>] = "none"
    BY DEF Init
  <2>2. \A o \in Mine(c), t \in TriggerIndex : last[<<c, t, o>>] = "none"
    BY Zenon, <2>1 DEF Mine
  <2>3. QED
    BY Zenon, <2>2 DEF Init, Empty, ToldBefore, Untold
<1>6. QED
  BY Zenon, <1>1, <1>2, <1>3, <1>4, <1>5, EmptyController DEF Inv

\* Time, the start of a container and steps of the sources leave the controllers alone.
LEMMA QuietInv ==
    ASSUME Inv, SourcesInv', started \subseteq started', started = {} \/ handlers' = handlers,
           now' \in Nat, now <= now', UNCHANGED <<life, born, controllerVars, history>>
    PROVE  Inv'
<1>1. Clocks'
  <2>1. now \in Nat /\ serverStartTime \in Nat /\ serverStartTime <= now
        /\ \A o \in Objects : born[o] \in Nat /\ born[o] <= now
    BY DEF Inv, Clocks
  <2>2. serverStartTime <= now' /\ \A o \in Objects : born[o] <= now'
    BY <2>1
  <2>3. QED
    BY Zenon, <2>2 DEF Inv, Clocks, controllerVars
<1>2. ControllerTypes' /\ Counted'
  BY Zenon DEF Inv, ControllerTypes, Counted, controllerVars, history
<1>3. ASSUME NEW c \in Controllers PROVE ControllerInv(c)'
  <2>1. /\ ControllerInv(c) /\ SameEvents(c) /\ SameTold(c) /\ SameObjects(c)
        /\ cache'[c] = cache[c] /\ informer'[c] = informer[c]
    BY Zenon DEF Inv, SameEvents, SameTold, SameObjects, controllerVars, history
  <2>2. SameHandlers(c)
    <3>1. started = {} => current[c] = NoEvent
      BY Zenon, <2>1, TurnFacts DEF Inv, ControllerInv
    <3>2. QED
      BY Zenon, <3>1 DEF SameHandlers
  <2>3. QED
    BY Zenon, <2>1, <2>2, ControllerKept DEF Inv
<1>4. QED
  BY Zenon, <1>1, <1>2, <1>3 DEF Inv

\* Start, Boot and Tick
LEMMA StartInv == ASSUME Inv, Start \/ Boot \/ Tick PROVE Inv'
<1>1. CASE Start
  <2>1. SourcesInv' /\ started \subseteq started' /\ (started = {} \/ handlers' = handlers)
    BY Zenon, <1>1, runInv DEF Start, Inv
  <2>2. now' \in Nat /\ now <= now'
    BY <1>1 DEF Start, objectVars, Inv, Clocks
  <2>3. QED
    BY Zenon, <2>1, <2>2, <1>1, QuietInv DEF Start, objectVars
<1>2. CASE Boot
  <2>1. SourcesInv' /\ started \subseteq started' /\ handlers' = handlers
    BY Zenon, <1>2, SourcesKept DEF Boot, Inv, sourceVars
  <2>2. now' \in Nat /\ now <= now'
    BY <1>2 DEF Boot, objectVars, Inv, Clocks
  <2>3. QED
    BY Zenon, <2>1, <2>2, <1>2, QuietInv DEF Boot, objectVars
<1>3. CASE Tick
  <2>1. SourcesInv' /\ started \subseteq started' /\ handlers' = handlers
    BY Zenon, <1>3, SourcesKept DEF Tick, Inv, sourceVars
  <2>2. now' \in Nat /\ now <= now'
    BY <1>3 DEF Tick, Inv, Clocks
  <2>3. QED
    BY Zenon, <2>1, <2>2, <1>3, QuietInv DEF Tick
<1>4. QED
  BY Zenon, <1>1, <1>2, <1>3

\* What handlers were told of objects outlives the process.
LEMMA DieInv == ASSUME Inv, Die PROVE Inv'
<1>1. /\ UNCHANGED <<now, life, born, creates, last>> /\ serverStartTime' = 0
      /\ informer' = [c \in Controllers |-> "off"] /\ cache' = [c \in Controllers |-> {}]
      /\ queue' = [c \in Controllers |-> <<>>] /\ current' = [c \in Controllers |-> NoEvent]
      /\ turn' = [c \in Controllers |-> 0] /\ startedAt' = [c \in Controllers |-> 0]
  BY Zenon DEF Die, objectVars, history
<1>2. SourcesInv'
  BY Zenon, SourcesRestartInv DEF Die, Inv
<1>3. Clocks'
  BY <1>1 DEF Inv, Clocks
<1>4. ControllerTypes' /\ Counted'
  <2>1. <<>> \in Seq(Events) /\ 0 \in Nat
    OBVIOUS
  <2>2. QED
    BY Zenon, <2>1, <1>1 DEF Inv, ControllerTypes, Counted
<1>5. ASSUME NEW c \in Controllers PROVE Empty(c)'
  <2>1. \A o \in Mine(c) : life[o] = "none" => Untold(c, o)
    BY Zenon DEF Inv, ControllerInv, Unknown, Unheard
  <2>2. \A o \in Mine(c), t \in TriggerIndex : last[<<c, t, o>>] = "delete" => life[o] = "gone"
    BY Zenon DEF Inv, ControllerInv, Final
  <2>3. \A o : Untold(c, o)' <=> Untold(c, o)
    BY Zenon, <1>1 DEF Untold
  <2>4. /\ informer'[c] = "off" /\ cache'[c] = {} /\ queue'[c] = <<>>
        /\ current'[c] = NoEvent /\ turn'[c] = 0
    BY Zenon, <1>1
  <2>5. QED
    BY Zenon, <2>1, <2>2, <2>3, <2>4, <1>1 DEF Empty, ToldBefore, Mine
<1>6. QED
  BY Zenon, <1>2, <1>3, <1>4, <1>5, EmptyNext DEF Inv

\* An informer that stops, or whose watch expires, tells nothing.
LEMMA InformerKept ==
    ASSUME Inv, NEW c \in Controllers, informer[c] # "off",
           informer'[c] = "stopped" \/ (informer[c] = "watching" /\ informer'[c] = "expired"),
           UNCHANGED <<sourceVars, life, born, serverStartTime, cache, queue, current, turn,
                       startedAt, history>>
    PROVE  ControllerInv(c)'
<1>1. ControllerInv(c) /\ UNCHANGED <<started, handlers, last>>
  BY Zenon DEF Inv, sourceVars, history
<1>2. Pending(c)' = Pending(c) /\ Range(queue'[c]) = Range(queue[c])
  BY Zenon DEF Pending
<1>3. \A o : (Untold(c, o)' <=> Untold(c, o)) /\ (Unheard(c, o)' <=> Unheard(c, o))
  BY Zenon, <1>1, <1>2 DEF Untold, Unheard
<1>4. Working(c)'
  BY Zenon, <1>1 DEF ControllerInv, Working
<1>5. OwnOnly(c)' /\ InSequence(c)'
  BY Zenon, <1>1, <1>2 DEF ControllerInv, OwnOnly, InSequence, Mine
<1>6. Unknown(c)' /\ ToldBefore(c)'
  <2>1. Live(c)' = Live(c)
    BY Zenon DEF Live
  <2>2. informer'[c] = "expired" => Live(c) \ cache[c] = {}
    BY Zenon, <1>1 DEF ControllerInv, Unknown
  <2>3. QED
    BY Zenon, <2>1, <2>2, <1>1, <1>3 DEF ControllerInv, Unknown, ToldBefore, Mine
<1>7. Fresh(c)' /\ Final(c)'
  BY Zenon, <1>1, <1>2, <1>3 DEF ControllerInv, Fresh, Final, Mine
<1>8. QED
  BY Zenon, <1>4, <1>5, <1>6, <1>7 DEF ControllerInv

\* The context is done, or a watch expires.
LEMMA StopInv == ASSUME Inv, Stop \/ \E c \in Controllers : WatchExpires(c) PROVE Inv'
<1>1. UNCHANGED <<sourceVars, now, life, born, serverStartTime, cache, queue, current, turn,
                  startedAt, history>>
  BY Zenon DEF Stop, WatchExpires, objectVars
<1>2. SourcesInv' /\ Clocks' /\ Counted'
  BY Zenon, <1>1, SourcesKept DEF Inv, Clocks, Counted, history
<1>3. informer \in [Controllers -> {"off", "listing", "watching", "expired", "stopped"}]
  BY Zenon DEF Inv, ControllerTypes
<1>4. /\ informer' \in [Controllers -> {"off", "listing", "watching", "expired", "stopped"}]
      /\ \A c \in Controllers :
            \/ informer'[c] = informer[c]
            \/ informer[c] # "off" /\ informer'[c] = "stopped"
            \/ informer[c] = "watching" /\ informer'[c] = "expired"
  BY Zenon, <1>3 DEF Stop, WatchExpires
<1>5. ControllerTypes'
  BY Zenon, <1>1, <1>4 DEF Inv, ControllerTypes, history
<1>6. ASSUME NEW c \in Controllers PROVE ControllerInv(c)'
  <2>1. /\ SameEvents(c) /\ SameTold(c) /\ SameObjects(c) /\ SameHandlers(c)
        /\ cache'[c] = cache[c] /\ ControllerInv(c) /\ SourcesInv
    BY Zenon, <1>1
       DEF Inv, SameEvents, SameTold, SameObjects, SameHandlers, sourceVars, history
  <2>2. CASE informer'[c] = informer[c]
    BY Zenon, <2>1, <2>2, ControllerKept
  <2>3. CASE informer[c] # "off" /\ (informer'[c] = "stopped" \/ (informer[c] = "watching" /\ informer'[c] = "expired"))
    BY Zenon, <2>3, <1>1, InformerKept
  <2>4. QED
    BY Zenon, <2>2, <2>3, <1>4
<1>7. QED
  BY Zenon, <1>2, <1>5, <1>6 DEF Inv

-----------------------------------------------------------------------------
(* The steps of a controller and of its objects *)

\* An object is created once and deleted once.
ObjectsAge(c) ==
    \A o \in Mine(c) : life[o] # "none" =>
        born'[o] = born[o] /\ life'[o] # "none" /\ (life[o] = "gone" => life'[o] = "gone")

\* An event r of the informer may be queued: it is about an object of the controller
\* that was not gone before, and comes after what is pending.
MayQueue(c, r) ==
    /\ r.obj \in Mine(c) /\ life[r.obj] # "gone" /\ life'[r.obj] # "none"
    /\ r.type = "delete" => life'[r.obj] = "gone"
    /\ r.type = "create" /\ born'[r.obj] > startedAt[c] => Untold(c, r.obj)
    /\ \A e \in Pending(c) : MayPrecede(e, r)

\* What is queued is pending.
LEMMA PendingFacts ==
    ASSUME ControllerTypes, NEW c \in Controllers
    PROVE  /\ queue[c] \in Seq(Events) /\ Range(queue[c]) \subseteq Events
           /\ Range(queue[c]) \subseteq Pending(c) /\ Pending(c) \subseteq Events
           /\ current[c] # NoEvent => current[c] \in Pending(c)
<1>1. queue[c] \in Seq(Events) /\ current[c] \in Events \cup {NoEvent}
  BY Zenon DEF ControllerTypes
<1>2. \A n \in DOMAIN queue[c] : queue[c][n] \in Events
  BY <1>1
<1>3. Range(queue[c]) \subseteq Events
  BY Zenon, <1>2 DEF Range
<1>4. QED
  BY Zenon, <1>1, <1>3, EventFacts DEF Pending

\* While nobody calls its handlers, the creation a worker is at stays fresh.
LEMMA CurrentFresh ==
    ASSUME SourcesInv, ControllerTypes, NEW c \in Controllers, ControllerInv(c), SameTold(c),
           ObjectsAge(c), current[c].type = "create"
    PROVE  /\ born'[current[c].obj] > startedAt[c]
           /\ \A n \in turn[c]..Len(handlers[c[1]]) :
                 last'[<<c, handlers[c[1]][n], current[c].obj>>] = "none"
<1>1. current[c] # NoEvent
  BY Zenon, EventFacts
<1>2. current[c].obj \in Mine(c) /\ born'[current[c].obj] = born[current[c].obj]
  BY Zenon, <1>1, PendingFacts DEF ControllerInv, OwnOnly, ObjectsAge
<1>3. \A n \in turn[c]..Len(handlers[c[1]]) : handlers[c[1]][n] \in TriggerIndex
  BY Zenon, <1>1, TurnFacts DEF ControllerInv
<1>4. /\ born[current[c].obj] > startedAt[c]
      /\ \A n \in turn[c]..Len(handlers[c[1]]) :
            last[<<c, handlers[c[1]][n], current[c].obj>>] = "none"
  BY Zenon DEF ControllerInv, Fresh
<1>5. \A t \in TriggerIndex : last'[<<c, t, current[c].obj>>] = last[<<c, t, current[c].obj>>]
  BY Zenon, <1>2 DEF SameTold
<1>6. QED
  BY Zenon, <1>2, <1>3, <1>4, <1>5

\* The informer queues events and is up to date.
LEMMA QueuedInv ==
    ASSUME SourcesInv, ControllerTypes, NEW c \in Controllers, ControllerInv(c),
           NEW r \in Seq(Events), Sorted(r), \A e \in Range(r) : MayQueue(c, e),
           queue'[c] = queue[c] \o r, informer[c] # "off", informer'[c] = "watching",
           current'[c] = current[c], turn'[c] = turn[c], startedAt'[c] = startedAt[c],
           SameTold(c), handlers' = handlers, started' = started, ObjectsAge(c),
           \A o \in cache'[c] : o \in Mine(c) /\ life'[o] # "none", Live(c)' \subseteq cache'[c]
    PROVE  ControllerInv(c)'
<1>1. /\ queue[c] \in Seq(Events) /\ Range(queue[c]) \subseteq Pending(c)
      /\ Pending(c) \subseteq Events /\ (current[c] # NoEvent => current[c] \in Pending(c))
  BY Zenon, PendingFacts
<1>2. Sorted(queue'[c]) /\ Range(queue'[c]) = Range(queue[c]) \cup Range(r)
  <2>1. Sorted(queue[c]) /\ \A x \in Range(queue[c]), y \in Range(r) : MayPrecede(x, y)
    BY Zenon, <1>1 DEF MayQueue, ControllerInv, InSequence
  <2>2. Sorted(queue[c] \o r) /\ Range(queue[c] \o r) = Range(queue[c]) \cup Range(r)
    <3>1. PICK q \in Seq(Events) : q = queue[c]
      BY Zenon, <1>1
    <3>2. Sorted(q) /\ \A x \in Range(q), y \in Range(r) : MayPrecede(x, y)
      BY Zenon, <2>1, <3>1
    <3>3. Sorted(q \o r) /\ Range(q \o r) = Range(q) \cup Range(r)
      BY <3>2, ConcatEvents
    <3>4. QED
      BY Zenon, <3>1, <3>3
  <2>3. QED
    BY Zenon, <2>2
<1>3. Pending(c)' \subseteq Pending(c) \cup Range(r)
  BY Zenon, <1>2 DEF Pending
<1>4. \A o \in Mine(c) : Untold(c, o)' <=> Untold(c, o)
  BY Zenon DEF Untold, SameTold
<1>5. \A e \in Pending(c) : e.obj \in Mine(c) /\ life[e.obj] # "none" /\ (e.type = "delete" => life[e.obj] = "gone")
  BY Zenon DEF ControllerInv, OwnOnly
<1>6. Working(c)'
  BY Zenon DEF ControllerInv, Working
<1>7. OwnOnly(c)'
  <2>1. ASSUME NEW e \in Pending(c)'
        PROVE  /\ e.obj \in Mine(c) /\ life'[e.obj] # "none"
               /\ e.type = "delete" => life'[e.obj] = "gone"
    <3>1. CASE e \in Pending(c)
      BY Zenon, <3>1, <1>5 DEF ObjectsAge
    <3>2. CASE e \in Range(r)
      BY Zenon, <3>2 DEF MayQueue
    <3>3. QED
      BY Zenon, <2>1, <3>1, <3>2, <1>3
  <2>2. QED
    BY Zenon, <2>1 DEF OwnOnly, Mine
<1>8. InSequence(c)'
  <2>1. current[c] # NoEvent => \A e \in Range(queue[c]) \cup Range(r) : MayPrecede(current[c], e)
    BY Zenon, <1>1 DEF MayQueue, ControllerInv, InSequence
  <2>2. QED
    BY Zenon, <2>1, <1>2 DEF InSequence
<1>9. Unknown(c)' /\ ToldBefore(c)'
  <2>1. ASSUME NEW o \in Mine(c), life'[o] = "none" PROVE Unheard(c, o)'
    <3>1. life[o] = "none" /\ \A e \in Range(r) : e.obj # o
      BY Zenon, <2>1 DEF ObjectsAge, MayQueue
    <3>2. Unheard(c, o)
      BY Zenon, <3>1 DEF ControllerInv, Unknown
    <3>3. QED
      BY Zenon, <3>1, <3>2, <1>3, <1>4 DEF Unheard
  <2>2. QED
    BY Zenon, <2>1 DEF Unknown, ToldBefore, Mine
<1>10. Fresh(c)'
  <2>1. ASSUME NEW e \in Range(queue'[c]), e.type = "create", born'[e.obj] > startedAt[c]
        PROVE  Untold(c, e.obj)'
    <3>1. CASE e \in Range(queue[c])
      <4>1. e.obj \in Mine(c) /\ born'[e.obj] = born[e.obj]
        BY Zenon, <3>1, <1>1, <1>5 DEF ObjectsAge
      <4>2. QED
        BY Zenon, <2>1, <3>1, <4>1, <1>4 DEF ControllerInv, Fresh
    <3>2. CASE e \in Range(r)
      BY Zenon, <2>1, <3>2, <1>4 DEF MayQueue
    <3>3. QED
      BY Zenon, <2>1, <3>1, <3>2, <1>2
  <2>2. ASSUME current[c].type = "create"
        PROVE  /\ born'[current[c].obj] > startedAt[c]
               /\ \A n \in turn[c]..Len(handlers[c[1]]) :
                     last'[<<c, handlers[c[1]][n], current[c].obj>>] = "none"
    BY Zenon, <2>2, CurrentFresh
  <2>3. QED
    BY Zenon, <2>1, <2>2 DEF Fresh
<1>11. Final(c)'
  <2> SUFFICES ASSUME NEW o \in Mine(c), NEW t \in TriggerIndex, last'[<<c, t, o>>] = "delete"
               PROVE  /\ life'[o] = "gone" /\ \A e \in Range(queue'[c]) : e.obj # o
                      /\ current'[c] # NoEvent /\ current'[c].obj = o => current'[c].type = "delete"
    BY Zenon DEF Final, Mine
  <2>1. /\ life[o] = "gone" /\ \A e \in Range(queue[c]) : e.obj # o
        /\ current[c] # NoEvent /\ current[c].obj = o => current[c].type = "delete"
    <3>1. last[<<c, t, o>>] = "delete"
      BY Zenon DEF SameTold
    <3>2. QED
      BY Zenon, <3>1 DEF ControllerInv, Final
  <2>2. life'[o] = "gone" /\ \A e \in Range(r) : e.obj # o
    BY Zenon, <2>1 DEF ObjectsAge, MayQueue
  <2>3. QED
    BY Zenon, <2>1, <2>2, <1>2
<1>12. QED
  BY Zenon, <1>6, <1>7, <1>8, <1>9, <1>10, <1>11 DEF ControllerInv

\* An informer that does not watch does not see what becomes of the objects.
LEMMA UnseenInv ==
    ASSUME SourcesInv, ControllerTypes, Clocks, NEW c \in Controllers, ControllerInv(c),
           informer[c] # "watching", informer'[c] = informer[c], cache'[c] = cache[c],
           SameEvents(c), SameTold(c), handlers' = handlers, started' = started, ObjectsAge(c)
    PROVE  ControllerInv(c)'
<1>1. /\ Range(queue[c]) \subseteq Pending(c)
      /\ Pending(c) \subseteq Events /\ (current[c] # NoEvent => current[c] \in Pending(c))
  BY Zenon, PendingFacts
<1>2. Pending(c)' = Pending(c) /\ Range(queue'[c]) = Range(queue[c])
  BY Zenon DEF Pending, SameEvents
<1>3. \A o \in Mine(c) : (Untold(c, o)' <=> Untold(c, o)) /\ (Unheard(c, o)' <=> Unheard(c, o))
  BY Zenon, <1>2 DEF Untold, Unheard, SameTold
<1>4. Working(c)' /\ InSequence(c)'
  BY Zenon, <1>2 DEF ControllerInv, Working, InSequence, SameEvents
<1>5. OwnOnly(c)'
  <2>1. ASSUME NEW e \in Pending(c)
        PROVE  /\ e.obj \in Mine(c) /\ life'[e.obj] # "none"
               /\ e.type = "delete" => life'[e.obj] = "gone"
    BY Zenon, <2>1 DEF ControllerInv, OwnOnly, ObjectsAge
  <2>2. \A o \in cache[c] : o \in Mine(c) /\ life'[o] # "none"
    BY Zenon DEF ControllerInv, OwnOnly, ObjectsAge
  <2>3. QED
    BY Zenon, <2>1, <2>2, <1>2 DEF OwnOnly, Mine
<1>6. \A o \in Mine(c) : life[o] = "none" => Unheard(c, o)
  BY Zenon DEF ControllerInv, Unknown
<1>7. Unknown(c)'
  <2>1. \A o \in Mine(c) : life'[o] = "none" => Unheard(c, o)'
    BY Zenon, <1>3, <1>6 DEF ObjectsAge
  <2>2. ASSUME informer[c] = "expired", NEW o \in Live(c)', o \notin cache[c]
        PROVE  Unheard(c, o)'
    <3>1. o \in Mine(c) /\ life'[o] = "live"
      BY Zenon, <2>2 DEF Live, Mine
    <3>2. CASE life[o] = "none"
      BY Zenon, <3>1, <3>2, <1>3, <1>6
    <3>3. CASE life[o] = "live"
      BY Zenon, <2>2, <3>1, <3>3, <1>3 DEF ControllerInv, Unknown, Live, Mine
    <3>4. QED
      BY Zenon, <3>1, <3>2, <3>3 DEF Clocks, ObjectsAge, Mine
  <2>3. QED
    BY Zenon, <2>1, <2>2 DEF Unknown, Mine
<1>8. ToldBefore(c)'
  <2>1. ASSUME informer[c] = "listing", NEW o \in Mine(c), born'[o] > startedAt[c]
        PROVE  Untold(c, o)
    BY Zenon, <2>1, <1>6 DEF ObjectsAge, ControllerInv, ToldBefore, Unheard
  <2>2. QED
    BY Zenon, <2>1, <1>3 DEF ToldBefore, SameEvents, Mine
<1>9. Fresh(c)'
  <2>1. ASSUME NEW e \in Range(queue[c]), e.type = "create", born'[e.obj] > startedAt[c]
        PROVE  Untold(c, e.obj)'
    <3>1. e.obj \in Mine(c) /\ born'[e.obj] = born[e.obj]
      BY Zenon, <2>1, <1>1 DEF ControllerInv, OwnOnly, ObjectsAge
    <3>2. QED
      BY Zenon, <2>1, <3>1, <1>3 DEF ControllerInv, Fresh
  <2>2. ASSUME current[c].type = "create"
        PROVE  /\ born'[current[c].obj] > startedAt[c]
               /\ \A n \in turn[c]..Len(handlers[c[1]]) :
                     last'[<<c, handlers[c[1]][n], current[c].obj>>] = "none"
    BY Zenon, <2>2, CurrentFresh
  <2>3. QED
    BY Zenon, <2>1, <2>2, <1>2 DEF Fresh, SameEvents
<1>10. Final(c)'
  <2> SUFFICES ASSUME NEW o \in Mine(c), NEW t \in TriggerIndex, last'[<<c, t, o>>] = "delete"
               PROVE  /\ life'[o] = "gone" /\ \A e \in Range(queue'[c]) : e.obj # o
                      /\ current'[c] # NoEvent /\ current'[c].obj = o => current'[c].type = "delete"
    BY Zenon DEF Final, Mine
  <2>1. /\ life[o] = "gone" /\ \A e \in Range(queue[c]) : e.obj # o
        /\ current[c] # NoEvent /\ current[c].obj = o => current[c].type = "delete"
    BY Zenon DEF SameTold, ControllerInv, Final
  <2>2. QED
    BY Zenon, <2>1, <1>2 DEF ObjectsAge, SameEvents
<1>11. QED
  BY Zenon, <1>4, <1>5, <1>7, <1>8, <1>9, <1>10 DEF ControllerInv

\* A step of one controller that tells nobody about the objects of others leaves the
\* others alone.
LEMMA OthersInv ==
    ASSUME Inv, NEW c \in Controllers, UNCHANGED <<sourceVars, life, born>>,
           \A d \in Controllers \ {c} :
              /\ SameEvents(d) /\ SameTold(d)
              /\ cache'[d] = cache[d] /\ informer'[d] = informer[d]
    PROVE  /\ SourcesInv' /\ \A d \in Controllers \ {c} : ControllerInv(d)'
<1>1. SourcesInv'
  BY Zenon, SourcesKept DEF Inv
<1>2. ASSUME NEW d \in Controllers, d # c PROVE ControllerInv(d)'
  <2>1. /\ SourcesInv /\ ControllerInv(d) /\ SameHandlers(d) /\ SameObjects(d)
    BY Zenon DEF Inv, SameHandlers, SameObjects, sourceVars
  <2>2. SameEvents(d) /\ SameTold(d) /\ cache'[d] = cache[d] /\ informer'[d] = informer[d]
    BY Zenon, <1>2
  <2>3. QED
    BY Zenon, <2>1, <2>2, ControllerKept
<1>3. QED
  BY Zenon, <1>1, <1>2

\* A controller starts: no object is younger.
LEMMA RunInv == ASSUME Inv, NEW c \in Controllers, Run(c) PROVE Inv'
<1>1. /\ c \in started /\ informer[c] = "off" /\ serverStartTime' = now
      /\ informer' = [informer EXCEPT ![c] = "listing"]
      /\ startedAt' = [startedAt EXCEPT ![c] = now]
      /\ UNCHANGED <<sourceVars, now, life, born, cache, queue, current, turn, creates, last>>
  BY Zenon DEF Run, objectVars, history
<1>2. /\ informer \in [Controllers -> {"off", "listing", "watching", "expired", "stopped"}]
      /\ startedAt \in [Controllers -> Nat] /\ now \in Nat
  BY Zenon DEF Inv, Clocks, ControllerTypes
<1>3. ControllerTypes' /\ Counted'
  <2>1. informer' \in [Controllers -> {"off", "listing", "watching", "expired", "stopped"}]
    BY Zenon, <1>1, <1>2
  <2>2. QED
    BY Zenon, <2>1, <1>1 DEF Inv, ControllerTypes, Counted
<1>4. Clocks'
  <2>1. startedAt' \in [Controllers -> Nat]
    BY Zenon, <1>1, <1>2
  <2>2. \A d \in Controllers : startedAt'[d] <= now
    <3>1. \A d \in Controllers : startedAt[d] \in Nat /\ startedAt[d] <= serverStartTime
      BY Zenon, <1>2 DEF Inv, Clocks
    <3>2. serverStartTime \in Nat /\ serverStartTime <= now
      BY Zenon DEF Inv, Clocks
    <3>3. QED
      BY <3>1, <3>2, <1>1, <1>2
  <2>3. now <= now
    BY <1>2
  <2>4. QED
    BY Zenon, <1>1, <2>1, <2>2, <2>3 DEF Inv, Clocks
<1>5. SourcesInv' /\ \A d \in Controllers \ {c} : ControllerInv(d)'
  <2>1. \A d \in Controllers \ {c} :
           /\ SameEvents(d) /\ SameTold(d)
           /\ cache'[d] = cache[d] /\ informer'[d] = informer[d]
    BY Zenon, <1>1, <1>2 DEF SameEvents, SameTold
  <2>2. QED
    BY Zenon, <2>1, <1>1, OthersInv
<1>6. Empty(c)'
  <2>1. informer'[c] = "listing" /\ startedAt'[c] = now /\ c \in started'
    BY Zenon, <1>1, <1>2 DEF sourceVars
  <2>2. \A o \in Mine(c) : ~(born[o] > now)
    BY <1>2 DEF Inv, Clocks, Mine
  <2>3. queue[c] = <<>> /\ current[c] = NoEvent /\ cache[c] = {} /\ turn[c] = 0
    BY Zenon, <1>1 DEF Inv, ControllerInv, Working
  <2>4. \A o : Untold(c, o)' <=> Untold(c, o)
    BY Zenon, <1>1 DEF Untold
  <2>5. ToldBefore(c)'
    BY Zenon, <2>1, <2>2, <1>1 DEF ToldBefore, Mine
  <2>6. /\ \A o \in Mine(c) : life[o] = "none" => Untold(c, o)
        /\ \A o \in Mine(c), t \in TriggerIndex : last[<<c, t, o>>] = "delete" => life[o] = "gone"
    BY Zenon DEF Inv, ControllerInv, Unknown, Unheard, Final
  <2>7. QED
    BY Zenon, <2>1, <2>3, <2>4, <2>5, <2>6, <1>1 DEF Empty, Mine
<1>7. QED
  BY Zenon, <1>3, <1>4, <1>5, <1>6, EmptyNext DEF Inv

\* The informer of c lists: the events r of the list may be queued.
LEMMA ListedInv ==
    ASSUME Inv, NEW c \in Controllers, NEW r \in Seq(Events), Sorted(r),
           \A e \in Range(r) : MayQueue(c, e), informer[c] \in {"listing", "expired"},
           informer' = [informer EXCEPT ![c] = "watching"],
           cache' = [cache EXCEPT ![c] = Live(c)],
           queue' = [queue EXCEPT ![c] = queue[c] \o r],
           UNCHANGED <<sourceVars, now, life, born, serverStartTime, current, turn, startedAt,
                       creates, last>>
    PROVE  Inv'
<1>1. /\ informer \in [Controllers -> {"off", "listing", "watching", "expired", "stopped"}]
      /\ cache \in [Controllers -> SUBSET Objects] /\ queue \in [Controllers -> Seq(Events)]
      /\ ControllerInv(c) /\ SourcesInv /\ ControllerTypes
  BY Zenon DEF Inv, ControllerTypes
<1>2. Clocks' /\ Counted'
  BY Zenon DEF Inv, Clocks, Counted
<1>3. ControllerTypes'
  <2>1. queue[c] \o r \in Seq(Events)
    BY <1>1
  <2>2. Live(c) \in SUBSET Objects
    BY Zenon DEF Live
  <2>3. /\ informer' \in [Controllers -> {"off", "listing", "watching", "expired", "stopped"}]
        /\ cache' \in [Controllers -> SUBSET Objects] /\ queue' \in [Controllers -> Seq(Events)]
    BY Zenon, <2>1, <2>2, <1>1
  <2>4. QED
    BY Zenon, <2>3 DEF Inv, ControllerTypes
<1>4. SourcesInv' /\ \A d \in Controllers \ {c} : ControllerInv(d)'
  <2>1. \A d \in Controllers \ {c} :
           /\ SameEvents(d) /\ SameTold(d)
           /\ cache'[d] = cache[d] /\ informer'[d] = informer[d]
    BY Zenon, <1>1 DEF SameEvents, SameTold
  <2>2. QED
    BY Zenon, <2>1, OthersInv
<1>5. ControllerInv(c)'
  <2>1. informer'[c] = "watching" /\ cache'[c] = Live(c) /\ queue'[c] = queue[c] \o r
    BY Zenon, <1>1
  <2>2. Live(c)' = Live(c) /\ \A o \in Live(c) : o \in Mine(c) /\ life'[o] # "none"
    BY Zenon DEF Live, Mine
  <2>3. ObjectsAge(c) /\ SameTold(c) /\ handlers' = handlers /\ started' = started
    BY Zenon DEF ObjectsAge, SameTold, sourceVars
  <2>4. Live(c)' \subseteq cache'[c] /\ \A o \in cache'[c] : o \in Mine(c) /\ life'[o] # "none"
    BY Zenon, <2>1, <2>2
  <2>5. informer[c] # "off"
    OBVIOUS
  <2>6. QED
    BY Zenon, <2>1, <2>3, <2>4, <2>5, <1>1, QueuedInv
<1>6. QED
  BY Zenon, <1>2, <1>3, <1>4, <1>5 DEF Inv

\* The first list: objects that earlier processes told of are not recent.
LEMMA ListInv == ASSUME Inv, NEW c \in Controllers, List(c) PROVE Inv'
<1> DEFINE r == EventsFor("create", Live(c))
<1>1. /\ informer[c] = "listing" /\ informer' = [informer EXCEPT ![c] = "watching"]
      /\ cache' = [cache EXCEPT ![c] = Live(c)] /\ queue' = [queue EXCEPT ![c] = r]
      /\ UNCHANGED <<sourceVars, now, life, born, serverStartTime, current, turn, startedAt,
                     creates, last>>
  BY Zenon DEF List, objectVars, history
<1>2. /\ r \in Seq(Events) /\ Sorted(r)
      /\ \A e \in Range(r) : e \in Events /\ e.type = "create" /\ e.obj \in Live(c)
  <2>1. "create" \in EventTypes /\ Live(c) \in SUBSET Objects
    BY Zenon DEF EventTypes, Live
  <2>2. QED
    BY Zenon, <2>1, EventsForFacts
<1>3. queue[c] = <<>> /\ current[c] = NoEvent
  BY Zenon, <1>1 DEF Inv, ControllerInv, Working
<1>4. Pending(c) = {}
  <2>1. DOMAIN queue[c] = {} /\ Range(queue[c]) = {}
    BY <1>3 DEF Range
  <2>2. QED
    BY Zenon, <2>1, <1>3 DEF Pending
<1>5. ASSUME NEW e \in Range(r) PROVE MayQueue(c, e)
  <2>1. e.obj \in Mine(c) /\ life[e.obj] = "live" /\ e.type = "create"
    BY Zenon, <1>2 DEF Live, Mine
  <2>2. born[e.obj] > startedAt[c] => Untold(c, e.obj)
    BY Zenon, <2>1, <1>1 DEF Inv, ControllerInv, ToldBefore
  <2>3. QED
    BY Zenon, <2>1, <2>2, <1>1, <1>4 DEF MayQueue
<1>6. queue[c] \o r = r
  BY <1>2, <1>3
<1>7. queue' = [queue EXCEPT ![c] = queue[c] \o r]
  BY Zenon, <1>1, <1>6
<1> HIDE DEF r
<1>8. QED
  BY Zenon, <1>1, <1>2, <1>5, <1>7, ListedInv

\* Another list: changes of objects the informer knew and are live, and the creation of
\* objects nobody has heard of.
LEMMA RelistInv == ASSUME Inv, NEW c \in Controllers, Relist(c) PROVE Inv'
<1> DEFINE u == EventsFor("update", cache[c])
           v == EventsFor("create", Live(c) \ cache[c])
<1>1. /\ informer[c] = "expired" /\ informer' = [informer EXCEPT ![c] = "watching"]
      /\ cache[c] \subseteq Live(c)
      /\ cache' = [cache EXCEPT ![c] = Live(c)]
      /\ queue' = [queue EXCEPT ![c] = (queue[c] \o u) \o v]
      /\ UNCHANGED <<sourceVars, now, life, born, serverStartTime, current, turn, startedAt,
                     creates, last>>
  BY Zenon DEF Relist, objectVars, history
<1>2. /\ u \in Seq(Events) /\ Sorted(u)
      /\ \A e \in Range(u) : e \in Events /\ e.type = "update" /\ e.obj \in cache[c]
  <2>1. "update" \in EventTypes /\ cache[c] \in SUBSET Objects
    BY Zenon DEF EventTypes, Inv, ControllerTypes
  <2>2. QED
    BY Zenon, <2>1, EventsForFacts
<1>3. /\ v \in Seq(Events) /\ Sorted(v)
      /\ \A e \in Range(v) : e \in Events /\ e.type = "create" /\ e.obj \in Live(c) \ cache[c]
  <2>1. "create" \in EventTypes /\ Live(c) \ cache[c] \in SUBSET Objects
    BY Zenon DEF EventTypes, Live
  <2>2. QED
    BY Zenon, <2>1, EventsForFacts
<1>4. queue[c] \in Seq(Events) /\ Pending(c) \subseteq Events
  BY Zenon, PendingFacts DEF Inv
<1> HIDE DEF u, v
<1>5. /\ u \o v \in Seq(Events) /\ Range(u \o v) = Range(u) \cup Range(v)
      /\ Sorted(u \o v)
  <2>1. \A x \in Range(u), y \in Range(v) : MayPrecede(x, y)
    BY Zenon, <1>2, <1>3 DEF MayPrecede
  <2>2. QED
    BY <2>1, <1>2, <1>3, ConcatEvents
<1>6. ASSUME NEW e \in Range(u \o v) PROVE MayQueue(c, e)
  <2>1. CASE e \in Range(u)
    <3>1. e.obj \in Mine(c) /\ life[e.obj] = "live" /\ e.type = "update"
      BY Zenon, <2>1, <1>1, <1>2 DEF Live, Mine
    <3>2. \A x \in Pending(c) : x.type = "delete" => life[x.obj] = "gone"
      BY Zenon DEF Inv, ControllerInv, OwnOnly
    <3>3. \A x \in Pending(c) : MayPrecede(x, e)
      BY Zenon, <3>1, <3>2 DEF MayPrecede
    <3>4. QED
      BY Zenon, <3>1, <3>3, <1>1 DEF MayQueue
  <2>2. CASE e \in Range(v)
    <3>1. e.obj \in Mine(c) /\ life[e.obj] = "live" /\ e.type = "create"
      BY Zenon, <2>2, <1>3 DEF Live, Mine
    <3>2. Unheard(c, e.obj)
      BY Zenon, <2>2, <1>1, <1>3 DEF Inv, ControllerInv, Unknown
    <3>3. Untold(c, e.obj) /\ \A x \in Pending(c) : MayPrecede(x, e)
      BY Zenon, <3>2 DEF Unheard, MayPrecede
    <3>4. QED
      BY Zenon, <3>1, <3>3, <1>1 DEF MayQueue
  <2>3. QED
    BY Zenon, <1>6, <2>1, <2>2, <1>5
<1>7. (queue[c] \o u) \o v = queue[c] \o (u \o v)
  <2>1. PICK q, x, y \in Seq(Events) : q = queue[c] /\ x = u /\ y = v
    BY Zenon, <1>2, <1>3, <1>4
  <2>2. (q \o x) \o y = q \o (x \o y)
    OBVIOUS
  <2>3. QED
    BY <2>1, <2>2
<1>8. queue' = [queue EXCEPT ![c] = queue[c] \o (u \o v)]
  BY Zenon, <1>1, <1>7
<1>9. QED
  BY Zenon, <1>1, <1>5, <1>6, <1>8, ListedInv

\* A worker takes an event: a creation that passes is one nobody has heard of.
LEMMA TakeInv == ASSUME Inv, NEW c \in Controllers, Take(c) PROVE Inv'
<1>1. PICK e : e = Head(queue[c])
  OBVIOUS
<1>2. /\ informer[c] # "listing" /\ queue[c] # <<>> /\ current[c] = NoEvent
      /\ current' = [current EXCEPT ![c] = IF Passes(c, e) THEN e ELSE NoEvent]
      /\ turn' = [turn EXCEPT ![c] = IF Passes(c, e) THEN 1 ELSE 0]
      /\ queue' = [queue EXCEPT ![c] = Tail(queue[c])]
      /\ UNCHANGED <<sourceVars, now, life, born, serverStartTime, informer, cache,
                     startedAt, creates, last>>
  BY Zenon, <1>1 DEF Take, objectVars, history
<1>3. /\ current \in [Controllers -> Events \cup {NoEvent}] /\ turn \in [Controllers -> Nat]
      /\ queue \in [Controllers -> Seq(Events)] /\ SourcesInv /\ ControllerTypes
      /\ ControllerInv(c) /\ Sorted(queue[c])
  BY Zenon DEF Inv, ControllerTypes, ControllerInv, InSequence
<1>4. /\ Tail(queue[c]) \in Seq(Events) /\ e \in Events /\ Sorted(Tail(queue[c]))
      /\ Range(queue[c]) = Range(Tail(queue[c])) \cup {e}
      /\ \A x \in Range(Tail(queue[c])) : MayPrecede(e, x)
  <2>1. queue[c] \in Seq(Events)
    BY Zenon, <1>3
  <2>2. QED
    BY <2>1, <1>1, <1>2, <1>3, TakeEvent
<1>5. queue'[c] = Tail(queue[c]) /\ (\/ Passes(c, e) /\ current'[c] = e /\ turn'[c] = 1
                                     \/ current'[c] = NoEvent /\ turn'[c] = 0)
  BY Zenon, <1>2, <1>3
<1>6. e # NoEvent /\ e \in Pending(c) /\ Range(queue'[c]) \subseteq Range(queue[c])
      /\ Pending(c)' \subseteq Pending(c)
  <2>1. e # NoEvent
    BY Zenon, <1>4, EventFacts
  <2>2. e \in Range(queue[c]) /\ Range(queue'[c]) \subseteq Range(queue[c])
    BY Zenon, <1>4, <1>5
  <2>3. QED
    BY Zenon, <2>1, <2>2, <1>5 DEF Pending
<1>7. Clocks' /\ Counted'
  BY Zenon, <1>2 DEF Inv, Clocks, Counted
<1>8. ControllerTypes'
  <2>1. 0 \in Nat /\ 1 \in Nat
    OBVIOUS
  <2>2. /\ current' \in [Controllers -> Events \cup {NoEvent}] /\ turn' \in [Controllers -> Nat]
        /\ queue' \in [Controllers -> Seq(Events)]
    BY Zenon, <2>1, <1>2, <1>3, <1>4
  <2>3. QED
    BY Zenon, <2>2, <1>2 DEF Inv, ControllerTypes
<1>9. SourcesInv' /\ \A d \in Controllers \ {c} : ControllerInv(d)'
  <2>1. \A d \in Controllers \ {c} :
           /\ SameEvents(d) /\ SameTold(d)
           /\ cache'[d] = cache[d] /\ informer'[d] = informer[d]
    BY Zenon, <1>2, <1>3 DEF SameEvents, SameTold
  <2>2. QED
    BY Zenon, <2>1, <1>2, OthersInv
<1>10. UNCHANGED <<started, handlers, life, born, informer, cache, startedAt, last>>
  BY Zenon, <1>2 DEF sourceVars
<1>11. c \in started /\ informer[c] \notin {"off", "listing"}
  BY Zenon, <1>2, <1>3 DEF ControllerInv, Working
<1>12. /\ Len(handlers[c[1]]) \in Nat /\ 1 \in 1..Len(handlers[c[1]])
       /\ \A n \in 1..Len(handlers[c[1]]) : handlers[c[1]][n] \in TriggerIndex
  <2>1. PICK h : h = handlers[c[1]]
    OBVIOUS
  <2>2. h \in Seq(Nat) /\ h # <<>> /\ \A n \in 1..Len(h) : h[n] \in TriggerIndex
    BY Zenon, <2>1, <1>3, <1>11, HandlerFacts
  <2>3. Len(h) \in Nat /\ 1 \in 1..Len(h)
    BY <2>2
  <2>4. QED
    BY Zenon, <2>1, <2>2, <2>3
<1>13. \A o : (Untold(c, o)' <=> Untold(c, o)) /\ (Unheard(c, o) => Unheard(c, o)')
  BY Zenon, <1>6, <1>10 DEF Untold, Unheard
<1>14. Working(c)'
  BY Zenon, <1>5, <1>6, <1>10, <1>11, <1>12 DEF Working
<1>15. OwnOnly(c)'
  BY Zenon, <1>3, <1>6, <1>10 DEF ControllerInv, OwnOnly, Mine
<1>16. InSequence(c)'
  BY Zenon, <1>4, <1>5 DEF InSequence
<1>17. Unknown(c)' /\ ToldBefore(c)'
  <2>1. Live(c)' = Live(c)
    BY Zenon, <1>10 DEF Live
  <2>2. QED
    BY Zenon, <2>1, <1>3, <1>10, <1>11, <1>13 DEF ControllerInv, Unknown, ToldBefore, Mine
<1>18. Fresh(c)'
  <2>1. \A x \in Range(queue'[c]) : x.type = "create" /\ born[x.obj] > startedAt[c] => Untold(c, x.obj)
    BY Zenon, <1>3, <1>6 DEF ControllerInv, Fresh
  <2>2. ASSUME Passes(c, e), e.type = "create"
        PROVE  /\ born[e.obj] > startedAt[c]
               /\ \A n \in 1..Len(handlers[c[1]]) : last[<<c, handlers[c[1]][n], e.obj>>] = "none"
    <3>1. e.obj \in Objects
      BY Zenon, <1>3, <1>6 DEF ControllerInv, OwnOnly, Mine
    <3>2. born[e.obj] \in Nat /\ serverStartTime \in Nat /\ startedAt[c] \in Nat
          /\ startedAt[c] <= serverStartTime
      BY Zenon, <3>1 DEF Inv, Clocks
    <3>3. born[e.obj] - (born[e.obj] % 2) > serverStartTime
      BY Zenon, <2>2 DEF Passes, CreationTimestamp
    <3>4. born[e.obj] > startedAt[c]
      BY <3>2, <3>3
    <3>5. Untold(c, e.obj)
      BY Zenon, <2>2, <3>4, <1>3, <1>4 DEF ControllerInv, Fresh
    <3>6. QED
      BY Zenon, <3>4, <3>5, <1>12 DEF Untold
  <2>3. CASE Passes(c, e) /\ current'[c] = e /\ turn'[c] = 1
    BY Zenon, <2>1, <2>2, <2>3, <1>10, <1>13 DEF Fresh
  <2>4. CASE current'[c] = NoEvent
    BY Zenon, <2>1, <2>4, <1>10, <1>13, EventFacts DEF Fresh
  <2>5. QED
    BY Zenon, <2>3, <2>4, <1>5
<1>19. Final(c)'
  <2> SUFFICES ASSUME NEW o \in Mine(c), NEW t \in TriggerIndex, last'[<<c, t, o>>] = "delete"
               PROVE  /\ life'[o] = "gone" /\ \A x \in Range(queue'[c]) : x.obj # o
                      /\ current'[c] # NoEvent /\ current'[c].obj = o => current'[c].type = "delete"
    BY Zenon DEF Final, Mine
  <2>1. life[o] = "gone" /\ \A x \in Range(queue[c]) : x.obj # o
    BY Zenon, <1>3, <1>10 DEF ControllerInv, Final
  <2>2. QED
    BY Zenon, <2>1, <1>4, <1>5, <1>6, <1>10
<1>20. QED
  BY Zenon, <1>7, <1>8, <1>9, <1>14, <1>15, <1>16, <1>17, <1>18, <1>19
     DEF Inv, ControllerInv

\* What a call of a handler does: it is of a handler of the key, with an event that is
\* pending, and the handlers called later are others.
LEMMA CallFacts ==
    ASSUME Inv, NEW c \in Controllers, CallHandler(c)
    PROVE  LET e == current[c]
               t == handlers[c[1]][turn[c]]
           IN  /\ e \in Events /\ e \in Pending(c) /\ e.obj \in Mine(c) /\ e.type # "none"
               /\ t \in TriggerIndex /\ <<c, t, e.obj>> \in Controllers \X TriggerIndex \X Objects
               /\ last' = [last EXCEPT ![<<c, t, e.obj>>] = e.type]
               /\ e.type = "create" => last[<<c, t, e.obj>>] = "none"
               /\ creates' = IF e.type = "create"
                             THEN [creates EXCEPT ![<<c, t, e.obj>>] = @ + 1] ELSE creates
               /\ \/ /\ current' = current /\ turn' = [turn EXCEPT ![c] = turn[c] + 1]
                     /\ turn[c] + 1 \in 1..Len(handlers[c[1]])
                     /\ \A n \in turn[c] + 1..Len(handlers[c[1]]) :
                           n \in turn[c]..Len(handlers[c[1]]) /\ handlers[c[1]][n] # t
                  \/ /\ current' = [current EXCEPT ![c] = NoEvent]
                     /\ turn' = [turn EXCEPT ![c] = 0]
<1>1. PICK e, h, n : e = current[c] /\ h = handlers[c[1]] /\ n = turn[c]
  OBVIOUS
<1>2. /\ SourcesInv /\ ControllerTypes /\ Working(c) /\ current[c] # NoEvent
      /\ current \in [Controllers -> Events \cup {NoEvent}] /\ turn \in [Controllers -> Nat]
  BY Zenon DEF Inv, ControllerInv, ControllerTypes, CallHandler
<1>3. e \in Events /\ e \in Pending(c) /\ e.obj \in Mine(c)
  BY Zenon, <1>1, <1>2, PendingFacts DEF Inv, ControllerInv, OwnOnly
<1>4. e.type # "none"
  BY <1>3 DEF Events, EventTypes
<1>5. /\ c \in started /\ n \in 1..Len(h) /\ Len(h) \in Nat
      /\ \A m \in n..Len(h) : h[m] \in TriggerIndex
  BY Zenon, <1>1, <1>2, TurnFacts
<1>6. n \in n..Len(h)
  BY <1>5
<1>7. h[n] \in TriggerIndex /\ <<c, h[n], e.obj>> \in Controllers \X TriggerIndex \X Objects
  BY <1>3, <1>5, <1>6 DEF Mine
<1>8. /\ last' = [last EXCEPT ![<<c, h[n], e.obj>>] = e.type]
      /\ creates' = IF e.type = "create"
                    THEN [creates EXCEPT ![<<c, h[n], e.obj>>] = @ + 1] ELSE creates
  BY Zenon, <1>1 DEF CallHandler
<1>9. e.type = "create" => last[<<c, h[n], e.obj>>] = "none"
  BY Zenon, <1>1, <1>6 DEF Inv, ControllerInv, Fresh
<1>10. /\ turn' = [turn EXCEPT ![c] = IF n < Len(h) THEN n + 1 ELSE 0]
       /\ current' = [current EXCEPT ![c] = IF n < Len(h) THEN e ELSE NoEvent]
  BY Zenon, <1>1 DEF CallHandler, Proceed
<1>11. CASE n < Len(h)
  <2>1. n + 1 \in 1..Len(h) /\ \A m \in n + 1..Len(h) : m \in n..Len(h) /\ m \in 1..Len(h) /\ n < m
    BY <1>5, <1>11
  <2>2. h \in Seq(Nat) /\ InOrder(h)
    BY Zenon, <1>1, <1>2, <1>5, HandlerFacts
  <2>3. \A m \in n + 1..Len(h) : h[m] # h[n]
    <3> SUFFICES ASSUME NEW m \in n + 1..Len(h) PROVE h[m] # h[n]
      OBVIOUS
    <3>1. DOMAIN h = 1..Len(h) /\ h[n] \in Nat
      BY <2>2, <1>5
    <3>2. h[n] < h[m]
      BY Zenon, <3>1, <2>1, <2>2, <1>5 DEF InOrder
    <3>3. QED
      BY <3>1, <3>2
  <2>4. current' = current /\ turn' = [turn EXCEPT ![c] = n + 1]
    BY Zenon, <1>1, <1>2, <1>10, <1>11
  <2>5. QED
    BY Zenon, <1>1, <1>3, <1>4, <1>7, <1>8, <1>9, <2>1, <2>3, <2>4
<1>12. CASE ~(n < Len(h))
  BY Zenon, <1>1, <1>3, <1>4, <1>7, <1>8, <1>9, <1>10, <1>12
<1>13. QED
  BY Zenon, <1>11, <1>12

\* A call of a handler tells a trigger of a creation it was not told of.
LEMMA CallHandlerInv == ASSUME Inv, NEW c \in Controllers, CallHandler(c) PROVE Inv'
<1>1. PICK e, t, p : e = current[c] /\ t = handlers[c[1]][turn[c]] /\ p = <<c, t, e.obj>>
  OBVIOUS
<1>2. /\ e \in Events /\ e \in Pending(c) /\ e.obj \in Mine(c) /\ e.type # "none"
      /\ t \in TriggerIndex /\ p \in Controllers \X TriggerIndex \X Objects
      /\ last' = [last EXCEPT ![p] = e.type]
      /\ e.type = "create" => last[p] = "none"
      /\ creates' = IF e.type = "create" THEN [creates EXCEPT ![p] = @ + 1] ELSE creates
  BY Zenon, <1>1, CallFacts
<1>3. \/ /\ current' = current /\ turn' = [turn EXCEPT ![c] = turn[c] + 1]
         /\ turn[c] + 1 \in 1..Len(handlers[c[1]])
         /\ \A n \in turn[c] + 1..Len(handlers[c[1]]) :
               n \in turn[c]..Len(handlers[c[1]]) /\ handlers[c[1]][n] # t
      \/ current' = [current EXCEPT ![c] = NoEvent] /\ turn' = [turn EXCEPT ![c] = 0]
  BY Zenon, <1>1, CallFacts
<1>4. /\ UNCHANGED <<sourceVars, now, life, born, serverStartTime, informer, cache, queue,
                     startedAt>>
      /\ UNCHANGED <<started, handlers>> /\ e # NoEvent
  BY Zenon, <1>1 DEF CallHandler, objectVars, sourceVars
<1>5. /\ SourcesInv /\ ControllerTypes /\ ControllerInv(c)
      /\ current \in [Controllers -> Events \cup {NoEvent}] /\ turn \in [Controllers -> Nat]
      /\ creates \in [Controllers \X TriggerIndex \X Objects -> Nat]
      /\ last \in [Controllers \X TriggerIndex \X Objects -> EventTypes \cup {"none"}]
  BY Zenon DEF Inv, ControllerTypes
<1>6. \A q \in Controllers \X TriggerIndex \X Objects : last'[q] = IF q = p THEN e.type ELSE last[q]
  BY Zenon, <1>2, <1>5
<1>7. Clocks'
  BY Zenon, <1>4 DEF Inv, Clocks
<1>8. Counted'
  <2>1. \A q \in Controllers \X TriggerIndex \X Objects :
           creates[q] \in Nat /\ creates[q] <= 1 /\ (last[q] = "none" => creates[q] = 0)
    BY Zenon, <1>5 DEF Inv, Counted
  <2>2. CASE e.type = "create"
    <3>1. creates[p] = 0 /\ creates' = [creates EXCEPT ![p] = creates[p] + 1]
      BY Zenon, <2>1, <2>2, <1>2
    <3>2. \A q \in Controllers \X TriggerIndex \X Objects : creates'[q] = IF q = p THEN 1 ELSE creates[q]
      BY <3>1, <1>5
    <3>3. QED
      BY <3>2, <2>1, <1>2, <1>6 DEF Counted
  <2>3. CASE e.type # "create"
    BY Zenon, <2>1, <2>3, <1>2, <1>6 DEF Counted
  <2>4. QED
    BY Zenon, <2>2, <2>3
<1>9. ControllerTypes'
  <2>1. turn[c] + 1 \in Nat /\ 0 \in Nat
    BY <1>5
  <2>2. e.type \in EventTypes
    BY <1>2 DEF Events
  <2>3. /\ current' \in [Controllers -> Events \cup {NoEvent}] /\ turn' \in [Controllers -> Nat]
        /\ last' \in [Controllers \X TriggerIndex \X Objects -> EventTypes \cup {"none"}]
    BY Zenon, <2>1, <2>2, <1>2, <1>3, <1>5
  <2>4. creates' \in [Controllers \X TriggerIndex \X Objects -> Nat]
    BY <1>2, <1>5
  <2>5. QED
    BY Zenon, <2>3, <2>4, <1>4 DEF Inv, ControllerTypes
<1>10. \A d \in Controllers, o \in Objects, s \in TriggerIndex :
          d # c \/ o # e.obj => last'[<<d, s, o>>] = last[<<d, s, o>>]
  <2> SUFFICES ASSUME NEW d \in Controllers, NEW o \in Objects, NEW s \in TriggerIndex,
                      d # c \/ o # e.obj
               PROVE  last'[<<d, s, o>>] = last[<<d, s, o>>]
    BY Zenon
  <2>1. <<d, s, o>> # p /\ <<d, s, o>> \in Controllers \X TriggerIndex \X Objects
    BY <1>1
  <2>2. QED
    BY Zenon, <2>1, <1>6
<1>11. SourcesInv' /\ \A d \in Controllers \ {c} : ControllerInv(d)'
  <2>1. ASSUME NEW d \in Controllers, d # c
        PROVE  /\ SameEvents(d) /\ SameTold(d)
               /\ cache'[d] = cache[d] /\ informer'[d] = informer[d]
    <3>1. SameTold(d)
      BY Zenon, <2>1, <1>10 DEF SameTold, Mine
    <3>2. current'[d] = current[d] /\ turn'[d] = turn[d]
      BY Zenon, <2>1, <1>3, <1>5
    <3>3. QED
      BY Zenon, <3>1, <3>2, <1>4 DEF SameEvents
  <2>2. QED
    BY Zenon, <2>1, <1>4, OthersInv
<1>12. /\ Pending(c)' \subseteq Pending(c) /\ Range(queue'[c]) = Range(queue[c])
       /\ current'[c] \in {e, NoEvent}
  <2>1. current'[c] \in {e, NoEvent}
    BY Zenon, <1>1, <1>3, <1>5
  <2>2. QED
    BY Zenon, <2>1, <1>1, <1>4 DEF Pending
<1>13. c \in started /\ informer[c] \notin {"off", "listing"}
  BY Zenon, <1>1, <1>4, <1>5, TurnFacts DEF ControllerInv
<1>14. Working(c)'
  <2>1. \/ current'[c] = NoEvent /\ turn'[c] = 0
        \/ current'[c] # NoEvent /\ turn'[c] \in 1..Len(handlers[c[1]])
    BY Zenon, <1>1, <1>3, <1>4, <1>5
  <2>2. QED
    BY Zenon, <2>1, <1>4, <1>13 DEF Working
<1>15. OwnOnly(c)'
  BY Zenon, <1>4, <1>5, <1>12 DEF ControllerInv, OwnOnly, Mine
<1>16. InSequence(c)'
  BY Zenon, <1>1, <1>4, <1>5, <1>12 DEF ControllerInv, InSequence
<1>17. \A o \in Mine(c) : o # e.obj => /\ Untold(c, o)' <=> Untold(c, o)
                                       /\ Unheard(c, o) => Unheard(c, o)'
  <2>1. \A o \in Mine(c) : o # e.obj => (Untold(c, o)' <=> Untold(c, o))
    BY Zenon, <1>10 DEF Untold, Mine
  <2>2. QED
    BY Zenon, <2>1, <1>12 DEF Unheard
<1>18. Unknown(c)' /\ ToldBefore(c)'
  <2>1. Live(c)' = Live(c) /\ Live(c) \subseteq Mine(c)
    BY Zenon, <1>4 DEF Live, Mine
  <2>2. \A o \in Mine(c) : Unheard(c, o) => Unheard(c, o)'
    BY Zenon, <1>2, <1>17 DEF Unheard
  <2>3. QED
    BY Zenon, <2>1, <2>2, <1>4, <1>5, <1>13 DEF ControllerInv, Unknown, ToldBefore, Mine
<1>19. Fresh(c)'
  <2>1. ASSUME NEW x \in Range(queue[c]), x.type = "create", born[x.obj] > startedAt[c]
        PROVE  Untold(c, x.obj)'
    <3>1. x.obj # e.obj
      BY Zenon, <2>1, <1>1, <1>4, <1>5 DEF ControllerInv, InSequence, MayPrecede
    <3>2. x.obj \in Mine(c)
      BY Zenon, <2>1, <1>5, PendingFacts DEF ControllerInv, OwnOnly
    <3>3. QED
      BY Zenon, <2>1, <3>1, <3>2, <1>5, <1>17 DEF ControllerInv, Fresh
  <2>2. ASSUME current'[c].type = "create"
        PROVE  /\ born[current'[c].obj] > startedAt[c]
               /\ \A n \in turn'[c]..Len(handlers[c[1]]) :
                     last'[<<c, handlers[c[1]][n], current'[c].obj>>] = "none"
    <3>1. current'[c] = e /\ e.type = "create"
      BY Zenon, <2>2, <1>12, EventFacts
    <3>2. /\ turn'[c] = turn[c] + 1
          /\ \A n \in turn[c] + 1..Len(handlers[c[1]]) :
                n \in turn[c]..Len(handlers[c[1]]) /\ handlers[c[1]][n] # t
      BY Zenon, <3>1, <1>3, <1>4, <1>5
    <3>3. /\ born[e.obj] > startedAt[c]
          /\ \A n \in turn[c]..Len(handlers[c[1]]) : last[<<c, handlers[c[1]][n], e.obj>>] = "none"
      BY Zenon, <3>1, <1>1, <1>5 DEF ControllerInv, Fresh
    <3>4. ASSUME NEW n \in turn[c] + 1..Len(handlers[c[1]])
          PROVE  last'[<<c, handlers[c[1]][n], e.obj>>] = "none"
      <4>1. PICK s : s = handlers[c[1]][n]
        OBVIOUS
      <4>2. s # t /\ last[<<c, s, e.obj>>] = "none"
        BY Zenon, <4>1, <3>2, <3>3
      <4>3. s \in TriggerIndex
        BY Zenon, <4>1, <3>2, <1>1, <1>4, <1>5, TurnFacts DEF ControllerInv
      <4>4. <<c, s, e.obj>> # p /\ <<c, s, e.obj>> \in Controllers \X TriggerIndex \X Objects
        BY <4>2, <4>3, <1>1, <1>2 DEF Mine
      <4>5. QED
        BY Zenon, <4>1, <4>2, <4>4, <1>6
    <3>5. QED
      BY Zenon, <3>1, <3>2, <3>3, <3>4
  <2>3. QED
    BY Zenon, <2>1, <2>2, <1>4 DEF Fresh
<1>20. Final(c)'
  <2> SUFFICES ASSUME NEW o \in Mine(c), NEW s \in TriggerIndex, last'[<<c, s, o>>] = "delete"
               PROVE  /\ life'[o] = "gone" /\ \A x \in Range(queue'[c]) : x.obj # o
                      /\ current'[c] # NoEvent /\ current'[c].obj = o => current'[c].type = "delete"
    BY Zenon DEF Final, Mine
  <2>1. CASE <<c, s, o>> = p
    <3>1. o = e.obj
      BY <2>1, <1>1
    <3>2. e.type = "delete"
      BY Zenon, <2>1, <1>2, <1>6
    <3>3. life[o] = "gone" /\ \A x \in Range(queue[c]) : x.obj # o
      BY Zenon, <3>1, <3>2, <1>1, <1>2, <1>4, <1>5
         DEF ControllerInv, OwnOnly, InSequence, MayPrecede
    <3>4. QED
      BY Zenon, <3>2, <3>3, <1>4, <1>12
  <2>2. CASE <<c, s, o>> # p
    <3>1. last[<<c, s, o>>] = "delete"
      <4>1. <<c, s, o>> \in Controllers \X TriggerIndex \X Objects
        BY DEF Mine
      <4>2. QED
        BY Zenon, <4>1, <2>2, <1>6
    <3>2. QED
      BY Zenon, <3>1, <1>1, <1>4, <1>5, <1>12 DEF ControllerInv, Final
  <2>3. QED
    BY Zenon, <2>1, <2>2
<1>21. QED
  BY Zenon, <1>7, <1>8, <1>9, <1>11, <1>14, <1>15, <1>16, <1>18, <1>19, <1>20
     DEF Inv, ControllerInv

\* What becomes of an object concerns the controllers that watch it only, each of which
\* queues the event if its informer watches.
LEMMA NotifyInv ==
    ASSUME Inv, NEW o \in Objects, NEW type \in EventTypes, Notify(type, o), life[o] # "gone",
           life' \in [Objects -> {"none", "live", "gone"}], born' \in [Objects -> Nat],
           \A x \in Objects : x # o => life'[x] = life[x] /\ born'[x] = born[x],
           born'[o] <= now, life[o] # "none" => born'[o] = born[o],
           life'[o] = IF type = "delete" THEN "gone" ELSE "live",
           life[o] = "none" <=> type = "create",
           UNCHANGED <<sourceVars, now, serverStartTime, informer, current, turn, startedAt,
                       creates, last>>
    PROVE  Inv'
<1>1. PICK e \in Events : e = Event(type, o) /\ e.type = type /\ e.obj = o /\ e # NoEvent
  BY Zenon, EventFacts
<1>2. /\ SourcesInv /\ Clocks /\ ControllerTypes
      /\ cache \in [Controllers -> SUBSET Objects] /\ queue \in [Controllers -> Seq(Events)]
  BY Zenon DEF Inv, ControllerTypes
<1>3. PICK told \in SUBSET Controllers :
         /\ \A c \in Controllers : c \in told <=> o \in Mine(c) /\ informer[c] = "watching"
         /\ queue' = [c \in Controllers |->
                         IF c \in told THEN Append(queue[c], e) ELSE queue[c]]
         /\ cache' = [c \in Controllers |->
                         IF c \notin told THEN cache[c]
                         ELSE IF type = "delete" THEN cache[c] \ {o} ELSE cache[c] \cup {o}]
  <2>1. \A c \in Controllers : Watches(c, o) <=> o \in Mine(c)
    BY Zenon DEF Mine
  <2>2. QED
    BY Zenon, <1>1, <2>1 DEF Notify
<1>4. UNCHANGED <<started, handlers>>
  BY Zenon DEF sourceVars
<1>5. Clocks' /\ Counted'
  <2>1. \A x \in Objects : born'[x] <= now
    BY Zenon, <1>2 DEF Clocks
  <2>2. QED
    BY Zenon, <2>1 DEF Inv, Clocks, Counted
<1>6. ControllerTypes'
  <2>1. \A c \in Controllers : Append(queue[c], e) \in Seq(Events)
    BY <1>2
  <2>2. cache' \in [Controllers -> SUBSET Objects]
    BY Zenon, <1>2, <1>3
  <2>3. queue' \in [Controllers -> Seq(Events)]
    BY Zenon, <2>1, <1>2, <1>3
  <2>4. QED
    BY Zenon, <2>2, <2>3, <1>2 DEF ControllerTypes
<1>7. SourcesInv'
  BY Zenon, <1>2, SourcesKept
<1>8. ASSUME NEW c \in Controllers PROVE ControllerInv(c)'
  <2>1. ControllerInv(c) /\ SameTold(c) /\ SameHandlers(c) /\ informer'[c] = informer[c]
    BY Zenon, <1>4 DEF Inv, SameTold, SameHandlers
  <2>2. c \notin told => SameEvents(c) /\ cache'[c] = cache[c]
    BY Zenon, <1>3 DEF SameEvents
  <2>3. CASE o \notin Mine(c)
    <3>1. SameObjects(c)
      BY Zenon, <2>3 DEF SameObjects, Mine
    <3>2. QED
      BY Zenon, <2>1, <2>2, <2>3, <3>1, <1>2, <1>3, ControllerKept
  <2>4. ObjectsAge(c)
    <3>1. \A x \in Mine(c) : x # o => life'[x] = life[x] /\ born'[x] = born[x]
      BY Zenon DEF Mine
    <3>2. life'[o] # "none"
      BY Zenon
    <3>3. QED
      BY Zenon, <3>1, <3>2 DEF ObjectsAge
  <2>5. CASE informer[c] # "watching"
    BY Zenon, <2>1, <2>2, <2>4, <2>5, <1>2, <1>3, <1>4, UnseenInv
  <2>6. CASE o \in Mine(c) /\ informer[c] = "watching"
    <3>1. queue'[c] = queue[c] \o <<e>>
      <4>1. PICK q \in Seq(Events) : q = queue[c]
        BY Zenon, <1>2
      <4>2. Append(q, e) = q \o <<e>>
        BY AppendIsConcat
      <4>3. queue'[c] = Append(queue[c], e)
        BY Zenon, <2>6, <1>3
      <4>4. QED
        BY <4>1, <4>2, <4>3
    <3>2. <<e>> \in Seq(Events) /\ Sorted(<<e>>) /\ Range(<<e>>) = {e}
      BY DEF Sorted, Range
    <3>3. cache'[c] = IF type = "delete" THEN cache[c] \ {o} ELSE cache[c] \cup {o}
      BY Zenon, <2>6, <1>3
    <3>4. life'[o] # "none" /\ (type = "delete" => life'[o] = "gone")
      BY Zenon
    <3>5. MayQueue(c, e)
      <4>1. life[o] = "none" => Unheard(c, o)
        BY Zenon, <2>1, <2>6 DEF ControllerInv, Unknown
      <4>2. type = "create" => Untold(c, o)
        BY Zenon, <4>1 DEF Unheard
      <4>3. ASSUME NEW x \in Pending(c), x.obj = o PROVE x.type # "delete" /\ type # "create"
        <5>1. x.type = "delete" => life[o] = "gone"
          BY Zenon, <4>3, <2>1 DEF ControllerInv, OwnOnly
        <5>2. type # "create"
          BY Zenon, <4>1, <4>3 DEF Unheard
        <5>3. QED
          BY Zenon, <5>1, <5>2
      <4>4. QED
        BY Zenon, <4>2, <4>3, <3>4, <2>6, <1>1 DEF MayQueue, MayPrecede
    <3>6. \A x \in cache'[c] : x \in Mine(c) /\ life'[x] # "none"
      <4>1. \A x \in cache[c] : x \in Mine(c) /\ life[x] # "none"
        BY Zenon, <2>1 DEF ControllerInv, OwnOnly
      <4>2. QED
        BY Zenon, <4>1, <3>3, <3>4, <2>4, <2>6 DEF ObjectsAge
    <3>7. Live(c)' \subseteq cache'[c]
      <4>1. \A x \in Objects : life[x] = "live" /\ Watches(c, x) => x \in cache[c]
        BY Zenon, <2>1, <2>6 DEF ControllerInv, Unknown, Live
      <4>2. ASSUME NEW x \in Objects, life'[x] = "live", Watches(c, x) PROVE x \in cache'[c]
        <5>1. CASE x = o
          <6>1. type # "delete"
            BY Zenon, <4>2, <5>1
          <6>2. QED
            BY Zenon, <6>1, <5>1, <3>3
        <5>2. CASE x # o
          BY Zenon, <4>1, <4>2, <5>2, <3>3
        <5>3. QED
          BY Zenon, <5>1, <5>2
      <4>3. QED
        BY Zenon, <4>2 DEF Live
    <3>8. \A r \in Range(<<e>>) : MayQueue(c, r)
      BY Zenon, <3>2, <3>5
    <3>9. informer[c] # "off" /\ informer'[c] = "watching" /\ current'[c] = current[c]
          /\ turn'[c] = turn[c] /\ startedAt'[c] = startedAt[c]
      BY Zenon, <2>6
    <3>10. QED
      BY Zenon, <3>1, <3>2, <3>6, <3>7, <3>8, <3>9, <2>1, <2>4, <1>2, <1>4, QueuedInv
  <2>7. QED
    BY Zenon, <2>3, <2>5, <2>6
<1>9. QED
  BY Zenon, <1>5, <1>6, <1>7, <1>8 DEF Inv

\* Objects are created, changed and deleted.
LEMMA ObjectInv ==
    ASSUME Inv, NEW o \in Objects, CreateObject(o) \/ UpdateObject(o) \/ DeleteObject(o)
    PROVE  Inv'
<1>1. /\ life \in [Objects -> {"none", "live", "gone"}] /\ born \in [Objects -> Nat]
      /\ now \in Nat /\ born[o] <= now
  BY Zenon DEF Inv, Clocks
<1>2. CASE CreateObject(o)
  <2>1. /\ life[o] = "none" /\ life' = [life EXCEPT ![o] = "live"]
        /\ born' = [born EXCEPT ![o] = now] /\ Notify("create", o)
        /\ UNCHANGED <<sourceVars, now, serverStartTime, informer, current, turn, startedAt,
                       creates, last>>
    BY Zenon, <1>2 DEF CreateObject, history
  <2>2. /\ life' \in [Objects -> {"none", "live", "gone"}] /\ born' \in [Objects -> Nat]
        /\ \A x \in Objects : x # o => life'[x] = life[x] /\ born'[x] = born[x]
        /\ life'[o] = "live" /\ born'[o] = now /\ now <= now
    BY <2>1, <1>1
  <2>3. "create" \in EventTypes /\ "create" # "delete" /\ life[o] # "gone"
    BY <2>1 DEF EventTypes
  <2>4. QED
    BY Zenon, <2>1, <2>2, <2>3, NotifyInv
<1>3. CASE UpdateObject(o)
  <2>1. /\ life[o] = "live" /\ life' = life /\ born' = born /\ Notify("update", o)
        /\ UNCHANGED <<sourceVars, now, serverStartTime, informer, current, turn, startedAt,
                       creates, last>>
    BY Zenon, <1>3 DEF UpdateObject, history
  <2>2. /\ "update" \in EventTypes /\ "update" # "delete" /\ "update" # "create"
        /\ life[o] # "gone" /\ life[o] # "none"
    BY <2>1 DEF EventTypes
  <2>3. QED
    BY Zenon, <2>1, <2>2, <1>1, NotifyInv
<1>4. CASE DeleteObject(o)
  <2>1. /\ life[o] = "live" /\ life' = [life EXCEPT ![o] = "gone"] /\ born' = born
        /\ Notify("delete", o)
        /\ UNCHANGED <<sourceVars, now, serverStartTime, informer, current, turn, startedAt,
                       creates, last>>
    BY Zenon, <1>4 DEF DeleteObject, history
  <2>2. /\ life' \in [Objects -> {"none", "live", "gone"}] /\ life'[o] = "gone"
        /\ \A x \in Objects : x # o => life'[x] = life[x]
    BY Zenon, <2>1, <1>1
  <2>3. /\ "delete" \in EventTypes /\ "delete" # "create"
        /\ life[o] # "gone" /\ life[o] # "none"
    BY <2>1 DEF EventTypes
  <2>4. QED
    BY Zenon, <2>1, <2>2, <2>3, <1>1, NotifyInv
<1>5. QED
  BY Zenon, <1>2, <1>3, <1>4

-----------------------------------------------------------------------------
(* Theorems *)

\* Every step preserves the invariant.
LEMMA InvNext == Inv /\ [Next]_vars => Inv'
<1> SUFFICES ASSUME Inv, [Next]_vars PROVE Inv'
  OBVIOUS
<1>1. CASE Start \/ Boot \/ Tick
  BY Zenon, <1>1, StartInv
<1>2. CASE Stop \/ \E c \in Controllers : WatchExpires(c)
  BY Zenon, <1>2, StopInv
<1>3. CASE Exit \/ \E c \in Controllers : SetupFatal(c) \/ RelistPanics(c)
  BY Zenon, <1>3, DieInv DEF Exit, SetupFatal, RelistPanics
<1>4. ASSUME NEW c \in Controllers, ControllerStep(c) PROVE Inv'
  BY Zenon, <1>4, RunInv, ListInv, RelistInv, TakeInv, CallHandlerInv DEF ControllerStep
<1>5. ASSUME NEW o \in Objects, CreateObject(o) \/ UpdateObject(o) \/ DeleteObject(o) PROVE Inv'
  BY Zenon, <1>5, ObjectInv
<1>6. CASE UNCHANGED vars
  <2>1. /\ SourcesInv' /\ started \subseteq started' /\ handlers' = handlers
        /\ UNCHANGED <<now, life, born, controllerVars, history>>
    BY Zenon, <1>6, SourcesKept DEF vars, Inv, sourceVars, objectVars
  <2>2. now' \in Nat /\ now <= now'
    BY <2>1 DEF Inv, Clocks
  <2>3. QED
    BY Zenon, <2>1, <2>2, QuietInv
<1>7. QED
  BY Zenon, <1>1, <1>2, <1>3, <1>4, <1>5, <1>6 DEF Next

\* The inductive invariant of the sources and the controllers.
THEOREM InvHolds == Spec => []Inv
<1>1. QED
  BY InitInv, InvNext, PTL DEF Spec

\* The state of the process, of its controllers and of the objects has its type.
THEOREM TypeCorrect == Spec => []TypeOK
<1>1. ASSUME Inv PROVE TypeOK
  <2>1. /\ stage \in {"load", "init", "run", "serving", "failed"}
        /\ next \in 1..(Len(conf) + 1) /\ Len(conf) \in Nat /\ Len(conf) <= MaxTriggers
    BY <1>1 DEF Inv, SourcesInv, Loaded
  <2>2. /\ started \subseteq Controllers /\ crons \subseteq 1..Len(conf)
        /\ DOMAIN handlers = DOMAIN configs /\ DOMAIN configs \subseteq Keys
    BY Zenon, <1>1 DEF Inv, SourcesInv, Prepared, Launched
  <2>3. 1..Len(conf) \subseteq TriggerIndex
    BY <2>1, WatcherAssumption DEF TriggerIndex
  <2>4. \A c \in Controllers : cache[c] \subseteq {o \in Objects : Watches(c, o)}
    BY Zenon, <1>1 DEF Inv, ControllerInv, OwnOnly, Mine
  <2>5. ASSUME NEW c \in Controllers
        PROVE  turn[c] \in 0..Len(conf) /\ (turn[c] = 0 <=> current[c] = NoEvent)
    <3>1. SourcesInv /\ Working(c)
      BY Zenon, <1>1 DEF Inv, ControllerInv
    <3>2. CASE current[c] = NoEvent
      <4>1. turn[c] = 0
        BY Zenon, <3>1, <3>2 DEF Working
      <4>2. QED
        BY <4>1, <3>2, <2>1
    <3>3. CASE current[c] # NoEvent
      <4>1. c \in started /\ turn[c] \in 1..Len(handlers[c[1]]) /\ Len(handlers[c[1]]) \in Nat
        BY Zenon, <3>1, <3>3, TurnFacts
      <4>2. Len(handlers[c[1]]) <= Len(conf)
        BY Zenon, <3>1, <4>1, HandlerFacts
      <4>3. QED
        BY <4>1, <4>2, <3>3, <2>1
    <3>4. QED
      BY Zenon, <3>2, <3>3
  <2>6. QED
    BY Zenon, <1>1, <2>1, <2>2, <2>3, <2>4, <2>5 DEF TypeOK, Inv, Clocks, ControllerTypes
<1>2. QED
  BY <1>1, InvHolds, PTL

\* The watcher is set up as the list of triggers as a whole asks for, and the controllers
\* started are those asked for.
THEOREM SetUpCorrect == Spec => []SetUpAsAsked
<1>1. ASSUME Inv PROVE SetUpAsAsked
  BY Zenon, <1>1, SetUp DEF Inv
<1>2. QED
  BY <1>1, InvHolds, PTL

\* No handler hears of the creation of an object that is older than its controller.
THEOREM CreatesAreRecent == Spec => []NoStaleCreate
<1>1. ASSUME Inv PROVE NoStaleCreate
  BY Zenon, <1>1 DEF Inv, ControllerInv, Fresh, NoStaleCreate
<1>2. QED
  BY <1>1, InvHolds, PTL

\* Each controller calls each trigger's handler for the creation of an object at most
\* once, whatever restarts and lists there are and however often a cluster is named.
THEOREM CreatesAreHandledOnce == Spec => []CreateHandledOnce
<1>1. ASSUME Inv PROVE CreateHandledOnce
  BY Zenon, <1>1 DEF Inv, ControllerTypes, Counted, CreateHandledOnce
<1>2. QED
  BY <1>1, InvHolds, PTL

\* Only a call of a handler changes what triggers were told.
LEMMA OthersTellNothing ==
    [Next]_vars => last' = last \/ \E c \in Controllers : CallHandler(c)
  BY Zenon DEF Next, vars, Start, Stop, Exit, Boot, Tick, ControllerStep, SetupFatal, WatchExpires,
     RelistPanics, Die, Run, List, Relist, Take, CreateObject, UpdateObject, DeleteObject, history

\* Each controller tells a trigger of an object in the order of its life: first of its
\* creation, and last of its deletion.
THEOREM EventsAreInOrder == Spec => EventsInOrder
<1> DEFINE InStep == \A p \in DOMAIN last : Rank[last[p]] <= Rank[last'[p]]
<1>1. ASSUME Inv, [Next]_vars PROVE InStep
  <2>1. last \in [Controllers \X TriggerIndex \X Objects -> EventTypes \cup {"none"}]
    BY Zenon, <1>1 DEF Inv, ControllerTypes
  <2>2. /\ Rank["none"] = 0 /\ Rank["create"] = 1 /\ Rank["update"] = 2 /\ Rank["delete"] = 3
        /\ \A type \in EventTypes \cup {"none"} : Rank[type] \in 0..3
    BY DEF Rank, EventTypes
  <2>3. \A p \in DOMAIN last : last[p] \in EventTypes \cup {"none"} /\ Rank[last[p]] \in 0..3
    BY Zenon, <2>1, <2>2
  <2>4. CASE last' = last
    <3>1. \A n \in 0..3 : n <= n
      OBVIOUS
    <3>2. QED
      BY Zenon, <3>1, <2>3, <2>4
  <2>5. ASSUME NEW c \in Controllers, CallHandler(c) PROVE InStep
    <3>1. PICK e, t, q : e = current[c] /\ t = handlers[c[1]][turn[c]] /\ q = <<c, t, e.obj>>
      OBVIOUS
    <3>2. /\ e \in Events /\ e.obj \in Mine(c) /\ t \in TriggerIndex
          /\ q \in Controllers \X TriggerIndex \X Objects
          /\ last' = [last EXCEPT ![q] = e.type]
          /\ e.type = "create" => last[q] = "none"
      BY Zenon, <1>1, <2>5, <3>1, CallFacts
    <3>3. e.type \in EventTypes /\ e # NoEvent
      BY Zenon, <3>1, <3>2, EventFacts DEF Events
    <3>4. last[q] = "delete" => e.type = "delete"
      BY Zenon, <1>1, <3>1, <3>2, <3>3 DEF Inv, ControllerInv, Final
    <3>5. last[q] \in EventTypes \cup {"none"}
      BY Zenon, <3>2, <2>1
    <3>6. Rank[last[q]] <= Rank[e.type]
      BY <3>2, <3>3, <3>4, <3>5, <2>2 DEF EventTypes
    <3>7. \A p \in DOMAIN last : last'[p] = IF p = q THEN e.type ELSE last[p]
      BY Zenon, <3>2
    <3>8. QED
      BY <3>6, <3>7, <2>3
  <2>6. QED
    BY Zenon, <1>1, <2>4, <2>5, OthersTellNothing
<1>2. QED
  BY <1>1, InvHolds, PTL DEF Spec, EventsInOrder
=============================================================================
