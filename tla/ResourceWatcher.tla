--------------------------- MODULE ResourceWatcher ---------------------------
(***************************************************************************)
(* A kube-trigger process that watches Kubernetes objects: the controllers *)
(* of pkg/source/builtin/k8sresourcewatcher/controller, one for each       *)
(* config and place in its list of clusters that module Sources starts,    *)
(* and the event handlers of pkg/eventhandler that they call.              *)
(*                                                                         *)
(* Informers are client-go's: they list, watch, and list again when the    *)
(* watch cannot be resumed.  The clock counts half seconds; the creation   *)
(* timestamp of an object has whole seconds.                               *)
(***************************************************************************)
EXTENDS Sources

CONSTANTS
    Controllers,  \* key, cluster and place in the list of clusters
    Objects,      \* the objects that are created, changed and deleted, known by their UID
    Home,         \* the key and the cluster of each object
    NoMapping,    \* keys whose kind the API server does not know
    MaxTriggers,  \* no configuration has more triggers
    MaxTime, MaxBacklog, MaxBoots  \* bounds of the model: the clock, queues that grow by
                                   \* updates, starts of the process

TriggerIndex == 1..MaxTriggers
NoEvent == [type |-> "none"]

ASSUME WatcherAssumption ==
    /\ Controllers \subseteq Keys \X Clusters \X Nat
    /\ Home \in [Objects -> Keys \X Clusters] /\ IsFiniteSet(Objects)
    /\ NoMapping \subseteq Keys
    /\ MaxTriggers \in Nat /\ MaxTime \in Nat /\ MaxBacklog \in Nat /\ MaxBoots \in Nat

\* The controllers that trigger t asks for
ControllersOf(t) ==
    LET clusters == ClustersOf(t)
    IN  {<<t.key, clusters[n], n>> : n \in DOMAIN clusters}

\* The triggers of the files of a configuration are triggers, no more than MaxTriggers,
\* and Controllers has what they ask for.
ASSUME TriggersAssumption ==
    \A e \in Environments :
        LET triggers == AllTriggers(e.dir)
        IN  /\ triggers \in Seq(Triggers) /\ Len(triggers) <= MaxTriggers
            /\ \A n \in DOMAIN triggers : ControllersOf(triggers[n]) \subseteq Controllers

VARIABLES
    now, life, born,           \* the clock; state and time of creation of the objects
    up, boots, stopped,        \* the process: alive, how often started, its context done
    serverStartTime,           \* the package variable of that name
    informer, cache,           \* of each controller: state of its informer, objects it has
    queue, current, turn,      \* of each controller: its queue, the event its worker has
                               \* and the handler to be called next with it
    startedAt,                 \* history: when each controller was run
    creates, last              \* history: calls of each handler by each controller for the
                               \* creation of each object, and the type of the last event
                               \* it was called with

objectVars == <<now, life, born>>
processVars == <<up, boots, stopped>>
controllerVars == <<serverStartTime, informer, cache, queue, current, turn, startedAt>>
history == <<creates, last>>
vars == <<sourceVars, objectVars, processVars, controllerVars, history>>

Init ==
    /\ SourcesInit
    /\ now = 0
    /\ life = [o \in Objects |-> "none"] /\ born = [o \in Objects |-> 0]
    /\ up = TRUE /\ boots = 1 /\ stopped = FALSE
    /\ serverStartTime = 0
    /\ informer = [c \in Controllers |-> "off"]
    /\ cache = [c \in Controllers |-> {}]
    /\ queue = [c \in Controllers |-> <<>>]
    /\ current = [c \in Controllers |-> NoEvent]
    /\ turn = [c \in Controllers |-> 0]
    /\ startedAt = [c \in Controllers |-> 0]
    /\ creates = [p \in Controllers \X TriggerIndex \X Objects |-> 0]
    /\ last = [p \in Controllers \X TriggerIndex \X Objects |-> "none"]

-----------------------------------------------------------------------------
(* The process *)

\* run of module Sources, while the process is alive and its context not done
Start ==
    /\ up /\ ~stopped
    /\ run
    /\ UNCHANGED <<objectVars, processVars, controllerVars, history>>

\* The context is done: informers stop, and a controller whose informer was not
\* synced ends.
Stop ==
    /\ up /\ ~stopped
    /\ stopped' = TRUE
    /\ informer' = [c \in Controllers |-> IF informer[c] = "off" THEN "off" ELSE "stopped"]
    /\ UNCHANGED <<sourceVars, objectVars, up, boots, serverStartTime, cache, queue, current,
                   turn, startedAt, history>>

\* Everything the process knew is gone with it.
Die ==
    /\ up' = FALSE
    /\ SourcesRestart
    /\ stopped' = FALSE /\ serverStartTime' = 0
    /\ informer' = [c \in Controllers |-> "off"] /\ cache' = [c \in Controllers |-> {}]
    /\ queue' = [c \in Controllers |-> <<>>] /\ current' = [c \in Controllers |-> NoEvent]
    /\ turn' = [c \in Controllers |-> 0] /\ startedAt' = [c \in Controllers |-> 0]
    /\ UNCHANGED <<boots, objectVars, history>>

\* runCli returns: run failed, or the context is done.
Exit == up /\ (stopped \/ stage = "failed") /\ Die

\* The container is started again.
Boot ==
    /\ ~up /\ boots < MaxBoots
    /\ up' = TRUE /\ boots' = boots + 1
    /\ UNCHANGED <<sourceVars, objectVars, stopped, controllerVars, history>>

-----------------------------------------------------------------------------
(* Informers and their callbacks.  A callback puts its event into the queue. *)

Event(type, o) == [type |-> type, obj |-> o]
Listing(objs) == CHOOSE s \in Injection(1..Cardinality(objs), objs) : TRUE
EventsFor(type, objs) == LET s == Listing(objs) IN [n \in DOMAIN s |-> Event(type, s[n])]
Watches(c, o) == Home[o] = <<c[1], c[2]>>
Live(c) == {o \in Objects : life[o] = "live" /\ Watches(c, o)}

\* Setup: the kind of the config has no mapping, which is fatal.
SetupFatal(c) ==
    /\ up /\ c \in started /\ informer[c] = "off" /\ c[1] \in NoMapping
    /\ Die

\* Mutant of Run: the time is taken by the first controller only.
Run_StampOnce(c) ==
    /\ up /\ ~stopped /\ c \in started /\ informer[c] = "off" /\ c[1] \notin NoMapping
    /\ serverStartTime' = IF serverStartTime = 0 THEN now ELSE serverStartTime
    /\ informer' = [informer EXCEPT ![c] = "listing"]
    /\ startedAt' = [startedAt EXCEPT ![c] = now]
    /\ UNCHANGED <<sourceVars, objectVars, processVars, cache, queue, current, turn, history>>

\* Setup and the beginning of Run: the time is taken and the informer started.
Run(c) ==
    /\ up /\ ~stopped /\ c \in started /\ informer[c] = "off" /\ c[1] \notin NoMapping
    /\ serverStartTime' = now
    /\ informer' = [informer EXCEPT ![c] = "listing"]
    /\ startedAt' = [startedAt EXCEPT ![c] = now]
    /\ UNCHANGED <<sourceVars, objectVars, processVars, cache, queue, current, turn, history>>

\* The first list: AddFunc for every object; the informer is synced.
List(c) ==
    /\ informer[c] = "listing"
    /\ informer' = [informer EXCEPT ![c] = "watching"]
    /\ cache' = [cache EXCEPT ![c] = Live(c)]
    /\ queue' = [queue EXCEPT ![c] = EventsFor("create", Live(c))]
    /\ UNCHANGED <<sourceVars, objectVars, processVars, serverStartTime, current, turn,
                   startedAt, history>>

WatchExpires(c) ==
    /\ informer[c] = "watching" /\ Len(queue[c]) < MaxBacklog
    /\ informer' = [informer EXCEPT ![c] = "expired"]
    /\ UNCHANGED <<sourceVars, objectVars, processVars, serverStartTime, cache, queue, current,
                   turn, startedAt, history>>

\* The list after a watch that could not be resumed: AddFunc for new objects,
\* UpdateFunc for those the informer knew.  An object that was deleted and created again
\* under its name is another object here; client-go would report it as an update.
Relist(c) ==
    /\ informer[c] = "expired" /\ cache[c] \subseteq Live(c)
    /\ informer' = [informer EXCEPT ![c] = "watching"]
    /\ cache' = [cache EXCEPT ![c] = Live(c)]
    /\ queue' = [queue EXCEPT ![c] = @ \o EventsFor("update", cache[c])
                                       \o EventsFor("create", Live(c) \ cache[c])]
    /\ UNCHANGED <<sourceVars, objectVars, processVars, serverStartTime, current, turn,
                   startedAt, history>>

\* An object is missing in that list: DeleteFunc gets a tombstone, which is not the
\* object GetObjectMetaData takes it for, and the panic ends the process.
RelistPanics(c) ==
    /\ informer[c] = "expired" /\ ~(cache[c] \subseteq Live(c))
    /\ Die

-----------------------------------------------------------------------------
(* Objects *)

\* The informers that watch o report its change, and the callbacks queue it.
Notify(type, o) ==
    LET told == {c \in Controllers : Watches(c, o) /\ informer[c] = "watching"}
    IN  /\ queue' = [c \in Controllers |->
                        IF c \in told THEN Append(queue[c], Event(type, o)) ELSE queue[c]]
        /\ cache' = [c \in Controllers |->
                        IF c \notin told THEN cache[c]
                        ELSE IF type = "delete" THEN cache[c] \ {o} ELSE cache[c] \cup {o}]

CreateObject(o) ==
    /\ life[o] = "none"
    /\ life' = [life EXCEPT ![o] = "live"]
    /\ born' = [born EXCEPT ![o] = now]
    /\ Notify("create", o)
    /\ UNCHANGED <<sourceVars, now, processVars, serverStartTime, informer, current,
                   turn, startedAt, history>>

UpdateObject(o) ==
    /\ life[o] = "live"
    /\ \A c \in Controllers : Watches(c, o) => Len(queue[c]) < MaxBacklog
    /\ Notify("update", o)
    /\ UNCHANGED <<sourceVars, now, life, born, processVars, serverStartTime, informer,
                   current, turn, startedAt, history>>

DeleteObject(o) ==
    /\ life[o] = "live"
    /\ life' = [life EXCEPT ![o] = "gone"]
    /\ Notify("delete", o)
    /\ UNCHANGED <<sourceVars, now, born, processVars, serverStartTime, informer,
                   current, turn, startedAt, history>>

Tick ==
    /\ now < MaxTime
    /\ now' = now + 1
    /\ UNCHANGED <<sourceVars, life, born, processVars, controllerVars, history>>

-----------------------------------------------------------------------------
(* The worker of a controller *)

\* metadata.creationTimestamp has whole seconds
CreationTimestamp(o) == born[o] - (born[o] % 2)

listenEvents(k) == configs[k].events

\* Mutant of Passes: creation events are not filtered by time.
Passes_AnyTime(c, e) == listenEvents(c[1]) # {} => e.type \in listenEvents(c[1])

\* processItem: is the event one that handlers are called for?
Passes(c, e) ==
    /\ listenEvents(c[1]) # {} => e.type \in listenEvents(c[1])
    /\ e.type = "create" => CreationTimestamp(e.obj) > serverStartTime

\* Mutant of Take: the event queued last is taken.
Take_Last(c) ==
    /\ informer[c] # "listing" /\ queue[c] # <<>> /\ current[c] = NoEvent
    /\ LET e == queue[c][Len(queue[c])]
       IN  /\ current' = [current EXCEPT ![c] = IF Passes(c, e) THEN e ELSE NoEvent]
           /\ turn' = [turn EXCEPT ![c] = IF Passes(c, e) THEN 1 ELSE 0]
    /\ queue' = [queue EXCEPT ![c] = SubSeq(@, 1, Len(@) - 1)]
    /\ UNCHANGED <<sourceVars, objectVars, processVars, serverStartTime, informer, cache,
                   startedAt, history>>

\* processNextItem up to the first event handler
Take(c) ==
    /\ informer[c] # "listing" /\ queue[c] # <<>> /\ current[c] = NoEvent
    /\ LET e == Head(queue[c])
       IN  /\ current' = [current EXCEPT ![c] = IF Passes(c, e) THEN e ELSE NoEvent]
           /\ turn' = [turn EXCEPT ![c] = IF Passes(c, e) THEN 1 ELSE 0]
    /\ queue' = [queue EXCEPT ![c] = Tail(@)]
    /\ UNCHANGED <<sourceVars, objectVars, processVars, serverStartTime, informer, cache,
                   startedAt, history>>

\* An event handler fails unless its filter keeps the event, the job for its action can
\* be made and the executor has room for it.
HandlerFails(kept, made, room) == ~(kept /\ made /\ room)

\* Mutant of Proceed: the event stays in the worker's hands.
Proceed_KeepsEvent(c, failed) ==
    /\ turn' = [turn EXCEPT ![c] = IF @ < Len(handlers[c[1]]) THEN @ + 1 ELSE 0]
    /\ UNCHANGED current

\* Mutant of Proceed: a failure ends the work on the event.
Proceed_StopsOnError(c, failed) ==
    LET more == turn[c] < Len(handlers[c[1]]) /\ ~failed
    IN  /\ turn' = [turn EXCEPT ![c] = IF more THEN @ + 1 ELSE 0]
        /\ current' = [current EXCEPT ![c] = IF more THEN @ ELSE NoEvent]

\* What the worker does after a handler: it logs a failure and calls the next one; after
\* the last one the event is done.
Proceed(c, failed) ==
    LET more == turn[c] < Len(handlers[c[1]])
    IN  /\ turn' = [turn EXCEPT ![c] = IF more THEN @ + 1 ELSE 0]
        /\ current' = [current EXCEPT ![c] = IF more THEN @ ELSE NoEvent]

\* callEventHandler, one handler after the other
CallHandler(c) ==
    /\ current[c] # NoEvent
    /\ LET p == <<c, handlers[c[1]][turn[c]], current[c].obj>>
       IN  /\ creates' = IF current[c].type = "create"
                         THEN [creates EXCEPT ![p] = @ + 1] ELSE creates
           /\ last' = [last EXCEPT ![p] = current[c].type]
    /\ \E kept, made, room \in BOOLEAN : Proceed(c, HandlerFails(kept, made, room))
    /\ UNCHANGED <<sourceVars, objectVars, processVars, serverStartTime, informer, cache, queue,
                   startedAt>>

ControllerStep(c) == Run(c) \/ List(c) \/ Relist(c) \/ Take(c) \/ CallHandler(c)

Next ==
    \/ Start \/ Stop \/ Exit \/ Boot \/ Tick
    \/ \E c \in Controllers :
          ControllerStep(c) \/ SetupFatal(c) \/ WatchExpires(c) \/ RelistPanics(c)
    \/ \E o \in Objects : CreateObject(o) \/ UpdateObject(o) \/ DeleteObject(o)

Spec == Init /\ [][Next]_vars

\* The process is scheduled and the API server answers.  Nothing has to happen to
\* the objects, and nobody has to stop the process.
FairSpec ==
    /\ Spec
    /\ WF_vars(Start)
    /\ \A c \in Controllers :
          WF_vars(Run(c)) /\ WF_vars(List(c) \/ Relist(c)) /\ WF_vars(Take(c) \/ CallHandler(c))

-----------------------------------------------------------------------------
(* Properties *)

\* The types of what changes while the process runs.
TypeOK ==
    /\ stage \in {"load", "init", "run", "serving", "failed"}
    /\ next \in 1..(Len(conf) + 1)
    /\ started \subseteq Controllers /\ crons \subseteq TriggerIndex
    /\ DOMAIN handlers = DOMAIN configs /\ DOMAIN configs \subseteq Keys
    /\ life \in [Objects -> {"none", "live", "gone"}]
    /\ informer \in [Controllers -> {"off", "listing", "watching", "expired", "stopped"}]
    /\ \A c \in Controllers :
          /\ cache[c] \subseteq {o \in Objects : Watches(c, o)}
          /\ turn[c] \in 0..Len(conf) /\ (turn[c] = 0 <=> current[c] = NoEvent)

\* Setting the triggers up one by one leaves the watcher with what the list of
\* triggers as a whole asks for: for each key every usable trigger's handler, in
\* order, the events any of them names, and the clusters of the first.  Once the
\* process serves, a controller for each place in these lists of clusters was started,
\* or some cluster has no client; and no others were.
SetUpAsAsked ==
    LET asked == UNION {ControllersOf(conf[Min(Usable(k))]) : k \in {k \in Keys : Usable(k) # {}}}
    IN  /\ stage \in {"run", "serving"} =>
               \A k \in Keys :
                   /\ k \in DOMAIN configs <=> Usable(k) # {}
                   /\ k \in DOMAIN configs =>
                         /\ Range(handlers[k]) = Usable(k) /\ InOrder(handlers[k])
                         /\ configs[k].events = AskedEvents(k)
                         /\ ClustersOf(configs[k]) = FirstClusters(k)
        /\ stage = "serving" =>
               /\ started \subseteq asked
               /\ (\A c \in asked : Reachable(c[2])) => started = asked

\* "alert only on latest events": handlers hear of the creation of an object only
\* if it was created after their controller was started, although the start time is
\* shared by all controllers and timestamps are cut off.
NoStaleCreate ==
    \A c \in Controllers : current[c] # NoEvent /\ current[c].type = "create" =>
        born[current[c].obj] > startedAt[c]

\* Each controller has the creation of an object handled at most once by each trigger,
\* across watches that expire and processes that die and list everything again.  Only
\* a trigger that names a cluster twice has two controllers, and handles it twice.
CreateHandledOnce == \A p \in DOMAIN creates : creates[p] <= 1

Rank == [none |-> 0, create |-> 1, update |-> 2, delete |-> 3]

\* A trigger hears from each controller of an object's creation, changes and deletion in
\* that order, also across restarts.
EventsInOrder == [][\A p \in DOMAIN last : Rank[last[p]] <= Rank[last'[p]]]_vars

AllRunning == stage = "serving" /\ \A c \in started : informer[c] \notin {"off", "listing"}

\* The process runs, and controller c has yet to report o to trigger t: o was created
\* later than the second in which the last controller was started.
Unreported(c, t, o) ==
    /\ up /\ ~stopped /\ AllRunning
    /\ c \in started /\ Watches(c, o) /\ t \in Range(handlers[c[1]])
    /\ listenEvents(c[1]) = {} \/ "create" \in listenEvents(c[1])
    /\ life[o] = "live" /\ CreationTimestamp(o) > serverStartTime
    /\ creates[<<c, t, o>>] = 0

\* No object stays unreported: every controller that watches it reports it to every
\* trigger it serves, whatever other handlers of the event do and also when the watch
\* expires, unless the object is deleted or the process ends.
NewObjectsReported ==
    \A c \in Controllers, o \in Objects, t \in TriggerIndex : []<>~Unreported(c, t, o)

\* What the comment on Singleton says of sources that are none: "each Source will have
\* its own instance", and sources "will be executed automatically".
EverySourceRuns ==
    stage = "serving" =>
        \A n \in DOMAIN conf : conf[n].source = "cronjob" /\ conf[n].parses => n \in crons
=============================================================================
