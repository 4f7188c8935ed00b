---------------------------- MODULE QueueMetrics ----------------------------
(***************************************************************************)
(* The metrics a work queue keeps for a metrics provider                   *)
(* (pkg/workqueue/metrics.go, defaultQueueMetrics).  Times and histogram   *)
(* observations are abstracted: addTimes and processingStartTimes are the  *)
(* key sets of the maps of the same name.  The owner of the queue holds    *)
(* the queue's lock around each of these operators.                        *)
(***************************************************************************)
EXTENDS Integers

VARIABLES
    depth,                \* the gauge "current depth of a workqueue"
    addTimes,             \* items whose time of addition is recorded
    processingStartTimes  \* items whose start of processing is recorded

metrics == <<depth, addTimes, processingStartTimes>>

MetricsInit ==
    /\ depth = 0
    /\ addTimes = {}
    /\ processingStartTimes = {}

MetricsAdd(item) ==
    /\ depth' = depth + 1
    /\ addTimes' = addTimes \cup {item}
    /\ UNCHANGED processingStartTimes

\* Mutant of MetricsGet: the gauge is not decremented.
MetricsGet_KeepsDepth(item) ==
    /\ addTimes' = addTimes \ {item}
    /\ processingStartTimes' = processingStartTimes \cup {item}
    /\ UNCHANGED depth

MetricsGet(item) ==
    /\ depth' = depth - 1
    /\ addTimes' = addTimes \ {item}
    /\ processingStartTimes' = processingStartTimes \cup {item}

MetricsDone(item) ==
    /\ processingStartTimes' = processingStartTimes \ {item}
    /\ UNCHANGED <<depth, addTimes>>
=============================================================================
