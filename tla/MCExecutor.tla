----------------------------- MODULE MCExecutor -----------------------------
(* Instances of Executor for TLC. *)
EXTENDS Executor

CONSTANTS j1, j2, a

\* All jobs are made for one action
OneAction == [j \in Jobs |-> a]
=============================================================================
