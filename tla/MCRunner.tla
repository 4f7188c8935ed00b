------------------------------ MODULE MCRunner ------------------------------
(* Replicas and versions for TLC. *)
EXTENDS Runner

CONSTANTS r1, r2, r3, v1, v2

\* Two replicas of one version and one of another, as in an upgrade
Upgrade == [r \in Replicas |-> IF r = r3 THEN v2 ELSE v1]
=============================================================================
