-------------------------- MODULE MCTriggerService --------------------------
(* An instance of TriggerService for TLC: one service. *)
EXTENDS TriggerService, TLC

CONSTANTS s1, home

OneName == s1 :> s1
AllAtHome == [s \in Services |-> home]
=============================================================================
