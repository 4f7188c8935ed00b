----------------------------- MODULE StingyQueue -----------------------------
(***************************************************************************)
(* What a work queue promises its users, without saying how: an item added *)
(* any number of times before it is taken is taken once, it is never in    *)
(* the hands of two workers at a time, it may be added again while it is   *)
(* being processed and is then taken again after it was given back, and    *)
(* once the queue is closed nothing new enters it but what is pending can  *)
(* still be taken.                                                         *)
(***************************************************************************)
CONSTANT Items

VARIABLES
    pending,  \* items that still have to be processed
    active,   \* items some worker is processing
    closed    \* the queue takes no new items

vars == <<pending, active, closed>>

Init ==
    /\ pending = {}
    /\ active = {}
    /\ closed = FALSE

Offer(i) ==
    /\ ~closed
    /\ pending' = pending \cup {i}
    /\ UNCHANGED <<active, closed>>

Take(i) ==
    /\ i \in pending \ active
    /\ pending' = pending \ {i}
    /\ active' = active \cup {i}
    /\ UNCHANGED closed

GiveBack(i) ==
    /\ i \in active
    /\ active' = active \ {i}
    /\ UNCHANGED <<pending, closed>>

Close ==
    /\ closed' = TRUE
    /\ UNCHANGED <<pending, active>>

Next == Close \/ \E i \in Items : Offer(i) \/ Take(i) \/ GiveBack(i)

Spec == Init /\ [][Next]_vars
=============================================================================
