----------------------- MODULE MCIndexerDelayingQueue -----------------------
(* Instances of IndexerDelayingQueue for TLC. *)
EXTENDS IndexerDelayingQueue, TLC

Symmetry ==
    Permutations(Keys) \cup Permutations(Workers) \cup Permutations(Adders)
=============================================================================
