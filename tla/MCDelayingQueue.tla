--------------------------- MODULE MCDelayingQueue ---------------------------
(* The delaying queue for TLC. *)
EXTENDS DelayingQueue

PlainLimiter == {"maxOf"}
ShortDelay == {1}
=============================================================================
