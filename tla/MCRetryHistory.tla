---------------------------- MODULE MCRetryHistory ----------------------------
(* The delaying queue with its record of retries, for TLC. *)
EXTENDS RetryHistory

AllLimiters == LimiterKinds
LongDelay == {2}
=============================================================================
