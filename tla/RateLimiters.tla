---------------------------- MODULE RateLimiters ----------------------------
(***************************************************************************)
(* The rate limiters of pkg/workqueue/default_rate_limiters.go: how long   *)
(* an item has to wait before it is tried again.                           *)
(*                                                                         *)
(* Delays are ticks of the clock.  A duration is a signed integer with     *)
(* MaxDuration (2^63 - 1 in the code) as its largest value; the float that *)
(* the code compares it with is MaxDuration + 1.                           *)
(***************************************************************************)
EXTENDS Integers

CONSTANTS
    Items,            \* what is rate limited
    BaseDelay,        \* of the exponential limiter
    MaxDelay,         \* of the exponential limiter
    MaxDuration,      \* the largest time.Duration
    Burst,            \* of the token bucket, which gains a token per tick
    FastDelay, SlowDelay, MaxFastAttempts,  \* of the fast-slow limiter
    MaxWait,          \* of the limiter that cuts off long delays
    Limiters          \* which limiters queues are built with

LimiterKinds == {"maxOf", "fastSlow", "maxOfWithMaxWait"}

ASSUME LimiterAssumption ==
    /\ MaxDuration \in Nat \ {0} /\ Burst \in Nat /\ MaxFastAttempts \in Nat
    /\ BaseDelay \in 1..MaxDuration
    /\ {MaxDelay, FastDelay, SlowDelay, MaxWait} \subseteq 0..MaxDuration
    /\ Limiters \subseteq LimiterKinds

VARIABLES
    limiter,   \* the limiter the queue was made with
    failures,  \* how often each item was rate limited since it was forgotten
    tokens     \* tokens of the bucket, negative while reservations are owed

limiterVars == <<limiter, failures, tokens>>

LimiterInit ==
    /\ limiter \in Limiters
    /\ failures = [i \in Items |-> 0]
    /\ tokens = Burst

\* Converting a float to a duration it does not fit is up to the processor:
\* the smallest value on some, the largest on others.
ToDuration(f) == IF f <= MaxDuration THEN {f} ELSE {-(MaxDuration + 1), MaxDuration}

\* Mutant of ExponentialWhen: the delay is not capped.
ExponentialWhen_Uncapped(n) == ToDuration(BaseDelay * 2^n)

\* ItemExponentialFailureRateLimiter.When for an item that failed n times before:
\* the delays it may return.
ExponentialWhen(n) ==
    LET backoff == BaseDelay * 2^n
    IN  IF backoff > MaxDuration + 1
        THEN {MaxDelay}
        ELSE {IF calculated > MaxDelay THEN MaxDelay ELSE calculated :
                 calculated \in ToDuration(backoff)}

\* BucketRateLimiter.When: how long until the token just reserved is there.
BucketWhen == IF tokens >= 1 THEN 0 ELSE 1 - tokens

Larger(a, b) == IF a > b THEN a ELSE b
Smaller(a, b) == IF a < b THEN a ELSE b

\* MaxOfRateLimiter.When of the exponential limiter and the bucket.  Starting
\* from 0 it never returns less than that.
MaxOfWhen(n) == {Larger(Larger(0, d), BucketWhen) : d \in ExponentialWhen(n)}

FastSlowWhen(n) == IF n + 1 <= MaxFastAttempts THEN FastDelay ELSE SlowDelay

WithMaxWaitWhen(d) == IF d > MaxWait THEN MaxWait ELSE d

\* When of the queue's limiter; d is the delay it returns.
When(i, d) ==
    /\ failures' = [failures EXCEPT ![i] = @ + 1]
    /\ CASE limiter = "fastSlow" -> d = FastSlowWhen(failures[i]) /\ UNCHANGED tokens
         [] limiter = "maxOf" -> d \in MaxOfWhen(failures[i]) /\ tokens' = tokens - 1
         [] limiter = "maxOfWithMaxWait" ->
               /\ \E e \in MaxOfWhen(failures[i]) : d = WithMaxWaitWhen(e)
               /\ tokens' = tokens - 1
    /\ UNCHANGED limiter

NumRequeues(i) == failures[i]

Forget(i) ==
    /\ failures' = [failures EXCEPT ![i] = 0]
    /\ UNCHANGED <<limiter, tokens>>

\* A tick of the clock refills the bucket.
Refill ==
    /\ tokens' = Smaller(Burst, tokens + 1)
    /\ UNCHANGED <<limiter, failures>>

LimiterTypeOK ==
    /\ limiter \in Limiters
    /\ failures \in [Items -> Nat]
    /\ tokens \in Int
=============================================================================
