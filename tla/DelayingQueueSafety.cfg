\* One item, a worker that retries it and another caller; the backoff reaches its
\* cap and the edge of the duration.
SPECIFICATION HSpec
CONSTANTS
    Items = {i1}
    Workers = {w1}
    Callers = {c1}
    NoItem = NoItem
    Delays <- LongDelay
    ChanCap = 1
    MaxRetries = 4
    MaxDebt = 1
    BaseDelay = 1
    MaxDelay = 2
    MaxDuration = 3
    Burst = 1
    FastDelay = 1
    SlowDelay = 2
    MaxFastAttempts = 1
    MaxWait = 1
    Limiters <- AllLimiters
INVARIANTS RetryNotLost PromiseKept BackoffRespected 
CHECK_DEADLOCK FALSE
