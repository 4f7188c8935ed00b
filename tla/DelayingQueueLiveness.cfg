\* One item, a worker that retries it and another caller, with delays of one tick.
SPECIFICATION FairSpec
CONSTANTS
    Items = {i1}
    Workers = {w1}
    Callers = {c1}
    NoItem = NoItem
    Delays <- ShortDelay
    ChanCap = 1
    MaxRetries = 1
    MaxDebt = 0
    BaseDelay = 1
    MaxDelay = 1
    MaxDuration = 1
    Burst = 1
    FastDelay = 1
    SlowDelay = 1
    MaxFastAttempts = 1
    MaxWait = 1
    Limiters <- PlainLimiter
PROPERTIES Delivered CallersGoOn LoopEnds
CHECK_DEADLOCK FALSE
