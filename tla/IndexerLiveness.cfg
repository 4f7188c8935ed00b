SPECIFICATION FairSpec
CONSTANTS
    Keys = {k1, k2}
    Versions = {1}
    Delays = {}
    Adders = {a1, a2}
    Workers = {w1}
    Drainers = {d1}
    Stoppers = {s1}
    Cap = 1
    ChanCap = 1
    Compared = FALSE
    KeysFail = FALSE
    MaxTime = 0
    MaxCalls = 3
    NoItem = NoItem
INVARIANTS OvershootBounded
PROPERTIES KnownDelivered AddersGoOn DrainReturns
CHECK_DEADLOCK FALSE
