SPECIFICATION FairSpec
CONSTANTS
    Items = {i1, i2, i3}
    Workers = {w1, w2, w3}
    Drainers = {d1}
    Stoppers = {s1}
    NoItem = NoItem
INVARIANTS MetricsAgree NoLostWakeup
PROPERTIES ImplementsStingyQueue Delivered DrainReturns
