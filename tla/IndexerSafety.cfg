SPECIFICATION Spec
CONSTANTS
    Keys = {k1}
    Versions = {1, 2}
    Delays = {1, 2}
    Adders = {a1, a2}
    Workers = {w1, w2}
    Drainers = {}
    Stoppers = {s1}
    Cap = 2
    ChanCap = 1
    Compared = TRUE
    KeysFail = TRUE
    MaxTime = 2
    MaxCalls = 3
    NoItem = NoItem
SYMMETRY Symmetry
INVARIANTS IndexConsistent OneWorkerPerKey NeverEarly NoStaleVersion
PROPERTIES ImplementsStingyQueue
