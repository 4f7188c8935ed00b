\* Two jobs of one action and two workers.
SPECIFICATION Spec
CONSTANTS
    j1 = j1
    j2 = j2
    a = a
    Jobs = {j1, j2}
    IDs = {a}
    ID <- OneAction
    Workers = {w1, w2}
    MaxQueueSize = 2
    MaxRetries = 1
    AllowConcurrency = FALSE
    NoJob = NoJob
INVARIANTS
    NoConcurrentRuns
