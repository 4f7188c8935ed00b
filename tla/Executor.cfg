\* Two jobs of one action and two workers, with and without retries.
SPECIFICATION HangingSpec
CONSTANTS
    j1 = j1
    j2 = j2
    a = a
    Jobs = {j1, j2}
    IDs = {a}
    ID <- OneAction
    Workers = {w1, w2}
    MaxQueueSize = 1
    MaxRetries = 1
    AllowConcurrency = FALSE
    NoJob = NoJob
INVARIANTS JobsAccountedFor RetriesBounded StatusNotStale
PROPERTIES JobsDecided WorkersExit ShutdownEnds
