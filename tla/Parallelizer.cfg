\* All calls with up to five pieces, chunks of up to three and three workers.
SPECIFICATION Spec
CONSTANTS
    MaxPieces = 5
    MaxChunk = 3
    MaxWorkers = 3
INVARIANTS AtMostOnce ReturnMeansDone
CHECK_DEADLOCK FALSE
