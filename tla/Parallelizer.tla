---------------------------- MODULE Parallelizer ----------------------------
(***************************************************************************)
(* ParallelizeUntil of pkg/workqueue/parallelizer.go: pieces of work, put  *)
(* together in chunks, are done by a number of goroutines until all are    *)
(* done or the context is cancelled.                                       *)
(***************************************************************************)
EXTENDS Integers

CONSTANTS
    MaxPieces,   \* calls have at most so many pieces
    MaxChunk,    \* WithChunkSize gives at most this
    MaxWorkers   \* calls ask for at most so many workers

ASSUME ParallelizerAssumption ==
    MaxPieces \in Nat /\ MaxChunk \in Nat /\ MaxWorkers \in Nat \ {0}

VARIABLES
    pieces, chunkSize, workers,  \* what the call is made with; 0 stands for no chunk size
    cancelled,                   \* the context is done
    next,                        \* toProcess is closed and holds the chunks from next on
    pc, chunk, piece,            \* of each goroutine: position, chunk and piece
    begun, finished,             \* of each piece: how often it was begun and finished
    returned                     \* ParallelizeUntil has returned

call == <<pieces, chunkSize, workers>>
goroutineVars == <<pc, chunk, piece>>
vars == <<call, cancelled, next, goroutineVars, begun, finished, returned>>

Pieces == 0..(MaxPieces - 1)
Goroutines == 1..MaxWorkers

\* Mutant of ceilDiv: the quotient is rounded down.
ceilDiv_Down(a, b) == a \div b

ceilDiv(a, b) == (a + b - 1) \div b

size == IF chunkSize < 1 THEN 1 ELSE chunkSize
chunks == ceilDiv(pieces, size)

\* Only so many goroutines are started as there are chunks.
Started == IF chunks < workers THEN chunks ELSE workers

Init ==
    /\ pieces \in 0..MaxPieces /\ chunkSize \in 0..MaxChunk /\ workers \in 1..MaxWorkers
    /\ cancelled = FALSE
    /\ next = 0
    /\ pc = [w \in Goroutines |-> "receive"]
    /\ chunk = [w \in Goroutines |-> 0]
    /\ piece = [w \in Goroutines |-> 0]
    /\ begun = [p \in Pieces |-> 0]
    /\ finished = [p \in Pieces |-> 0]
    /\ returned = FALSE

\* The first piece of a chunk, and the first that is not in it any more
start(c, s) == c * s

\* Mutant of end: the last chunk is as long as the others.
end_NotCut(c) == start(c, size) + size

end(c) == IF start(c, size) + size > pieces THEN pieces ELSE start(c, size) + size

\* A goroutine receives the next chunk, or finds that there are no more.
Receive(w) ==
    /\ w <= Started /\ pc[w] = "receive"
    /\ IF next < chunks
       THEN /\ pc' = [pc EXCEPT ![w] = "select"]
            /\ chunk' = [chunk EXCEPT ![w] = next]
            /\ piece' = [piece EXCEPT ![w] = start(next, size)]
            /\ next' = next + 1
       ELSE /\ pc' = [pc EXCEPT ![w] = "exited"]
            /\ UNCHANGED <<chunk, piece, next>>
    /\ UNCHANGED <<call, cancelled, begun, finished, returned>>

\* The head of the loop over the pieces of the chunk, and the select in it
Select(w) ==
    /\ pc[w] = "select"
    /\ \/ /\ piece[w] < end(chunk[w]) /\ cancelled
          /\ pc' = [pc EXCEPT ![w] = "exited"]
          /\ UNCHANGED begun
       \/ /\ piece[w] < end(chunk[w]) /\ ~cancelled
          /\ pc' = [pc EXCEPT ![w] = "working"]
          /\ begun' = [begun EXCEPT ![piece[w]] = @ + 1]
       \/ /\ piece[w] >= end(chunk[w])
          /\ pc' = [pc EXCEPT ![w] = "receive"]
          /\ UNCHANGED begun
    /\ UNCHANGED <<call, cancelled, next, chunk, piece, finished, returned>>

\* doWorkPiece returns.
PieceDone(w) ==
    /\ pc[w] = "working"
    /\ pc' = [pc EXCEPT ![w] = "select"]
    /\ finished' = [finished EXCEPT ![piece[w]] = @ + 1]
    /\ piece' = [piece EXCEPT ![w] = @ + 1]
    /\ UNCHANGED <<call, cancelled, next, chunk, begun, returned>>

Cancel ==
    /\ ~cancelled
    /\ cancelled' = TRUE
    /\ UNCHANGED <<call, next, goroutineVars, begun, finished, returned>>

\* There is nothing to do, or wg.Wait returns.
Waited == pieces = 0 \/ \A w \in 1..Started : pc[w] = "exited"

Return ==
    /\ ~returned /\ Waited
    /\ returned' = TRUE
    /\ UNCHANGED <<call, cancelled, next, goroutineVars, begun, finished>>

Next ==
    \/ \E w \in Goroutines : Receive(w) \/ Select(w) \/ PieceDone(w)
    \/ Cancel \/ Return

Spec == Init /\ [][Next]_vars

-----------------------------------------------------------------------------
(* Properties *)

\* The types of the call, of the goroutines and of the counts.
TypeOK ==
    /\ pieces \in 0..MaxPieces /\ chunkSize \in 0..MaxChunk /\ workers \in 1..MaxWorkers
    /\ cancelled \in BOOLEAN /\ returned \in BOOLEAN
    /\ next \in 0..chunks
    /\ pc \in [Goroutines -> {"receive", "select", "working", "exited"}]
    /\ chunk \in [Goroutines -> Nat]
    /\ piece \in [Goroutines -> Nat]
    /\ begun \in [Pieces -> Nat] /\ finished \in [Pieces -> Nat]

\* No piece is begun twice and none that the call does not have, whatever the chunk size
\* and the number of goroutines.
AtMostOnce == \A p \in Pieces : begun[p] <= 1 /\ (p >= pieces => begun[p] = 0)

\* When the call returns no piece is being worked on, and all were done unless the
\* context was cancelled.
ReturnMeansDone ==
    returned => \A p \in Pieces :
        /\ finished[p] = begun[p]
        /\ p < pieces => finished[p] = 1 \/ cancelled
=============================================================================
