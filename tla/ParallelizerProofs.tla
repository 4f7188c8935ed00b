------------------------- MODULE ParallelizerProofs -------------------------
(***************************************************************************)
(* ParallelizeUntil does every piece once, for any number of pieces and    *)
(* workers and any chunk size.                                             *)
(***************************************************************************)
EXTENDS Parallelizer, TLAPS

-----------------------------------------------------------------------------
(* Arithmetic of chunks *)

\* The numbers a call computes before it starts its goroutines.
LEMMA SizeType ==
    ASSUME TypeOK PROVE /\ size \in Nat \ {0} /\ chunks \in Nat /\ Started \in Nat
                        /\ pieces \in Nat /\ workers \in Nat
<1>1. size \in Nat \ {0}
  BY ParallelizerAssumption DEF TypeOK, size
<1>2. pieces \in Nat /\ workers \in Nat
  BY ParallelizerAssumption DEF TypeOK
<1>3. chunks \in Nat
  BY <1>1, <1>2 DEF chunks, ceilDiv
<1>4. QED
  BY <1>1, <1>2, <1>3 DEF Started

\* Chunks begin at natural numbers.
LEMMA StartType == ASSUME NEW s \in Nat PROVE \A c \in Nat : start(c, s) \in Nat
  BY DEF start

\* A chunk ends where or before a later one begins.
LEMMA StartsApart ==
    ASSUME NEW s \in Nat
    PROVE  \A c, d \in Nat : c < d => start(c, s) + s <= start(d, s)
  BY DEF start

\* Each chunk begins s pieces after the one before it.
LEMMA StartNext ==
    ASSUME NEW s \in Nat
    PROVE  \A c \in Nat : start(c + 1, s) = start(c, s) + s
  BY DEF start

\* ceilDiv rounds up: the chunks of a call cover its pieces.
LEMMA ChunksCover == ASSUME TypeOK PROVE pieces <= start(chunks, size)
<1>1. size \in Nat \ {0} /\ pieces \in Nat
  BY SizeType
<1>2. QED
  BY <1>1 DEF chunks, ceilDiv, start

-----------------------------------------------------------------------------
(* The inductive invariant *)

Busy(w) == pc[w] \in {"select", "working"}

\* The pieces of its chunk that goroutine w has still to begin
Ahead(w, p) ==
    /\ \/ pc[w] = "select" /\ piece[w] <= p
       \/ pc[w] = "working" /\ piece[w] < p
    /\ p < start(chunk[w], size) + size

\* Only goroutines that were started run, and they exit only when the channel is
\* empty or the context cancelled.
Running ==
    \A w \in Goroutines :
        /\ pc[w] # "receive" => w <= Started
        /\ pc[w] = "exited" => next >= chunks \/ cancelled

\* A goroutine stays within its chunk.
Within ==
    \A w \in Goroutines : Busy(w) =>
        /\ chunk[w] < next
        /\ start(chunk[w], size) <= piece[w]
        /\ piece[w] <= start(chunk[w], size) + size
        /\ pc[w] = "working" => piece[w] < end(chunk[w])

\* No two goroutines have the same chunk.
Disjoint ==
    \A v, w \in Goroutines : Busy(v) /\ Busy(w) /\ chunk[v] = chunk[w] => v = w

\* A piece is begun at most once, by the goroutine that received its chunk.
Once ==
    \A p \in Pieces :
        /\ begun[p] \in {0, 1}
        /\ begun[p] = 1 => p < pieces /\ p < start(next, size)

\* What lies ahead of a goroutine was not begun.
Fresh == \A w \in Goroutines, p \in Pieces : Ahead(w, p) => begun[p] = 0

\* A piece that was begun is finished, or a goroutine is working on it.
Settled ==
    \A p \in Pieces :
        \/ finished[p] = begun[p] /\ ~\E w \in Goroutines : pc[w] = "working" /\ piece[w] = p
        \/ /\ begun[p] = 1 /\ finished[p] = 0
           /\ \E w \in Goroutines : pc[w] = "working" /\ piece[w] = p

\* A piece of a chunk that was received is begun or ahead of a goroutine, unless the
\* context was cancelled.
Missing ==
    \A p \in Pieces : p < pieces /\ p < start(next, size) /\ begun[p] = 0 =>
        cancelled \/ \E w \in Goroutines : Ahead(w, p)

\* The call returns after its goroutines.
Awaited == returned => Waited

Inv ==
    /\ TypeOK /\ Running /\ Within /\ Disjoint /\ Once /\ Fresh /\ Settled /\ Missing
    /\ Awaited

-----------------------------------------------------------------------------

\* What a call computes does not change while it runs.
LEMMA CallConstant ==
    ASSUME UNCHANGED call
    PROVE  /\ size' = size /\ chunks' = chunks /\ Started' = Started
           /\ pieces' = pieces /\ workers' = workers /\ chunkSize' = chunkSize
  BY DEF call, size, chunks, Started

\* Every call starts in the invariant.
LEMMA InitInv == Init => Inv
<1> SUFFICES ASSUME Init PROVE Inv
  OBVIOUS
<1>1. TypeOK
  <2>1. pieces \in 0..MaxPieces /\ chunkSize \in 0..MaxChunk /\ workers \in 1..MaxWorkers
    BY DEF Init
  <2>2. size \in Nat \ {0} /\ pieces \in Nat
    BY <2>1, ParallelizerAssumption DEF size
  <2>3. chunks \in Nat
    BY <2>2 DEF chunks, ceilDiv
  <2>4. next \in 0..chunks
    BY <2>3 DEF Init
  <2>5. pc \in [Goroutines -> {"receive", "select", "working", "exited"}]
    BY DEF Init
  <2>6. chunk \in [Goroutines -> Nat] /\ piece \in [Goroutines -> Nat]
    BY DEF Init
  <2>7. begun \in [Pieces -> Nat] /\ finished \in [Pieces -> Nat]
    BY DEF Init
  <2>8. QED
    BY <2>1, <2>4, <2>5, <2>6, <2>7 DEF Init, TypeOK
<1>2. Running /\ Within /\ Disjoint /\ Fresh
  BY DEF Init, Running, Within, Disjoint, Fresh, Busy, Ahead
<1>3. Once /\ Settled
  BY DEF Init, Once, Settled
<1>4. Missing
  <2>1. start(next, size) = 0
    BY <1>1, SizeType DEF Init, start
  <2>2. QED
    BY <2>1 DEF Missing, Pieces
<1>5. Awaited
  BY DEF Init, Awaited
<1>6. QED
  BY <1>1, <1>2, <1>3, <1>4, <1>5 DEF Inv

\* Receiving a chunk from the closed channel keeps the invariant: nobody had it before.
LEMMA ReceiveInv == ASSUME Inv, NEW w \in Goroutines, Receive(w) PROVE Inv'
<1>1. /\ TypeOK /\ Running /\ Within /\ Disjoint /\ Once /\ Fresh /\ Settled /\ Missing
      /\ Awaited
  BY DEF Inv
<1>2. /\ size' = size /\ chunks' = chunks /\ Started' = Started /\ pieces' = pieces
      /\ workers' = workers /\ chunkSize' = chunkSize
  BY CallConstant DEF Receive
<1>3. /\ size \in Nat \ {0} /\ chunks \in Nat /\ Started \in Nat /\ pieces \in Nat
  BY <1>1, SizeType
<1>4. /\ \A c \in Nat : start(c, size) \in Nat
      /\ \A c, d \in Nat : c < d => start(c, size) + size <= start(d, size)
      /\ \A c \in Nat : start(c + 1, size) = start(c, size) + size
  BY <1>3, StartType, StartsApart, StartNext
<1>5. /\ next \in Nat /\ next <= chunks /\ chunk \in [Goroutines -> Nat]
      /\ piece \in [Goroutines -> Nat] /\ w \in Nat
      /\ pc \in [Goroutines -> {"receive", "select", "working", "exited"}]
  BY <1>1, <1>3 DEF TypeOK, Goroutines
<1>6. UNCHANGED <<begun, finished, cancelled, returned>>
  BY DEF Receive
<1>7. CASE next < chunks
  <2>1. /\ pc' = [pc EXCEPT ![w] = "select"] /\ chunk' = [chunk EXCEPT ![w] = next]
        /\ piece' = [piece EXCEPT ![w] = start(next, size)] /\ next' = next + 1
        /\ w <= Started /\ pc[w] = "receive"
    BY <1>7 DEF Receive
  <2>2. start(next, size) \in Nat /\ next + 1 \in Nat /\ next + 1 <= chunks
    <3>1. start(next, size) \in Nat
      BY <1>4, <1>5
    <3>2. QED
      BY <3>1, <1>3, <1>5, <1>7
  <2>3. TypeOK'
    <3>1. next' \in 0..chunks'
      BY <1>2, <1>3, <2>1, <2>2
    <3>2. pc' \in [Goroutines -> {"receive", "select", "working", "exited"}]
      BY <1>5, <2>1
    <3>3. chunk' \in [Goroutines -> Nat] /\ piece' \in [Goroutines -> Nat]
      BY <1>5, <2>1, <2>2
    <3>4. QED
      BY <3>1, <3>2, <3>3, <1>1, <1>2, <1>6 DEF TypeOK
  <2>4. Running'
    BY <1>1, <1>2, <1>3, <1>5, <1>6, <1>7, <2>1 DEF Running
  <2>5. Within'
    <3> SUFFICES ASSUME NEW v \in Goroutines, Busy(v)'
                 PROVE  /\ chunk'[v] < next'
                        /\ start(chunk'[v], size) <= piece'[v]
                        /\ piece'[v] <= start(chunk'[v], size) + size
                        /\ pc'[v] = "working" => piece'[v] < end(chunk[v])'
      BY <1>2, <1>5, <2>1 DEF Within, Busy
    <3>1. CASE v = w
      BY <3>1, <1>3, <1>5, <2>1, <2>2
    <3>2. CASE v # w
      <4>1. /\ Busy(v) /\ chunk'[v] = chunk[v] /\ piece'[v] = piece[v] /\ pc'[v] = pc[v]
            /\ chunk[v] \in Nat
        BY <3>2, <1>5, <2>1 DEF Busy
      <4>2. QED
        BY <4>1, <1>1, <1>2, <1>5, <2>1 DEF Within, end
    <3>3. QED
      BY <3>1, <3>2
  <2>6. Disjoint'
    BY <1>1, <1>5, <2>1 DEF Disjoint, Within, Busy
  <2>7. start(next + 1, size) = start(next, size) + size
    BY <1>4, <1>5
  <2>8. Once'
    BY <1>1, <1>2, <1>3, <1>6, <2>1, <2>2, <2>7 DEF Once, Pieces
  <2>9. Fresh'
    BY <1>1, <1>2, <1>3, <1>5, <1>6, <2>1, <2>2 DEF Fresh, Once, Ahead, Pieces
  <2>10. Settled'
    BY <1>1, <1>5, <1>6, <2>1 DEF Settled
  <2>11. Missing'
    <3> SUFFICES ASSUME NEW p \in Pieces, p < pieces, p < start(next + 1, size), begun[p] = 0,
                        ~cancelled
                 PROVE  \E v \in Goroutines : Ahead(v, p)'
      BY <1>2, <1>6, <2>1 DEF Missing
    <3>1. CASE p < start(next, size)
      <4>1. PICK v \in Goroutines : Ahead(v, p)
        BY <1>1, <3>1 DEF Missing
      <4>2. v # w
        BY <4>1, <2>1 DEF Ahead
      <4>3. QED
        BY <4>1, <4>2, <1>2, <1>5, <2>1 DEF Ahead
    <3>2. CASE ~(p < start(next, size))
      <4>1. Ahead(w, p)'
        BY <1>2, <1>3, <1>5, <2>1, <2>2, <2>7, <3>2 DEF Ahead, Pieces
      <4>2. QED
        BY <4>1
    <3>3. QED
      BY <3>1, <3>2
  <2>12. Awaited'
    <3>1. CASE pieces = 0
      BY <3>1, <1>2 DEF Awaited, Waited
    <3>2. CASE pieces # 0
      BY <3>2, <1>1, <1>2, <1>3, <1>5, <1>6, <2>1 DEF Awaited, Waited, Goroutines
    <3>3. QED
      BY <3>1, <3>2
  <2>13. QED
    BY <2>3, <2>4, <2>5, <2>6, <2>8, <2>9, <2>10, <2>11, <2>12 DEF Inv
<1>8. CASE ~(next < chunks)
  <2>1. /\ pc' = [pc EXCEPT ![w] = "exited"] /\ UNCHANGED <<chunk, piece, next>>
        /\ w <= Started /\ pc[w] = "receive"
    BY <1>8 DEF Receive
  <2>2. TypeOK'
    BY <1>1, <1>2, <1>3, <1>5, <1>6, <2>1 DEF TypeOK
  <2>3. Running'
    BY <1>1, <1>2, <1>3, <1>5, <1>6, <1>8, <2>1 DEF Running
  <2>4. Within'
    BY <1>1, <1>2, <1>5, <2>1 DEF Within, Busy, end
  <2>5. Disjoint'
    BY <1>1, <1>5, <2>1 DEF Disjoint, Busy
  <2>6. Once'
    BY <1>1, <1>2, <1>6, <2>1 DEF Once
  <2>7. Fresh'
    BY <1>1, <1>2, <1>5, <1>6, <2>1 DEF Fresh, Ahead
  <2>8. Settled'
    BY <1>1, <1>5, <1>6, <2>1 DEF Settled
  <2>9. Missing'
    <3> SUFFICES ASSUME NEW p \in Pieces, p < pieces, p < start(next, size), begun[p] = 0,
                        ~cancelled
                 PROVE  \E v \in Goroutines : Ahead(v, p)'
      BY <1>2, <1>6, <2>1 DEF Missing
    <3>1. PICK v \in Goroutines : Ahead(v, p)
      BY <1>1 DEF Missing
    <3>2. QED
      BY <3>1, <1>2, <1>5, <2>1 DEF Ahead
  <2>10. Awaited'
    BY <1>1, <1>2, <1>5, <1>6, <2>1 DEF Awaited, Waited, Goroutines
  <2>11. QED
    BY <2>2, <2>3, <2>4, <2>5, <2>6, <2>7, <2>8, <2>9, <2>10 DEF Inv
<1>9. QED
  BY <1>7, <1>8

\* Goroutines that have chunks have no piece in common.
LEMMA Apart ==
    ASSUME TypeOK, Disjoint, NEW v \in Goroutines, NEW w \in Goroutines, v # w,
           Busy(v), Busy(w), NEW p \in Nat,
           start(chunk[v], size) <= p, p < start(chunk[v], size) + size,
           start(chunk[w], size) <= p, p < start(chunk[w], size) + size
    PROVE  FALSE
<1>1. chunk[v] \in Nat /\ chunk[w] \in Nat /\ chunk[v] # chunk[w]
  BY DEF TypeOK, Disjoint
<1>2. size \in Nat
  BY SizeType
<1>3. \/ start(chunk[v], size) + size <= start(chunk[w], size)
      \/ start(chunk[w], size) + size <= start(chunk[v], size)
  BY <1>1, <1>2, StartsApart
<1>4. start(chunk[v], size) \in Nat /\ start(chunk[w], size) \in Nat
  BY <1>1, <1>2, StartType
<1>5. QED
  BY <1>2, <1>3, <1>4

\* A goroutine that is still at work keeps the call from returning.
LEMMA BusyAwaited ==
    ASSUME TypeOK, Running, Awaited, NEW w \in Goroutines, Busy(w), pieces # 0
    PROVE  returned = FALSE
<1>1. w <= Started /\ w \in 1..Started
  BY SizeType DEF Running, Busy, Goroutines
<1>2. pc[w] # "exited"
  BY DEF Busy
<1>3. ~Waited
  BY <1>1, <1>2 DEF Waited
<1>4. QED
  BY <1>3 DEF Awaited, TypeOK

\* The select of a goroutine that has a chunk keeps the invariant: a piece is begun
\* that nobody has begun, the goroutine gives up after a cancellation, or it has
\* begun all pieces of its chunk.
LEMMA SelectInv == ASSUME Inv, NEW w \in Goroutines, Select(w) PROVE Inv'
<1>1. /\ TypeOK /\ Running /\ Within /\ Disjoint /\ Once /\ Fresh /\ Settled /\ Missing
      /\ Awaited
  BY DEF Inv
<1>2. /\ size' = size /\ chunks' = chunks /\ Started' = Started /\ pieces' = pieces
      /\ workers' = workers /\ chunkSize' = chunkSize
  BY CallConstant DEF Select
<1>3. /\ size \in Nat \ {0} /\ chunks \in Nat /\ Started \in Nat /\ pieces \in Nat
  BY <1>1, SizeType
<1>4. /\ next \in Nat /\ chunk \in [Goroutines -> Nat] /\ piece \in [Goroutines -> Nat]
      /\ begun \in [Pieces -> Nat] /\ finished \in [Pieces -> Nat] /\ w \in Nat
      /\ pc \in [Goroutines -> {"receive", "select", "working", "exited"}]
  BY <1>1, <1>3 DEF TypeOK, Goroutines
<1>5. /\ chunk[w] \in Nat /\ piece[w] \in Nat /\ start(chunk[w], size) \in Nat
  BY <1>3, <1>4, StartType
<1>6. /\ pc[w] = "select" /\ Busy(w)
      /\ UNCHANGED <<cancelled, next, chunk, piece, finished, returned>>
  BY DEF Select, Busy
<1>7. ASSUME NEW to \in {"exited", "receive"}, pc' = [pc EXCEPT ![w] = to], UNCHANGED begun,
             to = "exited" => cancelled, to = "receive" => piece[w] >= end(chunk[w])
      PROVE  Inv'
  <2>1. TypeOK'
    <3>1. pc' \in [Goroutines -> {"receive", "select", "working", "exited"}]
      BY <1>4, <1>7
    <3>2. QED
      BY <3>1, <1>1, <1>2, <1>6, <1>7 DEF TypeOK
  <2>2. Running'
    BY <1>1, <1>2, <1>4, <1>6, <1>7 DEF Running
  <2>3. Within'
    BY <1>1, <1>2, <1>4, <1>6, <1>7 DEF Within, Busy, end
  <2>4. Disjoint'
    BY <1>1, <1>4, <1>6, <1>7 DEF Disjoint, Busy
  <2>5. Once'
    BY <1>1, <1>2, <1>6, <1>7 DEF Once
  <2>6. Fresh'
    BY <1>1, <1>2, <1>4, <1>6, <1>7 DEF Fresh, Ahead
  <2>7. Settled'
    BY <1>1, <1>4, <1>6, <1>7 DEF Settled
  <2>8. Missing'
    <3> SUFFICES ASSUME NEW p \in Pieces, p < pieces, p < start(next, size), begun[p] = 0,
                        ~cancelled
                 PROVE  \E v \in Goroutines : Ahead(v, p)'
      BY <1>2, <1>6, <1>7 DEF Missing
    <3>1. PICK v \in Goroutines : Ahead(v, p)
      BY <1>1 DEF Missing
    <3>2. v # w
      BY <3>1, <1>3, <1>5, <1>6, <1>7 DEF Ahead, end, Pieces
    <3>3. QED
      BY <3>1, <3>2, <1>2, <1>4, <1>6, <1>7 DEF Ahead
  <2>9. Awaited'
    <3>1. CASE pieces = 0
      BY <3>1, <1>2 DEF Awaited, Waited
    <3>2. CASE pieces # 0
      BY <3>2, <1>1, <1>6, BusyAwaited DEF Awaited
    <3>3. QED
      BY <3>1, <3>2
  <2>10. QED
    BY <2>1, <2>2, <2>3, <2>4, <2>5, <2>6, <2>7, <2>8, <2>9 DEF Inv
<1>8. ASSUME piece[w] < end(chunk[w]), ~cancelled, pc' = [pc EXCEPT ![w] = "working"],
             begun' = [begun EXCEPT ![piece[w]] = @ + 1]
      PROVE  Inv'
  <2>1. /\ piece[w] < pieces /\ piece[w] < start(chunk[w], size) + size
        /\ start(chunk[w], size) <= piece[w] /\ chunk[w] < next
    BY <1>1, <1>3, <1>5, <1>6, <1>8 DEF end, Within
  <2>2. piece[w] \in Pieces /\ pieces # 0
    BY <2>1, <1>1, <1>5, ParallelizerAssumption DEF TypeOK, Pieces
  <2>3. begun[piece[w]] = 0
    BY <2>1, <2>2, <1>1, <1>5, <1>6 DEF Fresh, Ahead
  <2>4. begun' = [begun EXCEPT ![piece[w]] = 1]
    BY <2>3, <1>8
  <2>5. piece[w] < start(next, size)
    <3>1. start(chunk[w], size) + size <= start(next, size) /\ start(next, size) \in Nat
      BY <2>1, <1>3, <1>4, <1>5, StartsApart, StartType
    <3>2. QED
      BY <3>1, <2>1, <1>3, <1>5
  <2>6. TypeOK'
    <3>1. pc' \in [Goroutines -> {"receive", "select", "working", "exited"}]
      BY <1>4, <1>8
    <3>2. begun' \in [Pieces -> Nat]
      BY <1>4, <2>4
    <3>3. QED
      BY <3>1, <3>2, <1>1, <1>2, <1>6 DEF TypeOK
  <2>7. Running'
    BY <1>1, <1>2, <1>4, <1>6, <1>8 DEF Running
  <2>8. Within'
    BY <1>1, <1>2, <1>4, <1>6, <1>8 DEF Within, Busy, end
  <2>9. Disjoint'
    BY <1>1, <1>4, <1>6, <1>8 DEF Disjoint, Busy
  <2>10. Once'
    BY <1>1, <1>2, <1>4, <1>6, <2>1, <2>2, <2>4, <2>5 DEF Once
  <2>11. Fresh'
    <3> SUFFICES ASSUME NEW v \in Goroutines, NEW p \in Pieces, Ahead(v, p)'
                 PROVE  begun'[p] = 0
      BY DEF Fresh
    <3>1. Ahead(v, p)
      BY <1>2, <1>4, <1>5, <1>6, <1>8 DEF Ahead, Pieces
    <3>2. begun[p] = 0
      BY <3>1, <1>1 DEF Fresh
    <3>3. p # piece[w]
      <4>1. CASE v = w
        BY <4>1, <1>4, <1>5, <1>6, <1>8 DEF Ahead
      <4>2. CASE v # w
        <5>1. Busy(v)
          BY <3>1 DEF Ahead, Busy
        <5>2. start(chunk[v], size) <= p /\ p < start(chunk[v], size) + size
          <6>1. start(chunk[v], size) <= piece[v]
            BY <5>1, <1>1 DEF Within
          <6>2. start(chunk[v], size) \in Nat /\ piece[v] \in Nat
            BY <1>3, <1>4, StartType
          <6>3. QED
            BY <6>1, <6>2, <3>1 DEF Ahead, Pieces
        <5>3. QED
          BY <4>2, <5>1, <5>2, <2>1, <1>1, <1>5, <1>6, Apart
      <4>3. QED
        BY <4>1, <4>2
    <3>4. QED
      BY <3>2, <3>3, <2>4, <1>4
  <2>12. Settled'
    <3> SUFFICES ASSUME NEW p \in Pieces
                 PROVE  \/ /\ finished'[p] = begun'[p]
                           /\ ~\E v \in Goroutines : pc'[v] = "working" /\ piece'[v] = p
                        \/ /\ begun'[p] = 1 /\ finished'[p] = 0
                           /\ \E v \in Goroutines : pc'[v] = "working" /\ piece'[v] = p
      BY DEF Settled
    <3>1. CASE p = piece[w]
      <4>1. finished[p] = 0
        BY <3>1, <2>3, <1>1 DEF Settled
      <4>2. QED
        BY <3>1, <4>1, <2>2, <2>4, <1>4, <1>6, <1>8
    <3>2. CASE p # piece[w]
      BY <3>2, <2>4, <1>1, <1>4, <1>6, <1>8 DEF Settled
    <3>3. QED
      BY <3>1, <3>2
  <2>13. Missing'
    <3> SUFFICES ASSUME NEW p \in Pieces, p < pieces, p < start(next, size), begun'[p] = 0
                 PROVE  \E v \in Goroutines : Ahead(v, p)'
      BY <1>2, <1>6 DEF Missing
    <3>1. p # piece[w] /\ begun[p] = 0
      BY <2>2, <2>4, <1>4
    <3>2. PICK v \in Goroutines : Ahead(v, p)
      BY <3>1, <1>1, <1>8 DEF Missing
    <3>3. QED
      BY <3>1, <3>2, <1>2, <1>4, <1>5, <1>6, <1>8 DEF Ahead, Pieces
  <2>14. Awaited'
    BY <2>2, <1>1, <1>6, BusyAwaited DEF Awaited
  <2>15. QED
    BY <2>6, <2>7, <2>8, <2>9, <2>10, <2>11, <2>12, <2>13, <2>14 DEF Inv
<1>9. QED
  BY <1>7, <1>8 DEF Select

\* Finishing a piece keeps the invariant.
LEMMA PieceDoneInv == ASSUME Inv, NEW w \in Goroutines, PieceDone(w) PROVE Inv'
<1>1. /\ TypeOK /\ Running /\ Within /\ Disjoint /\ Once /\ Fresh /\ Settled /\ Missing
      /\ Awaited
  BY DEF Inv
<1>2. /\ size' = size /\ chunks' = chunks /\ Started' = Started /\ pieces' = pieces
      /\ workers' = workers /\ chunkSize' = chunkSize
  BY CallConstant DEF PieceDone
<1>3. /\ size \in Nat \ {0} /\ chunks \in Nat /\ Started \in Nat /\ pieces \in Nat
  BY <1>1, SizeType
<1>4. /\ next \in Nat /\ chunk \in [Goroutines -> Nat] /\ piece \in [Goroutines -> Nat]
      /\ begun \in [Pieces -> Nat] /\ finished \in [Pieces -> Nat] /\ w \in Nat
      /\ pc \in [Goroutines -> {"receive", "select", "working", "exited"}]
  BY <1>1, <1>3 DEF TypeOK, Goroutines
<1>5. /\ chunk[w] \in Nat /\ piece[w] \in Nat /\ start(chunk[w], size) \in Nat
  BY <1>3, <1>4, StartType
<1>6. /\ pc[w] = "working" /\ Busy(w) /\ pc' = [pc EXCEPT ![w] = "select"]
      /\ finished' = [finished EXCEPT ![piece[w]] = @ + 1]
      /\ piece' = [piece EXCEPT ![w] = @ + 1]
      /\ UNCHANGED <<cancelled, next, chunk, begun, returned>>
  BY DEF PieceDone, Busy
<1>7. /\ piece[w] < pieces /\ piece[w] < start(chunk[w], size) + size
      /\ start(chunk[w], size) <= piece[w]
  BY <1>1, <1>3, <1>5, <1>6 DEF end, Within
<1>8. piece[w] \in Pieces /\ pieces # 0
  BY <1>1, <1>5, <1>7, ParallelizerAssumption DEF TypeOK, Pieces
<1>9. begun[piece[w]] = 1 /\ finished[piece[w]] = 0
  BY <1>1, <1>6, <1>8 DEF Settled
<1>10. finished' = [finished EXCEPT ![piece[w]] = 1]
  BY <1>6, <1>9
<1>11. TypeOK'
  <2>1. pc' \in [Goroutines -> {"receive", "select", "working", "exited"}]
    BY <1>4, <1>6
  <2>2. finished' \in [Pieces -> Nat]
    BY <1>4, <1>10
  <2>3. piece' \in [Goroutines -> Nat]
    BY <1>4, <1>6
  <2>4. QED
    BY <2>1, <2>2, <2>3, <1>1, <1>2, <1>6 DEF TypeOK
<1>12. Running'
  BY <1>1, <1>2, <1>4, <1>6 DEF Running
<1>13. Within'
  <2> SUFFICES ASSUME NEW v \in Goroutines, Busy(v)'
               PROVE  /\ chunk[v] < next
                      /\ start(chunk[v], size) <= piece'[v]
                      /\ piece'[v] <= start(chunk[v], size) + size
                      /\ pc'[v] = "working" => piece'[v] < end(chunk[v])
    BY <1>2, <1>6 DEF Within, end
  <2>1. CASE v = w
    BY <2>1, <1>1, <1>3, <1>4, <1>5, <1>6, <1>7 DEF Within
  <2>2. CASE v # w
    BY <2>2, <1>1, <1>4, <1>6 DEF Within, Busy
  <2>3. QED
    BY <2>1, <2>2
<1>14. Disjoint'
  BY <1>1, <1>4, <1>6 DEF Disjoint, Busy
<1>15. Once'
  BY <1>1, <1>2, <1>6 DEF Once
<1>16. \A v \in Goroutines, p \in Pieces : Ahead(v, p)' <=> Ahead(v, p)
  BY <1>2, <1>4, <1>5, <1>6 DEF Ahead, Pieces
<1>17. Fresh'
  BY <1>1, <1>6, <1>16 DEF Fresh
<1>18. Missing'
  BY <1>1, <1>2, <1>6, <1>16 DEF Missing
<1>19. Settled'
  <2> SUFFICES ASSUME NEW p \in Pieces
               PROVE  \/ /\ finished'[p] = begun[p]
                         /\ ~\E v \in Goroutines : pc'[v] = "working" /\ piece'[v] = p
                      \/ /\ begun[p] = 1 /\ finished'[p] = 0
                         /\ \E v \in Goroutines : pc'[v] = "working" /\ piece'[v] = p
    BY <1>6 DEF Settled
  <2>1. CASE p = piece[w]
    <3>1. ASSUME NEW v \in Goroutines, pc'[v] = "working", piece'[v] = p PROVE FALSE
      <4>1. v # w /\ pc[v] = "working" /\ piece[v] = p /\ Busy(v)
        BY <3>1, <1>4, <1>6 DEF Busy
      <4>2. start(chunk[v], size) \in Nat /\ chunk[v] \in Nat
        BY <1>3, <1>4, StartType
      <4>3. start(chunk[v], size) <= p /\ p < start(chunk[v], size) + size
        <5>1. start(chunk[v], size) <= piece[v] /\ piece[v] < end(chunk[v])
          BY Zenon, <4>1, <1>1 DEF Within
        <5>2. QED
          BY <5>1, <4>1, <4>2, <2>1, <1>3, <1>5 DEF end
      <4>4. QED
        BY <4>1, <4>3, <2>1, <1>1, <1>5, <1>6, <1>7, Apart
    <3>2. QED
      BY <2>1, <3>1, <1>4, <1>8, <1>9, <1>10
  <2>2. CASE p # piece[w]
    <3>1. finished'[p] = finished[p]
      BY <2>2, <1>4, <1>10
    <3>2. \A v \in Goroutines : pc'[v] = "working" /\ piece'[v] = p
                                 <=> pc[v] = "working" /\ piece[v] = p
      BY <2>2, <1>4, <1>6
    <3>3. QED
      BY <3>1, <3>2, <1>1 DEF Settled
  <2>3. QED
    BY <2>1, <2>2
<1>20. Awaited'
  BY <1>1, <1>6, <1>8, BusyAwaited DEF Awaited
<1>21. QED
  BY <1>11, <1>12, <1>13, <1>14, <1>15, <1>17, <1>18, <1>19, <1>20 DEF Inv

\* Cancelling the context and returning keep the invariant.
LEMMA CancelReturnInv == ASSUME Inv, Cancel \/ Return PROVE Inv'
<1>1. /\ TypeOK /\ Running /\ Within /\ Disjoint /\ Once /\ Fresh /\ Settled /\ Missing
      /\ Awaited
  BY DEF Inv
<1>2. /\ size' = size /\ chunks' = chunks /\ Started' = Started /\ pieces' = pieces
      /\ workers' = workers /\ chunkSize' = chunkSize
  BY CallConstant DEF Cancel, Return
<1>3. UNCHANGED <<next, pc, chunk, piece, begun, finished>>
  BY DEF Cancel, Return, goroutineVars
<1>4. cancelled' \in BOOLEAN /\ returned' \in BOOLEAN /\ (cancelled => cancelled')
  BY <1>1 DEF Cancel, Return, TypeOK
<1>5. TypeOK'
  BY <1>1, <1>2, <1>3, <1>4 DEF TypeOK
<1>6. Running' /\ Within' /\ Disjoint'
  <2>1. Running'
    BY Zenon, <1>1, <1>2, <1>3, <1>4 DEF Running
  <2>2. Within'
    BY Zenon, <1>1, <1>2, <1>3 DEF Within, Busy, end
  <2>3. Disjoint'
    BY Zenon, <1>1, <1>3 DEF Disjoint, Busy
  <2>4. QED
    BY Zenon, <2>1, <2>2, <2>3
<1>7. Once' /\ Fresh' /\ Settled'
  BY <1>1, <1>2, <1>3 DEF Once, Fresh, Settled, Ahead
<1>8. Missing'
  BY <1>1, <1>2, <1>3, <1>4 DEF Missing, Ahead
<1>9. Awaited'
  <2>1. Waited' <=> Waited
    BY <1>2, <1>3 DEF Waited
  <2>2. returned' => returned \/ Waited
    BY DEF Cancel, Return
  <2>3. QED
    BY <2>1, <2>2, <1>1 DEF Awaited
<1>10. QED
  BY <1>5, <1>6, <1>7, <1>8, <1>9 DEF Inv

\* The invariant holds throughout every call.
THEOREM Invariance == Spec => []Inv
<1>1. Inv /\ [Next]_vars => Inv'
  <2> SUFFICES ASSUME Inv, [Next]_vars PROVE Inv'
    OBVIOUS
  <2>1. CASE Next
    BY <2>1, ReceiveInv, SelectInv, PieceDoneInv, CancelReturnInv DEF Next
  <2>2. CASE UNCHANGED vars
    <3>1. /\ size' = size /\ chunks' = chunks /\ Started' = Started /\ pieces' = pieces
          /\ workers' = workers /\ chunkSize' = chunkSize
      BY <2>2, CallConstant DEF vars
    <3>2. UNCHANGED <<cancelled, next, pc, chunk, piece, begun, finished, returned>>
      BY <2>2 DEF vars, goroutineVars
    <3>3. TypeOK'
      BY <3>1, <3>2 DEF Inv, TypeOK
    <3>4. Running' /\ Within' /\ Disjoint'
      BY <3>1, <3>2 DEF Inv, Running, Within, Disjoint, Busy, end
    <3>5. Once' /\ Fresh' /\ Settled' /\ Missing'
      BY <3>1, <3>2 DEF Inv, Once, Fresh, Settled, Missing, Ahead
    <3>6. Awaited'
      BY <3>1, <3>2 DEF Inv, Awaited, Waited
    <3>7. QED
      BY <3>3, <3>4, <3>5, <3>6 DEF Inv
  <2>3. QED
    BY <2>1, <2>2
<1>2. QED
  BY InitInv, <1>1, PTL DEF Spec

\* The state of a call is well typed for any numbers of pieces and workers and any
\* chunk size; no goroutine receives a chunk beyond the last.
THEOREM TypeCorrect == Spec => []TypeOK
<1>1. Inv => TypeOK
  BY DEF Inv
<1>2. QED
  BY <1>1, Invariance, PTL

\* doWorkPiece is called at most once for each piece, and for no other number.
THEOREM PiecesAtMostOnce == Spec => []AtMostOnce
<1>1. Inv => AtMostOnce
  <2> SUFFICES ASSUME Inv, NEW p \in Pieces PROVE begun[p] <= 1 /\ (p >= pieces => begun[p] = 0)
    BY DEF AtMostOnce
  <2>1. /\ begun[p] \in {0, 1} /\ (begun[p] = 1 => p < pieces) /\ pieces \in Nat
    BY SizeType DEF Inv, Once
  <2>2. QED
    BY <2>1 DEF Pieces
<1>2. QED
  BY <1>1, Invariance, PTL

\* When the call returns every piece was done, unless the context was cancelled, and no
\* goroutine is still working on one.
THEOREM ReturnIsDone == Spec => []ReturnMeansDone
<1>1. Inv => ReturnMeansDone
  <2> SUFFICES ASSUME Inv, returned, NEW p \in Pieces
               PROVE  /\ finished[p] = begun[p]
                      /\ p < pieces => finished[p] = 1 \/ cancelled
    BY DEF ReturnMeansDone
  <2>1. TypeOK /\ Running /\ Once /\ Settled /\ Missing /\ Waited
    BY DEF Inv, Awaited
  <2>2. /\ size \in Nat \ {0} /\ chunks \in Nat /\ Started \in Nat /\ pieces \in Nat
    BY <2>1, SizeType
  <2>3. CASE pieces = 0
    <3>1. ~(p < pieces) /\ begun[p] = 0
      BY <2>1, <2>3 DEF Once, Pieces
    <3>2. QED
      BY <3>1, <2>1 DEF Settled
  <2>4. CASE pieces # 0
    <3>1. \A v \in Goroutines : ~Busy(v)
      BY <2>1, <2>2, <2>4 DEF Waited, Running, Busy, Goroutines
    <3>2. finished[p] = begun[p]
      BY <3>1, <2>1 DEF Settled, Busy
    <3>3. ASSUME p < pieces, ~cancelled PROVE finished[p] = 1
      <4>1. chunks # 0
        BY <2>1, <2>2, <2>4, ChunksCover DEF start
      <4>2. 1 \in 1..Started /\ 1 \in Goroutines
        <5>1. workers \in 1..MaxWorkers /\ MaxWorkers \in Nat
          BY <2>1, ParallelizerAssumption DEF TypeOK
        <5>2. Started >= 1
          BY <5>1, <4>1, <2>2 DEF Started
        <5>3. QED
          BY <5>1, <5>2, <2>2 DEF Goroutines
      <4>3. next >= chunks
        BY <4>2, <3>3, <2>1, <2>4 DEF Waited, Running
      <4>4. next = chunks
        BY <4>3, <2>1, <2>2 DEF TypeOK
      <4>5. p < start(next, size)
        <5>1. start(chunks, size) \in Nat /\ pieces <= start(chunks, size)
          BY <2>1, <2>2, ChunksCover, StartType
        <5>2. QED
          BY <5>1, <4>4, <3>3, <2>2 DEF Pieces
      <4>6. begun[p] # 0
        BY <4>5, <3>1, <3>3, <2>1 DEF Missing, Ahead, Busy
      <4>7. QED
        BY <4>6, <3>2, <2>1 DEF Once
    <3>4. QED
      BY <3>2, <3>3
  <2>5. QED
    BY <2>3, <2>4
<1>2. QED
  BY <1>1, Invariance, PTL
=============================================================================
