------------------------- MODULE BufferEngine_proofs -------------------------
(***************************************************************************)
(* What every operation of the buffer preserves, for every capacity and    *)
(* whichever caller takes the step.  The proofs about the modules that     *)
(* call the buffer rest on these lemmas.                                   *)
(***************************************************************************)
EXTENDS BufferEngine, TLAPS

(* The empty list and the zero counters are well typed. *)
LEMMA EmptyTypes == <<>> \in Seq(Nat) /\ Len(<<>>) = 0 /\ ZeroMetrics \in Metrics
<1>1. <<>> \in Seq(Nat) /\ Len(<<>>) = 0
  OBVIOUS
<1>2. ZeroMetrics \in Metrics
  BY DEF ZeroMetrics, Metrics
<1> QED
  BY <1>1, <1>2

(* Refreshing the cached depth keeps the counters well typed and makes the *)
(* depth the length of the list.                                           *)
LEMMA DepthTypes ==
  ASSUME NEW m \in Metrics, NEW q \in Seq(Nat)
  PROVE  /\ WithDepth(m, q) \in Metrics
         /\ WithDepth(m, q).queue_depth = Len(q)
  BY DEF WithDepth, Metrics

(* Every operation of the buffer keeps its structure well typed. *)
LEMMA BufferStepTypes ==
  ASSUME BufferTypeOK, [BufferStep]_bufferVars
  PROVE  BufferTypeOK'
<1> USE DEF BufferTypeOK, bufferVars
<1>1. CASE UNCHANGED bufferVars
  BY <1>1
<1>2. CASE BufferInit \/ BufferInitAndShutdown
  <2>1. queue' = <<>> /\ metrics' = ZeroMetrics /\ nextLogId' = 1
    BY <1>2 DEF BufferInit, BufferInitAndShutdown
  <2>2. up' \in BOOLEAN
    BY <1>2 DEF BufferInit, BufferInitAndShutdown
  <2> QED
    BY <2>1, <2>2, EmptyTypes
<1>3. CASE BufferShutdown
  <2>1. queue' \in Seq(Nat) /\ metrics' \in Metrics
    BY <1>3, EmptyTypes, DepthTypes DEF BufferShutdown
  <2> QED
    BY <1>3, <2>1 DEF BufferShutdown
<1>4. CASE Enqueue
  <2>1. queue' \in Seq(Nat)
    BY <1>4 DEF Enqueue
  <2>2. [metrics EXCEPT !.total_ingested = @ + 1] \in Metrics
    BY DEF Metrics
  <2>3. metrics' \in Metrics
    BY <1>4, <2>1, <2>2, DepthTypes DEF Enqueue
  <2> QED
    BY <1>4, <2>1, <2>3 DEF Enqueue
<1>5. CASE EnqueueRefused \/ EnqueueInvalid \/ MarkProcessed \/ MarkError
  BY <1>5 DEF EnqueueRefused, EnqueueInvalid, MarkProcessed, MarkError, CountError, Metrics
<1>6. CASE Dequeue
  <2>1. queue' \in Seq(Nat) /\ Len(queue') \in Nat
    BY <1>6 DEF Dequeue
  <2> QED
    BY <1>6, <2>1, DepthTypes DEF Dequeue
<1>7. CASE DequeueEmpty
  BY <1>7 DEF DequeueEmpty, WithDepth, Metrics
<1>8. ASSUME NEW e \in Nat, RequeueFront(e) PROVE BufferTypeOK'
  <2>1. queue' \in Seq(Nat) /\ Len(queue') \in Nat
    BY <1>8 DEF RequeueFront
  <2> QED
    BY <1>8, <2>1, DepthTypes DEF RequeueFront
<1>9. ASSUME NEW noMemory \in BOOLEAN, RequeueRefused(noMemory)
      PROVE  BufferTypeOK'
  BY <1>9 DEF RequeueRefused
<1> QED
  BY <1>1, <1>2, <1>3, <1>4, <1>5, <1>6, <1>7, <1>8, <1>9 DEF BufferStep

(* Every operation of the buffer keeps the cached depth equal to the       *)
(* length of the list, and the list within its capacity.                   *)
LEMMA BufferStepBounded ==
  ASSUME BufferTypeOK, BufferBounded, [BufferStep]_bufferVars
  PROVE  BufferBounded'
<1> USE CapacityAssumption DEF BufferTypeOK, BufferBounded, Metrics, bufferVars
<1>1. CASE UNCHANGED bufferVars
  BY <1>1
<1>2. CASE BufferInit \/ BufferInitAndShutdown
  BY <1>2 DEF BufferInit, BufferInitAndShutdown, ZeroMetrics
<1>3. CASE BufferShutdown
  BY <1>3 DEF BufferShutdown, WithDepth
<1>4. CASE Enqueue
  <2>1. Len(queue') = Len(queue) + 1
    BY <1>4 DEF Enqueue
  <2>2. metrics'.queue_depth = Len(queue')
    BY <1>4, <2>1 DEF Enqueue, WithDepth
  <2>3. Len(queue) < Capacity
    BY <1>4 DEF Enqueue, Full
  <2> QED
    BY <2>1, <2>2, <2>3
<1>5. CASE EnqueueRefused \/ EnqueueInvalid \/ MarkProcessed \/ MarkError
  BY <1>5 DEF EnqueueRefused, EnqueueInvalid, MarkProcessed, MarkError, CountError
<1>6. CASE Dequeue
  <2>1. Len(queue') = Len(queue) - 1 /\ Len(queue) \in Nat
    BY <1>6 DEF Dequeue
  <2>2. metrics'.queue_depth = Len(queue')
    BY <1>6 DEF Dequeue, WithDepth
  <2> QED
    BY <2>1, <2>2
<1>7. CASE DequeueEmpty
  BY <1>7 DEF DequeueEmpty, WithDepth
<1>8. ASSUME NEW e \in Nat, RequeueFront(e) PROVE BufferBounded'
  <2>1. Len(queue') = Len(queue) + 1
    BY <1>8 DEF RequeueFront
  <2>2. metrics'.queue_depth = Len(queue')
    BY <1>8, <2>1 DEF RequeueFront, WithDepth
  <2>3. Len(queue) < Capacity
    BY <1>8 DEF RequeueFront, Full
  <2> QED
    BY <2>1, <2>2, <2>3
<1>9. ASSUME NEW noMemory \in BOOLEAN, RequeueRefused(noMemory)
      PROVE  BufferBounded'
  BY <1>9 DEF RequeueRefused
<1> QED
  BY <1>1, <1>2, <1>3, <1>4, <1>5, <1>6, <1>7, <1>8, <1>9 DEF BufferStep

=============================================================================
