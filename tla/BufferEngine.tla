---------------------------- MODULE BufferEngine ----------------------------
(***************************************************************************)
(* The bounded in-memory log buffer, src/src/core/buffer_engine.c.         *)
(*                                                                         *)
(* Every operation of the C module takes engine->mutex, changes the        *)
(* structure and releases the mutex, so each one is a single action here.  *)
(* Modules that call the buffer (BufferClients, EngineApi) extend this one *)
(* and conjoin these actions with their own control.                       *)
(*                                                                         *)
(* Data kept: a LogEntry is its id, the linked list is the sequence of     *)
(* the ids it holds from head to tail, and metrics keeps the counters and  *)
(* the cached queue depth that the code tests.  Timestamps, text and the   *)
(* memory estimate (a multiple of queue_depth) are left out.               *)
(***************************************************************************)
EXTENDS Naturals, Sequences

CONSTANT Capacity       \* engine->capacity, from BUFFER_CAPACITY

(* buffer_engine_init and config_load_from_env both refuse a capacity of 0. *)
ASSUME CapacityAssumption == Capacity \in Nat \ {0}

VARIABLES
  up,                   \* engine->initialized
  queue,                \* engine->queue, the ids from head to tail
  nextLogId,            \* engine->next_log_id
  metrics               \* engine->metrics

bufferVars == <<up, queue, nextLogId, metrics>>

Metrics == [total_ingested : Nat, total_processed : Nat,
            total_errors : Nat, queue_depth : Nat]

ZeroMetrics == [total_ingested |-> 0, total_processed |-> 0,
                total_errors |-> 0, queue_depth |-> 0]

BufferTypeOK ==
  /\ up \in BOOLEAN
  /\ queue \in Seq(Nat)
  /\ nextLogId \in Nat
  /\ metrics \in Metrics

(* The structure before buffer_engine_init: static, hence zeroed, storage. *)
BufferZeroed ==
  /\ up = FALSE
  /\ queue = <<>>
  /\ nextLogId = 0
  /\ metrics = ZeroMetrics

-----------------------------------------------------------------------------
(* Helpers shared by the operations: the counter increments, and the       *)
(* assignment of the list's size to the cached depth.                      *)

CountError(m) == [m EXCEPT !.total_errors = @ + 1]

WithDepth(m, q) == [m EXCEPT !.queue_depth = Len(q)]

Full == metrics.queue_depth >= Capacity

-----------------------------------------------------------------------------
(* buffer_engine_init: memset, then an empty list and id 1. *)
BufferInit ==
  /\ up' = TRUE
  /\ queue' = <<>>
  /\ nextLogId' = 1
  /\ metrics' = ZeroMetrics

(* buffer_engine_init and then buffer_engine_shutdown, as engine_init      *)
(* calls them when the database refuses it.                                *)
BufferInitAndShutdown ==
  /\ up' = FALSE
  /\ queue' = <<>>
  /\ nextLogId' = 1
  /\ metrics' = ZeroMetrics

(* buffer_engine_shutdown: every node and entry is freed, the counters of  *)
(* past traffic stay as they are.                                          *)
BufferShutdown ==
  /\ up
  /\ up' = FALSE
  /\ queue' = <<>>
  /\ metrics' = WithDepth(metrics, <<>>)
  /\ UNCHANGED nextLogId

(* Mutant of Enqueue: the cached depth is not refreshed. *)
EnqueueStaleDepth ==
  /\ up
  /\ ~Full
  /\ queue' = Append(queue, nextLogId)
  /\ nextLogId' = nextLogId + 1
  /\ metrics' = [metrics EXCEPT !.total_ingested = @ + 1]
  /\ UNCHANGED up

(* buffer_engine_enqueue, the accepting path. *)
Enqueue ==
  /\ up
  /\ ~Full
  /\ queue' = Append(queue, nextLogId)
  /\ nextLogId' = nextLogId + 1
  /\ metrics' = WithDepth([metrics EXCEPT !.total_ingested = @ + 1], queue')
  /\ UNCHANGED up

(* buffer_engine_enqueue, the paths that return 0 and count an error: the  *)
(* buffer is full, or calloc, log_entry_init (a field that is too long) or *)
(* linked_list_push_back fails.                                            *)
EnqueueRefused ==
  /\ up
  /\ metrics' = CountError(metrics)
  /\ UNCHANGED <<up, queue, nextLogId>>

(* buffer_engine_enqueue with a NULL field or an empty message returns 0   *)
(* before the mutex is taken and counts nothing.                           *)
EnqueueInvalid ==
  /\ up
  /\ UNCHANGED bufferVars

(* Mutant of Dequeue: the entry is handed out and stays in the list. *)
DequeuePeeks ==
  /\ up
  /\ queue # <<>>
  /\ UNCHANGED bufferVars

(* buffer_engine_dequeue of a non-empty list hands Head(queue) to the      *)
(* caller, who now owns it.                                                *)
Dequeue ==
  /\ up
  /\ queue # <<>>
  /\ queue' = Tail(queue)
  /\ metrics' = WithDepth(metrics, queue')
  /\ UNCHANGED <<up, nextLogId>>

(* Mutant of DequeueEmpty: the size is decremented unconditionally. *)
DequeueUnderflow ==
  /\ up
  /\ queue = <<>>
  /\ metrics' = [metrics EXCEPT !.queue_depth = @ - 1]
  /\ UNCHANGED <<up, queue, nextLogId>>

(* buffer_engine_dequeue of an empty list refreshes the depth, returns 0.  *)
DequeueEmpty ==
  /\ up
  /\ queue = <<>>
  /\ metrics' = WithDepth(metrics, queue)
  /\ UNCHANGED <<up, queue, nextLogId>>

(* Mutants of RequeueFront: the entry is counted as a new one; it goes to  *)
(* the tail; the capacity is not tested.                                   *)
RequeueCounted(e) ==
  /\ up
  /\ ~Full
  /\ queue' = <<e>> \o queue
  /\ metrics' = WithDepth([metrics EXCEPT !.total_ingested = @ + 1], queue')
  /\ UNCHANGED <<up, nextLogId>>

RequeueBack(e) ==
  /\ up
  /\ ~Full
  /\ queue' = Append(queue, e)
  /\ metrics' = WithDepth(metrics, queue')
  /\ UNCHANGED <<up, nextLogId>>

RequeueUnbounded(e) ==
  /\ up
  /\ queue' = <<e>> \o queue
  /\ metrics' = WithDepth(metrics, queue')
  /\ UNCHANGED <<up, nextLogId>>

(* buffer_engine_requeue_front: the entry goes back to the head.  No       *)
(* counter changes but the depth.                                          *)
RequeueFront(e) ==
  /\ up
  /\ ~Full
  /\ queue' = <<e>> \o queue
  /\ metrics' = WithDepth(metrics, queue')
  /\ UNCHANGED <<up, nextLogId>>

(* buffer_engine_requeue_front returning 0: the capacity is reached (full) *)
(* or linked_list_push_front found no memory for the node (noMemory).  The *)
(* caller still owns the entry.                                            *)
RequeueRefused(noMemory) ==
  /\ up
  /\ Full \/ noMemory
  /\ UNCHANGED bufferVars

(* buffer_engine_mark_processed *)
MarkProcessed ==
  /\ up
  /\ metrics' = [metrics EXCEPT !.total_processed = @ + 1]
  /\ UNCHANGED <<up, queue, nextLogId>>

(* buffer_engine_mark_error *)
MarkError ==
  /\ up
  /\ metrics' = CountError(metrics)
  /\ UNCHANGED <<up, queue, nextLogId>>

(* Whatever the callers do, the buffer takes one of these steps.           *)
BufferStep ==
  \/ BufferInit \/ BufferInitAndShutdown \/ BufferShutdown
  \/ Enqueue \/ EnqueueRefused \/ EnqueueInvalid
  \/ Dequeue \/ DequeueEmpty
  \/ \E e \in Nat : RequeueFront(e)
  \/ \E noMemory \in BOOLEAN : RequeueRefused(noMemory)
  \/ MarkProcessed \/ MarkError

-----------------------------------------------------------------------------
(* The cached depth is what enqueue and requeue_front compare with the     *)
(* capacity: it never disagrees with the list, and neither exceeds the     *)
(* capacity, whichever calls got the mutex in between.                     *)
BufferBounded ==
  /\ metrics.queue_depth = Len(queue)
  /\ Len(queue) <= Capacity

=============================================================================
