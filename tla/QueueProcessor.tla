--------------------------- MODULE QueueProcessor ---------------------------
(***************************************************************************)
(* queue_processor_process, src/src/core/queue_processor.c: the loop that  *)
(* takes logs from the buffer, stores them and gives back the one whose    *)
(* insert failed.                                                          *)
(*                                                                         *)
(* A thread t inside the call is at pc[t], with the C locals limit,        *)
(* processed and entry in functions of the same names.  One step per call  *)
(* into the buffer or the database: between two of them the code holds     *)
(* neither engine->mutex nor a transaction.  The call ends with pc[t] at   *)
(* "succeeded" (it returns 1) or at "failed" (it returns 0).               *)
(***************************************************************************)
EXTENDS BufferEngine, Persistence

CONSTANTS
  Threads,              \* the threads that call the engine
  ProcessBatchSize      \* processor->default_batch_size

(* config_load_from_env turns a batch size of 0 into 1, and so does        *)
(* queue_processor_init.                                                   *)
ASSUME BatchAssumption == ProcessBatchSize \in Nat \ {0}

VARIABLES
  pc,                   \* where each thread is
  limit,                \* how many entries this call may process
  processed,            \* how many it has stored and counted
  entry,                \* the LogEntry it owns, NoEntry when NULL
  dropped,              \* auxiliary: accepted logs freed without being stored
  insertFailed          \* auxiliary: some insert was reported failed

localVars == <<pc, limit, processed, entry>>
auxVars == <<dropped, insertFailed>>

NoEntry == 0            \* next_log_id starts at 1

(* The places inside queue_processor_process. *)
Processing == {"dequeue", "insert", "mark", "requeue", "snapshot"}

ProcessorTypeOK(Places) ==
  /\ pc \in [Threads -> Places]
  /\ limit \in [Threads -> Nat]
  /\ processed \in [Threads -> Nat]
  /\ entry \in [Threads -> Nat]
  /\ dropped \in Nat
  /\ insertFailed \in BOOLEAN

GoTo(t, place) == pc' = [pc EXCEPT ![t] = place]

-----------------------------------------------------------------------------
(* Entry of the function: max_items = 0 selects the default batch.         *)
ProcessorStart(t, maxItems) ==
  /\ limit' = [limit EXCEPT ![t] = IF maxItems > 0 THEN maxItems
                                                   ELSE ProcessBatchSize]
  /\ processed' = [processed EXCEPT ![t] = 0]
  /\ entry' = [entry EXCEPT ![t] = NoEntry]
  /\ GoTo(t, "dequeue")

(* Mutant of TakeEntry: the newest log is processed first. *)
TakeNewest(t) ==
  /\ pc[t] = "dequeue"
  /\ processed[t] < limit[t]
  /\ up /\ queue # <<>>
  /\ entry' = [entry EXCEPT ![t] = queue[Len(queue)]]
  /\ queue' = SubSeq(queue, 1, Len(queue) - 1)
  /\ metrics' = WithDepth(metrics, queue')
  /\ GoTo(t, "insert")
  /\ UNCHANGED <<up, nextLogId, limit, processed, dbVars, auxVars>>

(* The loop takes the next entry. *)
TakeEntry(t) ==
  /\ pc[t] = "dequeue"
  /\ processed[t] < limit[t]
  /\ Dequeue
  /\ entry' = [entry EXCEPT ![t] = Head(queue)]
  /\ GoTo(t, "insert")
  /\ UNCHANGED <<limit, processed, dbVars, auxVars>>

(* The loop ends: the batch is full, or the buffer is empty.  A metrics    *)
(* snapshot follows only if something was processed.                       *)
LoopEnds(t) ==
  /\ pc[t] = "dequeue"
  /\ IF processed[t] < limit[t] THEN DequeueEmpty ELSE UNCHANGED bufferVars
  /\ GoTo(t, IF processed[t] > 0 THEN "snapshot" ELSE "succeeded")
  /\ UNCHANGED <<limit, processed, entry, dbVars, auxVars>>

(* Mutant of StoreEntry: the metrics are saved before the entry counts. *)
StoreEntrySavesFirst(t) ==
  /\ pc[t] = "insert"
  /\ InsertLog(entry[t])
  /\ entry' = [entry EXCEPT ![t] = NoEntry]
  /\ GoTo(t, "snapshot")
  /\ UNCHANGED <<limit, processed, bufferVars, auxVars>>

(* The insert is acknowledged and the entry freed. *)
StoreEntry(t) ==
  /\ pc[t] = "insert"
  /\ InsertLog(entry[t])
  /\ entry' = [entry EXCEPT ![t] = NoEntry]
  /\ GoTo(t, "mark")
  /\ UNCHANGED <<limit, processed, bufferVars, auxVars>>

(* buffer_engine_mark_processed and processed++. *)
CountProcessed(t) ==
  /\ pc[t] = "mark"
  /\ MarkProcessed
  /\ processed' = [processed EXCEPT ![t] = @ + 1]
  /\ GoTo(t, "dequeue")
  /\ UNCHANGED <<limit, entry, dbVars, auxVars>>

(* Mutant of StoreFails: the entry counts as processed all the same. *)
StoreFailsCounted(t, k) ==
  /\ pc[t] = "insert"
  /\ InsertLogFails(entry[t], k)
  /\ MarkProcessed
  /\ insertFailed' = TRUE
  /\ GoTo(t, "requeue")
  /\ UNCHANGED <<limit, processed, entry, dropped>>

(* The insert is reported failed, and counted by buffer_engine_mark_error. *)
StoreFails(t, k) ==
  /\ pc[t] = "insert"
  /\ InsertLogFails(entry[t], k)
  /\ MarkError
  /\ insertFailed' = TRUE
  /\ GoTo(t, "requeue")
  /\ UNCHANGED <<limit, processed, entry, dropped>>

(* Mutant of GiveBack: the batch goes on and tries the same entry again. *)
GiveBackRetries(t) ==
  /\ pc[t] = "requeue"
  /\ RequeueFront(entry[t])
  /\ entry' = [entry EXCEPT ![t] = NoEntry]
  /\ GoTo(t, "dequeue")
  /\ UNCHANGED <<limit, processed, dbVars, auxVars>>

(* The entry returns to the head of the buffer; the call returns 0.        *)
GiveBack(t) ==
  /\ pc[t] = "requeue"
  /\ RequeueFront(entry[t])
  /\ entry' = [entry EXCEPT ![t] = NoEntry]
  /\ GoTo(t, "failed")
  /\ UNCHANGED <<limit, processed, dbVars, auxVars>>

(* The buffer does not take it back: the entry is freed, the log is lost.  *)
GiveUp(t) ==
  /\ pc[t] = "requeue"
  /\ RequeueRefused("noMemory" \in Faults)
  /\ dropped' = dropped + 1
  /\ entry' = [entry EXCEPT ![t] = NoEntry]
  /\ GoTo(t, "failed")
  /\ UNCHANGED <<limit, processed, dbVars, insertFailed>>

(* The metrics are copied and inserted.  A failure is only counted: the    *)
(* call returns 1 either way.                                              *)
SaveMetrics(t) ==
  /\ pc[t] = "snapshot"
  /\ InsertMetrics(metrics)
  /\ GoTo(t, "succeeded")
  /\ UNCHANGED <<limit, processed, entry, bufferVars, auxVars>>

SaveMetricsFails(t, k) ==
  /\ pc[t] = "snapshot"
  /\ InsertMetricsFails(metrics, k)
  /\ MarkError
  /\ GoTo(t, "succeeded")
  /\ UNCHANGED <<limit, processed, entry, auxVars>>

ProcessorStep(t) ==
  \/ TakeEntry(t)
  \/ LoopEnds(t)
  \/ StoreEntry(t)
  \/ CountProcessed(t)
  \/ \E k \in DbFaults : StoreFails(t, k)
  \/ GiveBack(t)
  \/ GiveUp(t)
  \/ SaveMetrics(t)
  \/ \E k \in DbFaults : SaveMetricsFails(t, k)

=============================================================================
