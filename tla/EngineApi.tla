------------------------------ MODULE EngineApi ------------------------------
(***************************************************************************)
(* The runtime behind the FFI boundary, src/src/api/engine_api.c: one      *)
(* process-wide engine that any number of threads call (FastAPI runs its   *)
(* handlers in a thread pool and ctypes releases the GIL for the call).    *)
(*                                                                         *)
(* Every entry point holds g_runtime.lock from its first statement to its  *)
(* return.  A call that touches nothing but the buffer, and one that makes *)
(* a single database request, is therefore one step; a call that runs the  *)
(* queue processor keeps the lock over the steps of QueueProcessor.  What  *)
(* is NOT covered by the lock is what the caller does next: it reads the   *)
(* answer from a static buffer (json_metrics, ...) or asks                 *)
(* engine_last_error for the text of the failure.  pc[t] is "respond" or   *)
(* "readError" until it has done so.                                       *)
(***************************************************************************)
EXTENDS QueueProcessor, FiniteSets

CONSTANTS
  NoThread,             \* the lock is free
  AutoProcessThreshold, \* config.auto_process_threshold
  MaxItems,             \* the max_items arguments a run uses
  MaxCalls              \* bound: how many calls the threads make in all

(* config_load_from_env clips the threshold into 1..capacity; max_items is *)
(* a size_t, and 0 selects the default batch.                              *)
ASSUME EngineAssumption ==
  /\ AutoProcessThreshold \in 1..Capacity
  /\ MaxItems \subseteq Nat
  /\ MaxCalls \in Nat
  /\ NoThread \notin Threads

VARIABLES
  initialized,          \* g_runtime.initialized
  lock,                 \* g_runtime.lock: its holder, or NoThread
  op,                   \* the entry point each thread is in
  clobbered,            \* the threads whose unread answer was overwritten
  added,                \* auxiliary: the log this engine_add_log has queued
  calls                 \* calls made so far

apiVars == <<initialized, lock, op, clobbered, added, calls>>
vars == <<bufferVars, dbVars, localVars, auxVars, apiVars>>

(* The entry points that answer in a static JSON buffer of their own. *)
Kinds == {"metrics", "pending", "health", "process"}

Ops == {"none", "init", "add", "shutdown"} \cup Kinds

(* The places where a thread is inside an entry point and holds the lock,  *)
(* and those where it has returned but has not read its answer.            *)
Inside == Processing \cup {"succeeded", "failed", "drained", "aborted"}
Outside == {"idle", "respond", "readError"}

RuntimeTypeOK ==
  /\ initialized \in BOOLEAN
  /\ lock \in Threads \cup {NoThread}
  /\ op \in [Threads -> Ops]
  /\ clobbered \in SUBSET Threads
  /\ added \in [Threads -> Nat]
  /\ calls \in 0..MaxCalls

EngineTypeOK ==
  /\ BufferTypeOK
  /\ PersistenceTypeOK(Metrics)
  /\ ProcessorTypeOK(Inside \cup Outside)
  /\ RuntimeTypeOK

Init ==
  /\ BufferZeroed
  /\ conn = "none" /\ rows = <<>> /\ snapshot = ZeroMetrics /\ unsure = 0
  /\ pc = [t \in Threads |-> "idle"]
  /\ limit = [t \in Threads |-> 0]
  /\ processed = [t \in Threads |-> 0]
  /\ entry = [t \in Threads |-> NoEntry]
  /\ dropped = 0 /\ insertFailed = FALSE
  /\ initialized = FALSE
  /\ lock = NoThread
  /\ op = [t \in Threads |-> "none"]
  /\ clobbered = {}
  /\ added = [t \in Threads |-> NoEntry]
  /\ calls = 0

-----------------------------------------------------------------------------
(* Control shared by the entry points.                                     *)

(* Mutant of Call: the runtime mutex is not taken. *)
CallUnserialized(t) ==
  /\ pc[t] = "idle"
  /\ calls < MaxCalls
  /\ calls' = calls + 1

(* A thread gets the lock and enters an entry point. *)
Call(t) ==
  /\ pc[t] = "idle"
  /\ lock = NoThread
  /\ calls < MaxCalls
  /\ calls' = calls + 1

(* It keeps the lock and runs the queue processor. *)
StartProcessing(t, o, maxItems) ==
  /\ lock' = t
  /\ op' = [op EXCEPT ![t] = o]
  /\ ProcessorStart(t, maxItems)

(* A call that is over in one step, leaving its answer at the given place. *)
ReturnAtOnce(t, o, place) ==
  /\ GoTo(t, place)
  /\ op' = [op EXCEPT ![t] = IF place = "idle" THEN "none" ELSE o]
  /\ UNCHANGED <<lock, limit, processed, entry, added>>

(* The end of a call that ran the queue processor.  Its locals die, but    *)
(* for the count that engine_process_queue has put into its answer.        *)
Return(t, place) ==
  /\ lock' = NoThread
  /\ GoTo(t, place)
  /\ op' = [op EXCEPT ![t] = IF place = "idle" THEN "none" ELSE @]
  /\ added' = [added EXCEPT ![t] = IF place = "idle" THEN NoEntry ELSE @]
  /\ limit' = [limit EXCEPT ![t] = 0]
  /\ processed' = [processed EXCEPT ![t] = IF place = "respond" THEN @ ELSE 0]
  /\ UNCHANGED <<entry, calls>>

(* Thread t writes the static JSON buffers of the given kinds, and         *)
(* last_error if errors.  Whoever has yet to read one of them will find    *)
(* t's text there, or a mixture with its own if the two overlap.           *)
Overwrite(t, kinds, errors) ==
  clobbered' = clobbered \cup
    {u \in Threads \ {t} : \/ pc[u] = "respond" /\ op[u] \in kinds
                           \/ pc[u] = "readError" /\ errors}

WritesNothing == UNCHANGED clobbered

-----------------------------------------------------------------------------
(* engine_init                                                             *)

(* On an initialized runtime it returns 1 and changes nothing. *)
InitAgain(t) ==
  /\ Call(t)
  /\ initialized
  /\ ReturnAtOnce(t, "init", "idle")
  /\ WritesNothing
  /\ UNCHANGED <<bufferVars, dbVars, auxVars, initialized>>

InitRuntime(t) ==
  /\ Call(t)
  /\ ~initialized
  /\ BufferInit
  /\ PersistenceInit(ZeroMetrics)
  /\ initialized' = TRUE
  /\ dropped' = 0 /\ insertFailed' = FALSE
  /\ ReturnAtOnce(t, "init", "idle")
  /\ Overwrite(t, {}, TRUE)

(* The environment, read again at each attempt, is refused, or the logger's *)
(* mutex cannot be created.  The buffer's own refusals (capacity 0, a      *)
(* mutex that cannot be created) have no case of their own.                *)
InitRejected(t) ==
  /\ Call(t)
  /\ ~initialized
  /\ ReturnAtOnce(t, "init", "readError")
  /\ Overwrite(t, {}, TRUE)
  /\ UNCHANGED <<bufferVars, dbVars, auxVars, initialized>>

(* The database refuses; what was set up is taken down again. *)
InitWithoutDatabase(t) ==
  /\ Call(t)
  /\ ~initialized
  /\ BufferInitAndShutdown
  /\ PersistenceInitFails(ZeroMetrics)
  /\ dropped' = 0 /\ insertFailed' = FALSE
  /\ ReturnAtOnce(t, "init", "readError")
  /\ Overwrite(t, {}, TRUE)
  /\ UNCHANGED initialized

-----------------------------------------------------------------------------
(* engine_add_log                                                          *)

(* Mutant of AddLog: the processor runs only above the threshold. *)
AddLogAboveThreshold(t) ==
  /\ Call(t)
  /\ initialized
  /\ Enqueue
  /\ IF metrics'.queue_depth > AutoProcessThreshold
     THEN /\ StartProcessing(t, "add", ProcessBatchSize)
          /\ added' = [added EXCEPT ![t] = nextLogId]
     ELSE ReturnAtOnce(t, "add", "idle")
  /\ WritesNothing
  /\ UNCHANGED <<dbVars, auxVars, initialized>>

(* The log is queued.  At the threshold the same call runs the processor,  *)
(* with the lock still held; below it the call returns 1.                  *)
AddLog(t) ==
  /\ Call(t)
  /\ initialized
  /\ Enqueue
  /\ IF metrics'.queue_depth >= AutoProcessThreshold
     THEN /\ StartProcessing(t, "add", ProcessBatchSize)
          /\ added' = [added EXCEPT ![t] = nextLogId]
     ELSE ReturnAtOnce(t, "add", "idle")
  /\ WritesNothing
  /\ UNCHANGED <<dbVars, auxVars, initialized>>

(* It returns 0: the runtime is down, the payload is invalid, or the       *)
(* buffer refuses the log.                                                 *)
AddLogRefused(t) ==
  /\ Call(t)
  /\ \/ ~initialized /\ UNCHANGED bufferVars
     \/ initialized /\ EnqueueInvalid
     \/ initialized /\ EnqueueRefused
  /\ ReturnAtOnce(t, "add", "readError")
  /\ Overwrite(t, {}, TRUE)
  /\ UNCHANGED <<dbVars, auxVars, initialized>>

(* The processor it ran has returned 1, or 0. *)
AddLogReturns(t) ==
  /\ op[t] = "add"
  /\ \/ pc[t] = "succeeded" /\ Return(t, "idle") /\ WritesNothing
     \/ pc[t] = "failed" /\ Return(t, "readError") /\ Overwrite(t, {}, TRUE)
  /\ UNCHANGED <<bufferVars, dbVars, auxVars, initialized>>

-----------------------------------------------------------------------------
(* engine_process_queue                                                    *)

ProcessQueue(t, maxItems) ==
  /\ Call(t)
  /\ initialized
  /\ StartProcessing(t, "process", maxItems)
  /\ WritesNothing
  /\ UNCHANGED <<bufferVars, dbVars, auxVars, initialized, added>>

ProcessQueueDown(t) ==
  /\ Call(t)
  /\ ~initialized
  /\ ReturnAtOnce(t, "process", "respond")
  /\ Overwrite(t, {"process"}, TRUE)
  /\ UNCHANGED <<bufferVars, dbVars, auxVars, initialized>>

(* The answer says how many were processed, or, in the failing case, only  *)
(* the error.                                                              *)
ProcessQueueReturns(t) ==
  /\ op[t] = "process"
  /\ pc[t] \in {"succeeded", "failed"}
  /\ Return(t, "respond")
  /\ Overwrite(t, {"process"}, pc[t] = "failed")
  /\ UNCHANGED <<bufferVars, dbVars, auxVars, initialized>>

-----------------------------------------------------------------------------
(* engine_get_metrics and engine_get_pending_logs copy the buffer's state  *)
(* into their JSON buffer, engine_health asks the database first.          *)

Query(t, kind) ==
  /\ Call(t)
  /\ ReturnAtOnce(t, kind, "respond")
  /\ Overwrite(t, {kind}, ~initialized)
  /\ UNCHANGED <<bufferVars, dbVars, auxVars, initialized>>

Health(t) ==
  /\ Call(t)
  /\ \/ /\ initialized
        /\ Ping
        /\ Overwrite(t, {"health"}, FALSE)
     \/ /\ initialized
        /\ \E k \in DbFaults : PingFails(k)
        /\ Overwrite(t, {"health"}, TRUE)
     \/ /\ ~initialized
        /\ Overwrite(t, {"health"}, TRUE)
        /\ UNCHANGED dbVars
  /\ ReturnAtOnce(t, "health", "respond")
  /\ UNCHANGED <<bufferVars, auxVars, initialized>>

-----------------------------------------------------------------------------
(* engine_shutdown: batches until one processes nothing or fails, then the *)
(* teardown.                                                               *)

ShutdownAgain(t) ==
  /\ Call(t)
  /\ ~initialized
  /\ ReturnAtOnce(t, "shutdown", "idle")
  /\ WritesNothing
  /\ UNCHANGED <<bufferVars, dbVars, auxVars, initialized>>

Shutdown(t) ==
  /\ Call(t)
  /\ initialized
  /\ StartProcessing(t, "shutdown", ProcessBatchSize)
  /\ WritesNothing
  /\ UNCHANGED <<bufferVars, dbVars, auxVars, initialized, added>>

(* Mutant of NextBatch: the drain goes on when nothing was processed. *)
NextBatchAlways(t) ==
  /\ op[t] = "shutdown"
  /\ pc[t] = "succeeded"
  /\ ProcessorStart(t, ProcessBatchSize)
  /\ UNCHANGED <<bufferVars, dbVars, auxVars, apiVars>>

(* The batch processed something: once more. *)
NextBatch(t) ==
  /\ op[t] = "shutdown"
  /\ pc[t] = "succeeded"
  /\ processed[t] > 0
  /\ ProcessorStart(t, ProcessBatchSize)
  /\ UNCHANGED <<bufferVars, dbVars, auxVars, apiVars>>

(* Mutant of DrainEnds: one batch is all that is processed. *)
DrainOneBatch(t) ==
  /\ op[t] = "shutdown"
  /\ \/ /\ pc[t] = "succeeded"
        /\ GoTo(t, "drained")
        /\ WritesNothing
     \/ /\ pc[t] = "failed"
        /\ GoTo(t, "aborted")
        /\ Overwrite(t, {}, TRUE)
  /\ UNCHANGED <<bufferVars, dbVars, auxVars, limit, processed, entry>>
  /\ UNCHANGED <<initialized, lock, op, added, calls>>

(* The batch processed nothing, or it failed. *)
DrainEnds(t) ==
  /\ op[t] = "shutdown"
  /\ \/ /\ pc[t] = "succeeded"
        /\ processed[t] = 0
        /\ GoTo(t, "drained")
        /\ WritesNothing
     \/ /\ pc[t] = "failed"
        /\ GoTo(t, "aborted")
        /\ Overwrite(t, {}, TRUE)
  /\ UNCHANGED <<bufferVars, dbVars, auxVars, limit, processed, entry>>
  /\ UNCHANGED <<initialized, lock, op, added, calls>>

(* Mutant of Teardown: the connection is left open. *)
TeardownKeepsConnection(t) ==
  /\ pc[t] \in {"drained", "aborted"}
  /\ UNCHANGED dbVars
  /\ BufferShutdown
  /\ dropped' = dropped + Len(queue)
  /\ initialized' = FALSE
  /\ Return(t, "idle")
  /\ WritesNothing
  /\ UNCHANGED insertFailed

(* The logs still queued are freed with the buffer; the call returns 1.    *)
Teardown(t) ==
  /\ pc[t] \in {"drained", "aborted"}
  /\ PersistenceClose
  /\ BufferShutdown
  /\ dropped' = dropped + Len(queue)
  /\ initialized' = FALSE
  /\ Return(t, "idle")
  /\ WritesNothing
  /\ UNCHANGED insertFailed

-----------------------------------------------------------------------------
(* The caller copies the static buffer it was given, or asks for the text  *)
(* of the error with engine_last_error, which takes no lock.               *)
ReadAnswer(t) ==
  /\ pc[t] \in {"respond", "readError"}
  /\ GoTo(t, "idle")
  /\ op' = [op EXCEPT ![t] = "none"]
  /\ added' = [added EXCEPT ![t] = NoEntry]
  /\ processed' = [processed EXCEPT ![t] = 0]
  /\ clobbered' = clobbered \ {t}
  /\ UNCHANGED <<bufferVars, dbVars, auxVars, limit, entry>>
  /\ UNCHANGED <<initialized, lock, calls>>

-----------------------------------------------------------------------------
Invoke(t) ==
  \/ InitAgain(t)
  \/ InitRuntime(t)
  \/ InitRejected(t)
  \/ InitWithoutDatabase(t)
  \/ AddLog(t)
  \/ AddLogRefused(t)
  \/ \E n \in MaxItems : ProcessQueue(t, n)
  \/ ProcessQueueDown(t)
  \/ \E kind \in {"metrics", "pending"} : Query(t, kind)
  \/ Health(t)
  \/ ShutdownAgain(t)
  \/ Shutdown(t)

Continue(t) ==
  \/ ProcessorStep(t) /\ UNCHANGED apiVars
  \/ AddLogReturns(t)
  \/ ProcessQueueReturns(t)
  \/ NextBatch(t)
  \/ DrainEnds(t)
  \/ Teardown(t)
  \/ ReadAnswer(t)

(* The bound on calls is reached and every call is over. *)
Finished ==
  /\ calls = MaxCalls
  /\ \A t \in Threads : pc[t] = "idle"
  /\ UNCHANGED vars

Next == Finished \/ \E t \in Threads : Invoke(t) \/ Continue(t)

(* A thread inside a call is scheduled again and libpq's requests return,  *)
(* so a call that has begun goes on.  Nothing forces a thread to call, and *)
(* pthread mutexes promise no fairness to a thread that waits for one.     *)
Fairness == \A t \in Threads : WF_vars(Continue(t))

Spec == Init /\ [][Next]_vars /\ Fairness

-----------------------------------------------------------------------------
(* The entry the processor holds between taking it and storing it or       *)
(* giving it back.                                                         *)
Holding ==
  IF lock # NoThread /\ entry[lock] # NoEntry THEN <<entry[lock]>> ELSE <<>>

(* An insert is acknowledged and not yet counted. *)
Uncounted == IF lock # NoThread /\ pc[lock] = "mark" THEN 1 ELSE 0

Pending == Holding \o queue

(* One call at a time is inside the runtime, and exactly while it holds    *)
(* the lock: the queue processor, whose steps release engine->mutex        *)
(* between them, is never interleaved with another entry point.            *)
MutualExclusion ==
  \A t \in Threads : pc[t] \in Inside <=> lock = t

(* Every log that was accepted is stored and counted, or still pending, or *)
(* was dropped: total_ingested never disagrees with where the logs are,    *)
(* across batches, requeues, failures and the shutdown.                    *)
Accounting ==
  metrics.total_ingested =
    metrics.total_processed + Uncounted + Len(Pending) + dropped

(* The processor can always give back the entry it took: nobody fills its  *)
(* place while it waits for the database, so the branch that frees a log   *)
(* because the buffer is full again is dead code under the runtime lock.   *)
RoomForRequeue ==
  \A t \in Threads : pc[t] \in {"insert", "requeue"} => ~Full

(* processed_logs holds the logs in the order they were accepted, each     *)
(* one once unless an insert that committed was reported failed, and what  *)
(* is pending is exactly the last ids given out, still in order.           *)
DeliveryInOrder ==
  /\ \A i \in 1..Len(rows) - 1 : rows[i] <= rows[i + 1]
  /\ unsure = 0 => \A i \in 1..Len(rows) - 1 : rows[i] < rows[i + 1]
  /\ up => \A i \in 1..Len(Pending) :
             Pending[i] = nextLogId - Len(Pending) + i - 1
  /\ rows # <<>> /\ Pending # <<>> => rows[Len(rows)] <= Pending[1]

(* total_processed is the number of rows the database acknowledged; the    *)
(* table holds no other row but the ones whose acknowledgement was lost,   *)
(* and each of these shows in total_errors.                                *)
RowsAccounted ==
  /\ Len(rows) = metrics.total_processed + Uncounted + unsure
  /\ unsure <= metrics.total_errors

(* The logs that are in the table or still in the runtime's hands. *)
Known == {rows[i] : i \in DOMAIN rows} \cup {Pending[i] : i \in DOMAIN Pending}

(* Each log by itself: every id that was given out is stored or pending,   *)
(* but for as many as were dropped, and none is there twice, in the table  *)
(* or in both places, but for as many as lost their acknowledgement.       *)
AtLeastOnce ==
  /\ Known \subseteq 1..metrics.total_ingested
  /\ Cardinality((1..metrics.total_ingested) \ Known) <= dropped
  /\ Len(rows) + Len(Pending) <= Cardinality(Known) + unsure

(* Between two calls the buffer is below the threshold, unless an insert   *)
(* has failed since the runtime was initialized: the back-pressure the     *)
(* threshold is for.                                                       *)
BackPressure ==
  initialized /\ lock = NoThread /\ metrics.queue_depth >= AutoProcessThreshold
    => insertFailed

(* A shutdown whose drain loop ended by itself tears down an empty buffer. *)
DrainedIsEmpty ==
  \A t \in Threads : pc[t] = "drained" => queue = <<>>

(* A row of processing_metrics is a consistent picture: it accounts for    *)
(* every log ingested up to the batch it closes, none of them in flight.   *)
SnapshotBalanced ==
  LET seen == snapshot.total_processed + snapshot.queue_depth
  IN  /\ seen <= snapshot.total_ingested
      /\ snapshot.total_ingested <= seen + dropped
      /\ snapshot.total_processed <= Len(rows)

(* initialized, the buffer and the connection go up and down together, and *)
(* a runtime that is down keeps no log in memory.                          *)
CleanWhenDown ==
  /\ initialized <=> up
  /\ initialized <=> conn # "none"
  /\ ~initialized => queue = <<>> /\ \A t \in Threads : entry[t] = NoEntry

(* A call that got the lock gives it back: the batch loop and the drain    *)
(* loop of engine_shutdown end, whatever the database answers.             *)
CallsReturn == \A t \in Threads : lock = t ~> lock = NoThread

(* How many more steps the call that holds the lock can make, whatever the *)
(* database answers and whatever max_items is: those from its place, with  *)
(* so many logs stored in this batch, to the end of the call if nothing    *)
(* more is stored, and six more for each pending log.                      *)
Rank(place, stored) ==
  CASE place \in {"drained", "aborted"} -> 1
    [] place = "failed"    -> 2
    [] place = "requeue"   -> 3
    [] place = "insert"    -> 4
    [] place = "snapshot"  -> 7
    [] place = "mark"      -> 9
    [] place = "succeeded" -> IF stored = 0 THEN 2 ELSE 6
    [] place = "dequeue"   -> IF stored = 0 THEN 5 ELSE 8

StepsLeft ==
  IF lock = NoThread THEN 0
  ELSE 6 * Len(Pending) + Rank(pc[lock], processed[lock])

(* How long a call can hold the lock: a bound that depends on the capacity *)
(* alone is set when it takes it, and every step but another caller's      *)
(* reading of its answer brings the release nearer.  A failed insert that  *)
(* was given back is not tried again, and a batch that stored nothing      *)
(* ends the drain.                                                         *)
BoundedCalls ==
  [][IF lock = NoThread
     THEN StepsLeft' <= 6 * Capacity + 5
     ELSE \/ StepsLeft' < StepsLeft
          \/ UNCHANGED <<bufferVars, dbVars, auxVars, lock, pc[lock], StepsLeft>>]_vars

(* The engine delivers logs as FifoDelivery says: an entry the processor   *)
(* holds is still the oldest pending log.                                  *)
Delivery ==
  INSTANCE FifoDelivery WITH
    open <- initialized, accepted <- metrics.total_ingested,
    pending <- Pending, stored <- rows, troubled <- insertFailed

DeliversFifo == Delivery!Spec

-----------------------------------------------------------------------------
(* What the documents say and the code does not do.                        *)

(* README.md: "Remaining queue is processed in batches before teardown."   *)
(* The runtime goes down only with an empty buffer.                        *)
QueueProcessedBeforeTeardown ==
  [][initialized /\ ~initialized' => queue = <<>>]_vars

(* TECHNICAL_OVERVIEW.md: entry points "serialize critical runtime         *)
(* operations via a runtime mutex" and the "current mode is safe for       *)
(* one-process execution": the caller of engine_process_queue reads how    *)
(* many logs its own call processed.                                       *)
OwnAnswer ==
  \A t \in clobbered : ~(op[t] = "process" /\ processed[t] > 0)

(* src/main.c prints "enqueue failed" when engine_add_log returns 0, and   *)
(* the dashboard "Submission failed": such a log is not in the engine.     *)
FailedAddIsNotQueued ==
  \A t \in Threads :
    op[t] = "add" /\ pc[t] = "readError" /\ added[t] # NoEntry =>
      \A i \in 1..Len(queue) : queue[i] # added[t]

(* README.md: "When threshold is reached (or `/process` is called), queue  *)
(* processor dequeues": an engine_add_log that reaches the buffer and      *)
(* leaves it at the threshold or above runs the processor.                 *)
ThresholdStartsProcessing ==
  [][\A t \in Threads :
       op[t] = "none" /\ op'[t] = "add" /\ metrics' # metrics
         /\ metrics'.queue_depth >= AutoProcessThreshold
       => pc'[t] = "dequeue"]_vars

=============================================================================
