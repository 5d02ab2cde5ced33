--------------------------- MODULE EngineApi_proofs ---------------------------
(***************************************************************************)
(* Safety of the runtime, for any set of threads, any capacity, batch size,*)
(* threshold and bound on the calls, and any faults: its state keeps its   *)
(* types, the runtime lock is a mutex, the processor can always give back  *)
(* what it took, and every accepted log is accounted for.  Then what it    *)
(* makes of those logs: how far the queue fills, what the two tables say,  *)
(* that the logs are delivered in order, as FifoDelivery promises, and     *)
(* each at least once.  Last, how long a call may hold the lock.           *)
(***************************************************************************)
EXTENDS EngineApi, BufferEngine_proofs, SequenceTheorems, FiniteSetTheorems, TLAPS

-----------------------------------------------------------------------------
(* Types.  The variables of the buffer and of the database are changed by  *)
(* their own operations only (NextIsBufferStep, NextIsPersistenceStep), so *)
(* what those preserve the runtime preserves; the control state is left to *)
(* be checked entry point by entry point.                                  *)

(* Every request leaves the connection and the tables well typed. *)
LEMMA PersistenceStepTypes ==
  ASSUME NEW Snapshots, PersistenceTypeOK(Snapshots),
         [PersistenceStep(Nat, Snapshots)]_dbVars
  PROVE  PersistenceTypeOK(Snapshots)'
<1> USE DEF PersistenceTypeOK, dbVars
<1>1. CASE UNCHANGED dbVars
  BY <1>1
<1>2. ASSUME NEW empty \in Snapshots,
             PersistenceInit(empty) \/ PersistenceInitFails(empty)
      PROVE  PersistenceTypeOK(Snapshots)'
  <2>1. conn' \in {"none", "open", "broken"}
    BY <1>2 DEF PersistenceInit, PersistenceInitFails
  <2>2. rows' = <<>> /\ snapshot' = empty /\ unsure' = 0
    BY <1>2 DEF PersistenceInit, PersistenceInitFails
  <2> QED
    BY <2>1, <2>2
<1>3. CASE PersistenceClose
  BY <1>3 DEF PersistenceClose
<1>4. ASSUME NEW e \in Nat, InsertLog(e) PROVE PersistenceTypeOK(Snapshots)'
  BY <1>4 DEF InsertLog
<1>5. ASSUME NEW e \in Nat, NEW k \in DbFaults, InsertLogFails(e, k)
      PROVE  PersistenceTypeOK(Snapshots)'
  <2>1. conn' \in {"none", "open", "broken"}
    BY <1>5 DEF InsertLogFails, AfterFailure
  <2>2. /\ rows' = rows \/ rows' = Append(rows, e)
        /\ unsure' = unsure \/ unsure' = unsure + 1
    BY <1>5 DEF InsertLogFails
  <2>3. rows \in Seq(Nat) /\ unsure \in Nat
    OBVIOUS
  <2>4. rows' \in Seq(Nat)
    BY ONLY <2>2, <2>3, AppendProperties
  <2>5. unsure' \in Nat
    BY ONLY <2>2, <2>3
  <2> QED
    BY <1>5, <2>1, <2>4, <2>5 DEF InsertLogFails
<1>6. ASSUME NEW m \in Snapshots, InsertMetrics(m)
      PROVE  PersistenceTypeOK(Snapshots)'
  BY <1>6 DEF InsertMetrics
<1>7. ASSUME NEW m \in Snapshots, NEW k \in DbFaults, InsertMetricsFails(m, k)
      PROVE  PersistenceTypeOK(Snapshots)'
  BY <1>7 DEF InsertMetricsFails, AfterFailure
<1>8. CASE Ping
  BY <1>8 DEF Ping
<1>9. ASSUME NEW k \in DbFaults, PingFails(k) PROVE PersistenceTypeOK(Snapshots)'
  BY <1>9 DEF PingFails, AfterFailure
<1> QED
  BY <1>1, <1>2, <1>3, <1>4, <1>5, <1>6, <1>7, <1>8, <1>9 DEF PersistenceStep

(* Seen from the buffer, a step of the runtime is a step of the buffer.    *)
LEMMA NextIsBufferStep ==
  ASSUME EngineTypeOK, [Next]_vars
  PROVE  [BufferStep]_bufferVars
<1> USE DEF EngineTypeOK, ProcessorTypeOK, BufferStep, vars
<1>1. CASE UNCHANGED vars \/ Finished
  BY <1>1 DEF Finished
<1>2. ASSUME NEW t \in Threads, Invoke(t) PROVE [BufferStep]_bufferVars
  BY <1>2 DEF Invoke, InitAgain, InitRuntime, InitRejected, InitWithoutDatabase,
              AddLog, AddLogRefused, ProcessQueue, ProcessQueueDown, Query, Health,
              ShutdownAgain, Shutdown
<1>3. ASSUME NEW t \in Threads, ProcessorStep(t) PROVE [BufferStep]_bufferVars
  <2>1. entry[t] \in Nat
    OBVIOUS
  <2>2. CASE GiveUp(t)
    <3>1. ("noMemory" \in Faults) \in BOOLEAN
      OBVIOUS
    <3>2. RequeueRefused("noMemory" \in Faults)
      BY <2>2 DEF GiveUp
    <3> QED
      BY <3>1, <3>2
  <2>3. CASE GiveBack(t)
    BY <2>1, <2>3 DEF GiveBack
  <2> QED
    BY <1>3, <2>2, <2>3
       DEF ProcessorStep, TakeEntry, LoopEnds, StoreEntry, CountProcessed,
           StoreFails, SaveMetrics, SaveMetricsFails
<1>4. ASSUME NEW t \in Threads, Continue(t), ~ProcessorStep(t)
      PROVE  [BufferStep]_bufferVars
  BY <1>4 DEF Continue, AddLogReturns, ProcessQueueReturns, NextBatch, DrainEnds,
              Teardown, ReadAnswer
<1> QED
  BY <1>1, <1>2, <1>3, <1>4 DEF Next, Continue

(* Seen from the database, a step of the runtime is one of its requests.   *)
LEMMA NextIsPersistenceStep ==
  ASSUME EngineTypeOK, [Next]_vars
  PROVE  [PersistenceStep(Nat, Metrics)]_dbVars
<1> USE DEF EngineTypeOK, ProcessorTypeOK, PersistenceStep, vars
<1>1. CASE UNCHANGED vars \/ Finished
  BY <1>1 DEF Finished
<1>2. ASSUME NEW t \in Threads, Invoke(t)
      PROVE  [PersistenceStep(Nat, Metrics)]_dbVars
  BY <1>2, EmptyTypes
     DEF Invoke, InitAgain, InitRuntime, InitRejected, InitWithoutDatabase,
         AddLog, AddLogRefused, ProcessQueue, ProcessQueueDown, Query, Health,
         ShutdownAgain, Shutdown
<1>3. ASSUME NEW t \in Threads, ProcessorStep(t)
      PROVE  [PersistenceStep(Nat, Metrics)]_dbVars
  <2>1. entry[t] \in Nat /\ metrics \in Metrics
    BY DEF BufferTypeOK
  <2> QED
    BY <1>3, <2>1 DEF ProcessorStep, TakeEntry, LoopEnds, StoreEntry,
              CountProcessed, StoreFails, GiveBack, GiveUp, SaveMetrics, SaveMetricsFails
<1>4. ASSUME NEW t \in Threads, Continue(t), ~ProcessorStep(t)
      PROVE  [PersistenceStep(Nat, Metrics)]_dbVars
  BY <1>4 DEF Continue, AddLogReturns, ProcessQueueReturns, NextBatch, DrainEnds,
              Teardown, ReadAnswer
<1> QED
  BY <1>1, <1>2, <1>3, <1>4 DEF Next, Continue

-----------------------------------------------------------------------------
(* The control state: program counters, locals, lock and flags.            *)

ControlTypeOK == ProcessorTypeOK(Inside \cup Outside) /\ RuntimeTypeOK

(* Types of what a call sets when it starts the queue processor.           *)
LEMMA StartProcessingTypes ==
  ASSUME EngineTypeOK, NEW t \in Threads, NEW o \in Ops, NEW n \in Nat,
         StartProcessing(t, o, n)
  PROVE  /\ pc' \in [Threads -> Inside \cup Outside]
         /\ limit' \in [Threads -> Nat]
         /\ processed' \in [Threads -> Nat]
         /\ entry' \in [Threads -> Nat]
         /\ op' \in [Threads -> Ops]
         /\ lock' \in Threads \cup {NoThread}
<1> USE DEF EngineTypeOK, ProcessorTypeOK, RuntimeTypeOK, StartProcessing,
            ProcessorStart
<1>1. "dequeue" \in Inside \cup Outside
  BY DEF Inside, Processing
<1>2. pc' \in [Threads -> Inside \cup Outside]
  BY <1>1 DEF GoTo
<1>3. limit' \in [Threads -> Nat]
  BY BatchAssumption
<1>4. processed' \in [Threads -> Nat] /\ entry' \in [Threads -> Nat]
  BY DEF NoEntry
<1> QED
  BY <1>2, <1>3, <1>4

(* Entering an entry point keeps the control state well typed. *)
LEMMA InvokeControlTypes ==
  ASSUME EngineTypeOK, NEW t \in Threads, Invoke(t)
  PROVE  ControlTypeOK'
<1> USE BatchAssumption, EngineAssumption
        DEF EngineTypeOK, ControlTypeOK, ProcessorTypeOK, RuntimeTypeOK, NoEntry,
            Inside, Outside, Processing, Ops, Kinds, auxVars, Call, ReturnAtOnce, GoTo, Overwrite,
            WritesNothing
<1>1. CASE InitAgain(t)
  BY <1>1 DEF InitAgain
<1>2. CASE InitRuntime(t)
  <2>1. dropped' \in Nat /\ insertFailed' \in BOOLEAN /\ initialized' \in BOOLEAN
    BY <1>2 DEF InitRuntime
  <2> QED
    BY <1>2, <2>1 DEF InitRuntime
<1>3. CASE InitRejected(t)
  BY <1>3 DEF InitRejected
<1>4. CASE InitWithoutDatabase(t)
  <2>1. dropped' \in Nat /\ insertFailed' \in BOOLEAN /\ initialized' \in BOOLEAN
    BY <1>4 DEF InitWithoutDatabase
  <2> QED
    BY <1>4, <2>1 DEF InitWithoutDatabase
<1>5. CASE AddLog(t)
  <2>1. CASE StartProcessing(t, "add", ProcessBatchSize)
             /\ added' = [added EXCEPT ![t] = nextLogId]
    <3>1. ProcessBatchSize \in Nat /\ nextLogId \in Nat
      BY DEF BufferTypeOK
    <3>2. added' \in [Threads -> Nat]
      BY <2>1, <3>1
    <3> QED
      BY <1>5, <2>1, <3>1, <3>2, StartProcessingTypes DEF AddLog
  <2>2. CASE ReturnAtOnce(t, "add", "idle")
    BY <1>5, <2>2 DEF AddLog
  <2> QED
    BY <1>5, <2>1, <2>2 DEF AddLog
<1>6. CASE AddLogRefused(t)
  BY <1>6 DEF AddLogRefused
<1>7. ASSUME NEW n \in MaxItems, ProcessQueue(t, n) PROVE ControlTypeOK'
  <2>1. StartProcessing(t, "process", n) /\ n \in Nat
    BY <1>7 DEF ProcessQueue
  <2> QED
    BY <1>7, <2>1, StartProcessingTypes DEF ProcessQueue
<1>8. CASE ProcessQueueDown(t)
  BY <1>8 DEF ProcessQueueDown
<1>9. ASSUME NEW kind \in {"metrics", "pending"}, Query(t, kind) PROVE ControlTypeOK'
  BY <1>9 DEF Query
<1>10. CASE Health(t)
  <2>1. clobbered' \in SUBSET Threads
    BY <1>10 DEF Health
  <2> QED
    BY <1>10, <2>1 DEF Health
<1>11. CASE ShutdownAgain(t)
  BY <1>11 DEF ShutdownAgain
<1>12. CASE Shutdown(t)
  <2>1. StartProcessing(t, "shutdown", ProcessBatchSize)
    BY <1>12 DEF Shutdown
  <2> QED
    BY <1>12, <2>1, StartProcessingTypes DEF Shutdown
<1> QED
  BY <1>1, <1>2, <1>3, <1>4, <1>5, <1>6, <1>7, <1>8, <1>9, <1>10, <1>11, <1>12
     DEF Invoke

(* So does every step of a call under way. *)
LEMMA ContinueControlTypes ==
  ASSUME EngineTypeOK, NEW t \in Threads, Continue(t)
  PROVE  ControlTypeOK'
<1> USE BatchAssumption, EngineAssumption
        DEF EngineTypeOK, ControlTypeOK, ProcessorTypeOK, RuntimeTypeOK, NoEntry,
            Inside, Outside, Processing, Ops, Kinds, auxVars, apiVars, GoTo, Return, Overwrite,
            WritesNothing
<1>1. CASE ProcessorStep(t) /\ UNCHANGED apiVars
  <2>1. RuntimeTypeOK'
    BY <1>1
  <2>2. CASE TakeEntry(t)
    <3>1. Head(queue) \in Nat
      BY <2>2 DEF TakeEntry, Dequeue, BufferTypeOK
    <3> QED
      BY <2>1, <2>2, <3>1 DEF TakeEntry
  <2>3. CASE LoopEnds(t)
    BY <2>1, <2>3 DEF LoopEnds
  <2>4. CASE StoreEntry(t)
    BY <2>1, <2>4 DEF StoreEntry
  <2>5. CASE CountProcessed(t)
    BY <2>1, <2>5 DEF CountProcessed
  <2>6. ASSUME NEW k \in DbFaults, StoreFails(t, k) PROVE ControlTypeOK'
    BY <2>1, <2>6 DEF StoreFails
  <2>7. CASE GiveBack(t)
    BY <2>1, <2>7 DEF GiveBack
  <2>8. CASE GiveUp(t)
    BY <2>1, <2>8 DEF GiveUp
  <2>9. CASE SaveMetrics(t)
    BY <2>1, <2>9 DEF SaveMetrics
  <2>10. ASSUME NEW k \in DbFaults, SaveMetricsFails(t, k) PROVE ControlTypeOK'
    BY <2>1, <2>10 DEF SaveMetricsFails
  <2> QED
    BY <1>1, <2>2, <2>3, <2>4, <2>5, <2>6, <2>7, <2>8, <2>9, <2>10 DEF ProcessorStep
<1>2. CASE AddLogReturns(t)
  BY <1>2 DEF AddLogReturns
<1>3. CASE ProcessQueueReturns(t)
  BY <1>3 DEF ProcessQueueReturns
<1>4. CASE NextBatch(t)
  BY <1>4 DEF NextBatch, ProcessorStart
<1>5. CASE DrainEnds(t)
  BY <1>5 DEF DrainEnds
<1>6. CASE Teardown(t)
  <2>1. Len(queue) \in Nat
    BY DEF BufferTypeOK
  <2>2. dropped' \in Nat
    BY <1>6, <2>1 DEF Teardown
  <2>3. initialized' \in BOOLEAN
    BY <1>6 DEF Teardown
  <2> QED
    BY <1>6, <2>2, <2>3 DEF Teardown
<1>7. CASE ReadAnswer(t)
  BY <1>7 DEF ReadAnswer
<1> QED
  BY <1>1, <1>2, <1>3, <1>4, <1>5, <1>6, <1>7 DEF Continue

-----------------------------------------------------------------------------
(* The initial state is well typed. *)
LEMMA InitTypes ==
  ASSUME Init
  PROVE  EngineTypeOK
<1> USE EngineAssumption DEF Init
<1>1. BufferTypeOK
  <2>1. up \in BOOLEAN /\ queue = <<>> /\ nextLogId = 0 /\ metrics = ZeroMetrics
    BY DEF BufferZeroed
  <2> QED
    BY <2>1, EmptyTypes DEF BufferTypeOK
<1>2. PersistenceTypeOK(Metrics)
  BY EmptyTypes DEF PersistenceTypeOK
<1>3. ProcessorTypeOK(Inside \cup Outside)
  <2>1. insertFailed \in BOOLEAN /\ dropped \in Nat
    OBVIOUS
  <2> QED
    BY <2>1 DEF ProcessorTypeOK, NoEntry, Outside
<1>4. RuntimeTypeOK
  <2>1. initialized \in BOOLEAN
    OBVIOUS
  <2> QED
    BY <2>1 DEF RuntimeTypeOK, NoEntry, Ops
<1> QED
  BY <1>1, <1>2, <1>3, <1>4 DEF EngineTypeOK

(* Every step of the runtime keeps the state well typed. *)
LEMMA NextTypes ==
  ASSUME EngineTypeOK, [Next]_vars
  PROVE  EngineTypeOK'
<1>1. BufferTypeOK'
  BY NextIsBufferStep, BufferStepTypes DEF EngineTypeOK
<1>2. PersistenceTypeOK(Metrics)'
  BY NextIsPersistenceStep, PersistenceStepTypes DEF EngineTypeOK
<1>3. ControlTypeOK'
  <2>1. CASE UNCHANGED vars \/ Finished
    BY <2>1 DEF Finished, vars, localVars, auxVars, apiVars, EngineTypeOK,
                ControlTypeOK, ProcessorTypeOK, RuntimeTypeOK
  <2>2. ASSUME NEW t \in Threads, Invoke(t) \/ Continue(t) PROVE ControlTypeOK'
    BY <2>2, InvokeControlTypes, ContinueControlTypes
  <2> QED
    BY <2>1, <2>2 DEF Next
<1> QED
  BY <1>1, <1>2, <1>3 DEF EngineTypeOK, ControlTypeOK

(* Type correctness: whatever threads call, whatever the database answers, *)
(* counters never go below zero, every thread is at a place of the code,   *)
(* and the lock is free or held by one of them.                            *)
THEOREM TypeCorrect == Spec => []EngineTypeOK
<1>1. Init => EngineTypeOK
  BY InitTypes
<1>2. EngineTypeOK /\ [Next]_vars => EngineTypeOK'
  BY NextTypes
<1> QED
  BY <1>1, <1>2, PTL DEF Spec

(* The buffer inside the runtime never exceeds its capacity, and the depth *)
(* it caches is the length of its list, whatever the callers do.           *)
THEOREM BoundedBuffer == Spec => []BufferBounded
<1>1. Init => BufferBounded
  BY CapacityAssumption, EmptyTypes
     DEF Init, BufferZeroed, BufferBounded, ZeroMetrics
<1>2. EngineTypeOK /\ BufferBounded /\ [Next]_vars => BufferBounded'
  BY NextIsBufferStep, BufferStepBounded DEF EngineTypeOK
<1> QED
  BY <1>1, <1>2, TypeCorrect, PTL DEF Spec

-----------------------------------------------------------------------------
(* A step of thread t moves it to a place; it keeps, takes or gives back   *)
(* the lock.                                                               *)

Keeps(t, place) ==
  /\ GoTo(t, place)
  /\ UNCHANGED lock
  /\ pc[t] \in Inside <=> place \in Inside

Takes(t, place) ==
  /\ GoTo(t, place)
  /\ lock = NoThread
  /\ lock' = t
  /\ place \in Inside

Gives(t, place) ==
  /\ GoTo(t, place)
  /\ pc[t] \in Inside
  /\ lock' = NoThread
  /\ place \notin Inside

(* A step that moves one thread, taking the lock as it goes inside or      *)
(* releasing it as it goes outside, keeps the mutual exclusion.            *)
LEMMA MutexStep ==
  ASSUME EngineTypeOK, MutualExclusion, NEW t \in Threads, NEW place,
         Keeps(t, place) \/ Takes(t, place) \/ Gives(t, place)
  PROVE  MutualExclusion'
<1> USE EngineAssumption
        DEF EngineTypeOK, ProcessorTypeOK, RuntimeTypeOK, MutualExclusion, GoTo
<1>1. CASE Keeps(t, place)
  BY <1>1 DEF Keeps
<1>2. CASE Takes(t, place)
  BY <1>2 DEF Takes
<1>3. CASE Gives(t, place)
  BY <1>3 DEF Gives
<1> QED
  BY <1>1, <1>2, <1>3

(* Every entry point either returns at once, or starts the processor. *)
InvokeShape(t) ==
  /\ Call(t)
  /\ \/ \E o \in Ops, place \in Outside : ReturnAtOnce(t, o, place)
     \/ \E o \in Ops, n \in Nat : StartProcessing(t, o, n)

(* Every entry point either returns at once or takes the lock and starts   *)
(* the queue processor.                                                    *)
LEMMA InvokeHasShape ==
  ASSUME NEW t \in Threads, Invoke(t)
  PROVE  InvokeShape(t)
<1> USE BatchAssumption, EngineAssumption DEF InvokeShape, Ops, Kinds, Outside
<1>1. CASE InitAgain(t) \/ InitRuntime(t) \/ InitRejected(t) \/ InitWithoutDatabase(t)
  BY <1>1 DEF InitAgain, InitRuntime, InitRejected, InitWithoutDatabase
<1>2. CASE AddLog(t) \/ AddLogRefused(t)
  BY <1>2 DEF AddLog, AddLogRefused
<1>3. CASE ProcessQueueDown(t) \/ Health(t) \/ ShutdownAgain(t) \/ Shutdown(t)
  BY <1>3 DEF ProcessQueueDown, Health, ShutdownAgain, Shutdown
<1>4. ASSUME NEW n \in MaxItems, ProcessQueue(t, n) PROVE InvokeShape(t)
  BY <1>4 DEF ProcessQueue
<1>5. ASSUME NEW kind \in {"metrics", "pending"}, Query(t, kind) PROVE InvokeShape(t)
  BY <1>5 DEF Query
<1> QED
  BY <1>1, <1>2, <1>3, <1>4, <1>5 DEF Invoke

(* Entering an entry point keeps the mutual exclusion. *)
LEMMA InvokeMutex ==
  ASSUME EngineTypeOK, NEW t \in Threads, Invoke(t)
  PROVE  \E place \in Inside \cup Outside : Keeps(t, place) \/ Takes(t, place)
<1> USE DEF Keeps, Takes, Call, ReturnAtOnce, Inside, Outside, Processing
<1>1. CASE Call(t) /\ \E o \in Ops, place \in Outside : ReturnAtOnce(t, o, place)
  BY <1>1
<1>2. CASE Call(t) /\ \E o \in Ops, n \in Nat : StartProcessing(t, o, n)
  BY <1>2 DEF StartProcessing, ProcessorStart
<1> QED
  BY <1>1, <1>2, InvokeHasShape DEF InvokeShape

(* So does every step of a call under way. *)
LEMMA ContinueMutex ==
  ASSUME EngineTypeOK, NEW t \in Threads, Continue(t)
  PROVE  \E place \in Inside \cup Outside : Keeps(t, place) \/ Gives(t, place)
<1> USE DEF Keeps, Gives, Inside, Outside, Processing
<1>1. CASE ProcessorStep(t) /\ UNCHANGED apiVars
  BY <1>1 DEF apiVars, ProcessorStep, TakeEntry, LoopEnds, StoreEntry, CountProcessed,
              StoreFails, GiveBack, GiveUp, SaveMetrics, SaveMetricsFails
<1>2. CASE AddLogReturns(t) \/ ProcessQueueReturns(t) \/ Teardown(t)
  BY <1>2 DEF AddLogReturns, ProcessQueueReturns, Teardown, Return
<1>3. CASE NextBatch(t)
  BY <1>3 DEF NextBatch, ProcessorStart, apiVars
<1>4. CASE DrainEnds(t)
  BY <1>4 DEF DrainEnds
<1>5. CASE ReadAnswer(t)
  BY <1>5 DEF ReadAnswer
<1> QED
  BY <1>1, <1>2, <1>3, <1>4, <1>5 DEF Continue

(* The mutual exclusion is inductive, given the types. *)
LEMMA NextMutex ==
  ASSUME EngineTypeOK, MutualExclusion, [Next]_vars
  PROVE  MutualExclusion'
<1>1. CASE UNCHANGED vars \/ Finished
  BY <1>1 DEF Finished, vars, localVars, apiVars, MutualExclusion
<1>2. ASSUME NEW t \in Threads, Invoke(t) \/ Continue(t) PROVE MutualExclusion'
  BY <1>2, InvokeMutex, ContinueMutex, MutexStep
<1> QED
  BY <1>1, <1>2 DEF Next

(* The runtime lock serializes the entry points: a thread is inside one    *)
(* exactly while it holds the lock, so no two are.                         *)
THEOREM Serialized == Spec => []MutualExclusion
<1>1. Init => MutualExclusion
  BY EngineAssumption DEF Init, MutualExclusion, Inside, Processing
<1>2. EngineTypeOK /\ MutualExclusion /\ [Next]_vars => MutualExclusion'
  BY NextMutex
<1> QED
  BY <1>1, <1>2, TypeCorrect, PTL DEF Spec

-----------------------------------------------------------------------------
(* What is up and who holds an entry: the facts that make the accounting   *)
(* inductive.                                                              *)

EntryHeld ==
  \A t \in Threads : entry[t] # NoEntry <=> pc[t] \in {"insert", "requeue"}

Ids == Nat \ {NoEntry}

IdsPositive ==
  /\ queue \in Seq(Ids)
  /\ up => nextLogId \in Ids

UpDown ==
  /\ initialized <=> up
  /\ initialized <=> conn # "none"
  /\ ~initialized => queue = <<>>
  /\ \A t \in Threads : pc[t] \in Inside => initialized

Life == EntryHeld /\ IdsPositive /\ UpDown

(* With the lock free, nobody is inside. *)
LEMMA FreeLock ==
  ASSUME EngineTypeOK, MutualExclusion, NEW t \in Threads, Call(t)
  PROVE  /\ \A u \in Threads : pc[u] \notin Inside
         /\ lock = NoThread
  BY EngineAssumption DEF MutualExclusion, Call

(* Entering an entry point leaves no thread with an entry it should not    *)
(* have.                                                                   *)
LEMMA InvokeEntryHeld ==
  ASSUME EngineTypeOK, MutualExclusion, EntryHeld, NEW t \in Threads, Invoke(t)
  PROVE  EntryHeld'
<1> USE DEF EngineTypeOK, ProcessorTypeOK, EntryHeld, Inside, Outside, Processing, GoTo
<1>1. ASSUME NEW o, NEW place \in Outside, ReturnAtOnce(t, o, place), Call(t)
      PROVE  EntryHeld'
  BY <1>1 DEF ReturnAtOnce, Call
<1>2. ASSUME NEW o, NEW n, StartProcessing(t, o, n), Call(t)
      PROVE  EntryHeld'
  BY <1>2 DEF StartProcessing, ProcessorStart, Call, NoEntry
<1> HIDE DEF EngineTypeOK, ProcessorTypeOK, EntryHeld
<1> QED
  BY <1>1, <1>2, InvokeHasShape DEF InvokeShape

(* A call under way owns an entry exactly while it stores it or gives it   *)
(* back.                                                                   *)
LEMMA ContinueEntryHeld ==
  ASSUME EngineTypeOK, EntryHeld, IdsPositive, NEW t \in Threads, Continue(t)
  PROVE  EntryHeld'
<1> USE DEF EngineTypeOK, ProcessorTypeOK, EntryHeld, GoTo
<1>1. CASE TakeEntry(t)
  <2>1. Head(queue) # NoEntry
    BY <1>1 DEF TakeEntry, Dequeue, IdsPositive, Ids
  <2> QED
    BY <1>1, <2>1 DEF TakeEntry, NoEntry
<1>2. CASE LoopEnds(t)
  BY <1>2 DEF LoopEnds
<1>3. CASE StoreEntry(t) \/ GiveBack(t) \/ GiveUp(t)
  BY <1>3 DEF StoreEntry, GiveBack, GiveUp, NoEntry
<1>4. CASE CountProcessed(t) \/ SaveMetrics(t)
  BY <1>4 DEF CountProcessed, SaveMetrics
<1>5. ASSUME NEW k \in DbFaults, StoreFails(t, k) \/ SaveMetricsFails(t, k)
      PROVE  EntryHeld'
  BY <1>5 DEF StoreFails, SaveMetricsFails
<1>6. CASE AddLogReturns(t) \/ ProcessQueueReturns(t) \/ Teardown(t)
  BY <1>6 DEF AddLogReturns, ProcessQueueReturns, Teardown, Return
<1>7. CASE NextBatch(t)
  BY <1>7 DEF NextBatch, ProcessorStart, NoEntry
<1>8. CASE DrainEnds(t) \/ ReadAnswer(t)
  BY <1>8 DEF DrainEnds, ReadAnswer
<1> QED
  BY <1>1, <1>2, <1>3, <1>4, <1>5, <1>6, <1>7, <1>8 DEF Continue, ProcessorStep

(* The list changes by these steps only. *)
ListStep ==
  \/ UNCHANGED <<up, queue, nextLogId>>
  \/ BufferInit \/ BufferInitAndShutdown \/ BufferShutdown
  \/ Enqueue \/ Dequeue
  \/ \E t \in Threads : GiveBack(t)

(* Every step of the runtime is one of them. *)
LEMMA NextIsListStep ==
  ASSUME [Next]_vars
  PROVE  ListStep
<1> USE DEF ListStep
<1>1. CASE UNCHANGED vars \/ Finished
  BY <1>1 DEF Finished, vars, bufferVars
<1>2. ASSUME NEW t \in Threads, Invoke(t) PROVE ListStep
  BY <1>2 DEF Invoke, InitAgain, InitRuntime, InitRejected, InitWithoutDatabase,
              AddLog, AddLogRefused, ProcessQueue, ProcessQueueDown, Query, Health,
              ShutdownAgain, Shutdown, EnqueueInvalid, EnqueueRefused, bufferVars
<1>3. ASSUME NEW t \in Threads, Continue(t) PROVE ListStep
  BY <1>3 DEF Continue, ProcessorStep, TakeEntry, LoopEnds, StoreEntry, CountProcessed,
              StoreFails, GiveUp, SaveMetrics, SaveMetricsFails, RequeueRefused,
              DequeueEmpty, MarkProcessed, MarkError, AddLogReturns,
              ProcessQueueReturns, NextBatch, DrainEnds, Teardown, ReadAnswer, bufferVars
<1> QED
  BY <1>1, <1>2, <1>3 DEF Next

(* NoEntry, the NULL of the model, is never the id of a queued log. *)
LEMMA NextIdsPositive ==
  ASSUME EngineTypeOK, EntryHeld, IdsPositive, [Next]_vars
  PROVE  IdsPositive'
<1> USE DEF IdsPositive, Ids, NoEntry
<1>1. CASE \E t \in Threads : GiveBack(t)
  <2>1. PICK t \in Threads : GiveBack(t)
    BY <1>1
  <2>2. entry[t] \in Ids
    BY <2>1 DEF GiveBack, EntryHeld, EngineTypeOK, ProcessorTypeOK
  <2> QED
    BY <2>1, <2>2 DEF GiveBack, RequeueFront
<1>2. CASE UNCHANGED <<up, queue, nextLogId>>
  BY <1>2
<1>3. CASE BufferInit \/ BufferInitAndShutdown \/ BufferShutdown
  <2>1. queue' = <<>> /\ (up' => nextLogId' = 1)
    BY <1>3 DEF BufferInit, BufferInitAndShutdown, BufferShutdown
  <2> QED
    BY <2>1
<1>4. CASE Enqueue
  BY <1>4 DEF Enqueue
<1>5. CASE Dequeue
  BY <1>5 DEF Dequeue
<1> HIDE DEF IdsPositive
<1> QED
  BY <1>1, <1>2, <1>3, <1>4, <1>5, NextIsListStep DEF ListStep

(* A call that returns at once leaves nobody inside. *)
LEMMA NobodyInside ==
  ASSUME EngineTypeOK, MutualExclusion, NEW t \in Threads, Call(t),
         NEW o, NEW place \in Outside, ReturnAtOnce(t, o, place)
  PROVE  \A u \in Threads : pc'[u] \notin Inside
<1>1. \A u \in Threads : pc[u] \notin Inside
  BY FreeLock
<1>2. place \notin Inside
  BY DEF Inside, Outside, Processing
<1> QED
  BY <1>1, <1>2 DEF EngineTypeOK, ProcessorTypeOK, ReturnAtOnce, GoTo

(* initialized, the buffer and the connection go up and down together. *)
LEMMA InvokeUpDown ==
  ASSUME EngineTypeOK, MutualExclusion, UpDown, NEW t \in Threads, Invoke(t)
  PROVE  UpDown'
<1> USE DEF UpDown, bufferVars, dbVars
<1>1. ASSUME ~ \E o \in Ops, place \in Outside : ReturnAtOnce(t, o, place)
      PROVE  initialized /\ initialized'
  <2>1. "idle" \in Outside /\ "readError" \in Outside /\ "respond" \in Outside
         /\ Kinds \subseteq Ops /\ {"init", "add", "shutdown"} \subseteq Ops
    BY DEF Outside, Ops
  <2>2. \A o \in Ops, place \in Outside : ~ReturnAtOnce(t, o, place)
    BY <1>1
  <2>3. CASE AddLog(t)
    BY <2>1, <2>2, <2>3 DEF AddLog
  <2>4. CASE Shutdown(t) \/ \E n \in MaxItems : ProcessQueue(t, n)
    BY <2>4 DEF Shutdown, ProcessQueue
  <2> QED
    BY <2>1, <2>2, <2>3, <2>4
       DEF Invoke, InitAgain, InitRuntime, InitRejected, InitWithoutDatabase,
           AddLogRefused, ProcessQueueDown, Query, Health, ShutdownAgain, Kinds
<1>2. \A u \in Threads : pc'[u] \in Inside => initialized'
  <2>1. CASE \E o \in Ops, place \in Outside : ReturnAtOnce(t, o, place)
    BY <2>1, NobodyInside, InvokeHasShape DEF InvokeShape
  <2>2. CASE ~ \E o \in Ops, place \in Outside : ReturnAtOnce(t, o, place)
    BY <2>2, <1>1
  <2> QED
    BY <2>1, <2>2
<1>3. CASE InitRuntime(t)
  BY <1>2, <1>3 DEF InitRuntime, BufferInit, PersistenceInit
<1>4. CASE InitWithoutDatabase(t)
  BY <1>2, <1>4 DEF InitWithoutDatabase, BufferInitAndShutdown, PersistenceInitFails
<1>5. CASE AddLog(t)
  BY <1>2, <1>5 DEF AddLog, Enqueue
<1>6. CASE AddLogRefused(t)
  BY <1>2, <1>6 DEF AddLogRefused, EnqueueInvalid, EnqueueRefused
<1>7. CASE Health(t)
  BY <1>2, <1>7 DEF Health, Ping, PingFails, AfterFailure
<1>8. ASSUME NEW n \in MaxItems, ProcessQueue(t, n) PROVE UpDown'
  BY <1>2, <1>8 DEF ProcessQueue
<1>9. ASSUME NEW kind \in {"metrics", "pending"}, Query(t, kind) PROVE UpDown'
  BY <1>2, <1>9 DEF Query
<1>10. CASE InitAgain(t) \/ InitRejected(t) \/ ProcessQueueDown(t)
            \/ ShutdownAgain(t) \/ Shutdown(t)
  <2>1. UNCHANGED <<bufferVars, dbVars, initialized>>
    BY <1>10 DEF InitAgain, InitRejected, ProcessQueueDown, ShutdownAgain, Shutdown
  <2> QED
    BY <1>2, <2>1
<1> QED
  BY <1>3, <1>4, <1>5, <1>6, <1>7, <1>8, <1>9, <1>10 DEF Invoke

(* A call under way keeps them together; only the teardown changes them. *)
LEMMA ContinueUpDown ==
  ASSUME EngineTypeOK, MutualExclusion, UpDown, NEW t \in Threads, Continue(t)
  PROVE  UpDown'
<1> USE DEF UpDown, bufferVars, dbVars
<1>1. CASE Teardown(t)
  <2>1. \A u \in Threads : pc'[u] \notin Inside
    BY <1>1, EngineAssumption
       DEF Teardown, Return, GoTo, MutualExclusion, Inside, EngineTypeOK,
           ProcessorTypeOK, Processing
  <2> QED
    BY <1>1, <2>1 DEF Teardown, BufferShutdown, PersistenceClose
<1>2. CASE ~Teardown(t)
  <2>1. UNCHANGED initialized
    BY <1>2 DEF Continue, apiVars, AddLogReturns, ProcessQueueReturns, NextBatch,
                DrainEnds, ReadAnswer
  <2>2. \A u \in Threads : pc'[u] \in Inside => initialized
    <3>1. \E place \in Inside \cup Outside : Keeps(t, place) \/ Gives(t, place)
      BY ContinueMutex
    <3> QED
      BY <3>1 DEF Keeps, Gives, GoTo, EngineTypeOK, ProcessorTypeOK
  <2>3. UNCHANGED up /\ (queue' = queue \/ up)
    BY <1>2 DEF Continue, AddLogReturns, ProcessQueueReturns, NextBatch, DrainEnds,
                ReadAnswer, ProcessorStep, TakeEntry, LoopEnds, StoreEntry,
                CountProcessed, StoreFails, GiveBack, GiveUp, SaveMetrics,
                SaveMetricsFails, Dequeue, DequeueEmpty, MarkProcessed, MarkError,
                RequeueFront, RequeueRefused
  <2>4. conn' = "none" <=> conn = "none"
    BY <1>2 DEF Continue, AddLogReturns, ProcessQueueReturns, NextBatch, DrainEnds,
                ReadAnswer, ProcessorStep, TakeEntry, LoopEnds, StoreEntry,
                CountProcessed, StoreFails, GiveBack, GiveUp, SaveMetrics,
                SaveMetricsFails, InsertLog, InsertLogFails, InsertMetrics,
                InsertMetricsFails, AfterFailure
  <2> QED
    BY <2>1, <2>2, <2>3, <2>4
<1> QED
  BY <1>1, <1>2

-----------------------------------------------------------------------------
(* The inductive invariant of the control and the lifecycle.               *)
LifeInv == EngineTypeOK /\ MutualExclusion /\ Life

(* The state before the first engine_init is one of those of the           *)
(* invariant.                                                              *)
LEMMA InitLife == Init => LifeInv
<1> SUFFICES ASSUME Init PROVE LifeInv
  OBVIOUS
<1>1. EngineTypeOK /\ MutualExclusion
  BY InitTypes, EngineAssumption DEF Init, MutualExclusion, Inside, Processing
<1>2. Life
  BY DEF Init, BufferZeroed, Life, EntryHeld, IdsPositive, UpDown, Inside, Processing
<1> QED
  BY <1>1, <1>2 DEF LifeInv

(* Every step of the runtime stays within the invariant. *)
LEMMA NextLife == LifeInv /\ [Next]_vars => LifeInv'
<1> SUFFICES ASSUME LifeInv, [Next]_vars PROVE LifeInv'
  OBVIOUS
<1> USE DEF LifeInv, Life
<1>1. EngineTypeOK' /\ MutualExclusion' /\ IdsPositive'
  BY NextTypes, NextMutex, NextIdsPositive
<1>2. EntryHeld' /\ UpDown'
  <2>1. CASE UNCHANGED vars \/ Finished
    BY <2>1 DEF Finished, vars, bufferVars, dbVars, localVars, apiVars, EntryHeld,
                UpDown
  <2>2. ASSUME NEW t \in Threads, Invoke(t) \/ Continue(t) PROVE EntryHeld' /\ UpDown'
    BY <2>2, InvokeEntryHeld, ContinueEntryHeld, InvokeUpDown, ContinueUpDown
  <2> QED
    BY <2>1, <2>2 DEF Next
<1> QED
  BY <1>1, <1>2

(* The inductive invariant on who is inside, who owns an entry and what is *)
(* up holds in every state of the runtime.                                 *)
THEOREM LifeInvariant == Spec => []LifeInv
  BY InitLife, NextLife, PTL DEF Spec

(* initialized, the buffer and the connection go up and down together, and *)
(* a runtime that is down keeps no log, neither queued nor in a thread.    *)
THEOREM CleanDown == Spec => []CleanWhenDown
<1>1. LifeInv => CleanWhenDown
  BY DEF LifeInv, Life, EntryHeld, UpDown, CleanWhenDown, Inside, Processing
<1> QED
  BY <1>1, LifeInvariant, PTL

-----------------------------------------------------------------------------
(* Room for the entry in flight.                                           *)

(* A thread other than the one that takes a step stays where it is, and    *)
(* is not inside if that one is.                                           *)
LEMMA OthersOutside ==
  ASSUME LifeInv, NEW t \in Threads, Continue(t), pc[t] \in Inside,
         NEW u \in Threads, u # t
  PROVE  pc[u] \notin Inside /\ pc'[u] = pc[u]
<1>1. pc[u] \notin Inside
  BY EngineAssumption DEF LifeInv, MutualExclusion
<1>2. pc'[u] = pc[u]
  <2>1. \E place \in Inside \cup Outside : Keeps(t, place) \/ Gives(t, place)
    BY ContinueMutex DEF LifeInv
  <2> QED
    BY <2>1 DEF Keeps, Gives, GoTo, LifeInv, EngineTypeOK, ProcessorTypeOK
<1> QED
  BY <1>1, <1>2

(* Right after an invocation nobody is between taking an entry and giving  *)
(* it back.                                                                *)
LEMMA InvokedPlaces ==
  ASSUME LifeInv, NEW t \in Threads, Invoke(t), NEW u \in Threads
  PROVE  /\ pc'[u] \notin {"insert", "mark", "requeue"}
         /\ lock' \in {NoThread, t}
         /\ lock = NoThread
<1> USE DEF InvokeShape, LifeInv, EngineTypeOK, ProcessorTypeOK
<1>1. InvokeShape(t) /\ pc[u] \notin Inside /\ lock = NoThread
  BY InvokeHasShape, FreeLock
<1>2. pc[u] \notin {"insert", "mark", "requeue"}
  BY <1>1 DEF Inside, Processing
<1>3. CASE \E o \in Ops, place \in Outside : ReturnAtOnce(t, o, place)
  BY <1>1, <1>2, <1>3 DEF ReturnAtOnce, GoTo, Outside
<1>4. CASE \E o \in Ops, n \in Nat : StartProcessing(t, o, n)
  BY <1>1, <1>2, <1>4 DEF StartProcessing, ProcessorStart, GoTo
<1> QED
  BY <1>1, <1>3, <1>4

(* No step of the runtime fills the place of the entry the processor       *)
(* holds.                                                                  *)
LEMMA NextRoom ==
  ASSUME LifeInv, BufferBounded, RoomForRequeue, [Next]_vars
  PROVE  RoomForRequeue'
<1> USE DEF RoomForRequeue, Full
<1>1. CASE UNCHANGED vars \/ Finished
  BY <1>1 DEF Finished, vars, bufferVars, localVars
<1>2. ASSUME NEW t \in Threads, Invoke(t) PROVE RoomForRequeue'
  BY <1>2, InvokedPlaces
<1>3. ASSUME NEW t \in Threads, Continue(t) PROVE RoomForRequeue'
  <2>1. CASE ReadAnswer(t)
    BY <2>1 DEF ReadAnswer, GoTo, bufferVars, LifeInv, EngineTypeOK, ProcessorTypeOK
  <2>2. CASE pc[t] \in Inside
    <3>1. \A u \in Threads \ {t} : pc'[u] \notin {"insert", "requeue"}
      BY <1>3, <2>2, OthersOutside DEF Inside, Processing
    <3>2. pc'[t] \in {"insert", "requeue"} => ~Full'
      <4> USE DEF GoTo, LifeInv, EngineTypeOK, ProcessorTypeOK
      <4>1. CASE TakeEntry(t)
        <5>1. queue \in Seq(Nat) /\ queue # <<>> /\ Len(queue) <= Capacity
              /\ queue' = Tail(queue)
          BY <4>1 DEF TakeEntry, Dequeue, BufferTypeOK, BufferBounded
        <5>2. Len(queue') = Len(queue) - 1 /\ Len(queue) \in Nat
          BY <5>1
        <5>3. metrics'.queue_depth = Len(queue')
          <6>1. metrics \in Metrics /\ queue' \in Seq(Nat)
            BY <5>1 DEF BufferTypeOK
          <6>2. metrics' = WithDepth(metrics, queue')
            BY <4>1 DEF TakeEntry, Dequeue
          <6> QED
            BY <6>1, <6>2, DepthTypes
        <5> QED
          BY <5>1, <5>2, <5>3, CapacityAssumption
      <4>2. ASSUME NEW k \in DbFaults, StoreFails(t, k)
            PROVE  ~Full'
        <5>1. ~Full
          BY <4>2 DEF StoreFails
        <5>2. metrics'.queue_depth = metrics.queue_depth
          BY <4>2 DEF StoreFails, MarkError, CountError, BufferTypeOK, Metrics
        <5> QED
          BY <5>1, <5>2
      <4>3. CASE ~TakeEntry(t) /\ ~ \E k \in DbFaults : StoreFails(t, k)
        BY <1>3, <4>3
           DEF Continue, ProcessorStep, LoopEnds, StoreEntry, CountProcessed, GiveBack,
               GiveUp, SaveMetrics, SaveMetricsFails, AddLogReturns,
               ProcessQueueReturns, NextBatch, ProcessorStart, DrainEnds, Teardown,
               ReadAnswer, Return
      <4> QED
        BY <4>1, <4>2, <4>3
    <3> QED
      BY <3>1, <3>2
  <2>3. pc[t] \in Inside \/ ReadAnswer(t)
    BY <1>3 DEF Continue, ProcessorStep, TakeEntry, StoreFails, LoopEnds, StoreEntry,
                CountProcessed, GiveBack, GiveUp, SaveMetrics, SaveMetricsFails,
                AddLogReturns, ProcessQueueReturns, NextBatch, DrainEnds, Teardown,
                Inside, Processing
  <2> QED
    BY <2>1, <2>2, <2>3
<1> QED
  BY <1>1, <1>2, <1>3 DEF Next

(* The processor can always give back the entry it took: while it waits    *)
(* for the database nobody fills its place.                                *)
THEOREM RequeueHasRoom == Spec => []RoomForRequeue
<1>1. Init => RoomForRequeue
  BY DEF Init, RoomForRequeue
<1>2. LifeInv /\ BufferBounded /\ RoomForRequeue /\ [Next]_vars => RoomForRequeue'
  BY NextRoom
<1> QED
  BY <1>1, <1>2, LifeInvariant, BoundedBuffer, PTL DEF Spec

-----------------------------------------------------------------------------
(* The accounting, over one count of the logs in flight: taken from the    *)
(* list, and neither counted as processed nor given back nor dropped.      *)

InFlight ==
  IF lock # NoThread /\ pc[lock] \in {"insert", "mark", "requeue"} THEN 1 ELSE 0

Balance ==
  metrics.total_ingested = metrics.total_processed + InFlight + Len(queue) + dropped

(* The two forms of the accounting agree. *)
LEMMA BalanceIsAccounting ==
  ASSUME LifeInv
  PROVE  Balance <=> Accounting
<1> USE DEF LifeInv, EngineTypeOK, BufferTypeOK, ProcessorTypeOK, RuntimeTypeOK
<1>1. Len(Pending) = Len(Holding) + Len(queue)
  <2>1. Holding \in Seq(Nat) /\ queue \in Seq(Nat)
    BY DEF Holding
  <2> QED
    BY <2>1 DEF Pending
<1>2. Len(Holding) =
        IF lock # NoThread /\ pc[lock] \in {"insert", "requeue"} THEN 1 ELSE 0
  BY DEF Holding, Life, EntryHeld
<1>3. InFlight = Uncounted + Len(Holding)
  BY <1>2 DEF InFlight, Uncounted
<1>4. Len(queue) \in Nat /\ Uncounted \in Nat /\ Len(Holding) \in Nat
  BY <1>2 DEF Uncounted
<1>5. dropped \in Nat /\ metrics.total_ingested \in Nat /\ metrics.total_processed \in Nat
  BY DEF Metrics
<1> HIDE DEF LifeInv, EngineTypeOK, BufferTypeOK, ProcessorTypeOK, RuntimeTypeOK
<1>6. InFlight + Len(queue) = Uncounted + Len(Pending)
  BY <1>1, <1>3, <1>4
<1>7. metrics.total_processed + InFlight + Len(queue) + dropped
        = metrics.total_processed + Uncounted + Len(Pending) + dropped
  BY <1>1, <1>3, <1>4, <1>5, <1>6
<1> QED
  BY <1>7 DEF Balance, Accounting

(* Entering an entry point keeps the balance: what a new log adds to       *)
(* total_ingested it adds to the list.                                     *)
LEMMA InvokeBalance ==
  ASSUME LifeInv, Balance, NEW t \in Threads, Invoke(t)
  PROVE  Balance'
<1> USE DEF LifeInv, EngineTypeOK, BufferTypeOK, ProcessorTypeOK
<1>1. InFlight = 0 /\ InFlight' = 0
  BY InvokedPlaces DEF InFlight
<1>2. CASE InitRuntime(t) \/ InitWithoutDatabase(t)
  <2>1. metrics' = ZeroMetrics /\ queue' = <<>> /\ dropped' = 0
    BY <1>2 DEF InitRuntime, InitWithoutDatabase, BufferInit, BufferInitAndShutdown
  <2> QED
    BY <1>1, <2>1, EmptyTypes DEF Balance, ZeroMetrics
<1>3. CASE AddLog(t)
  <2>1. Len(queue') = Len(queue) + 1 /\ Len(queue) \in Nat /\ dropped' = dropped
    BY <1>3 DEF AddLog, Enqueue, auxVars
  <2>2. /\ metrics'.total_ingested = metrics.total_ingested + 1
        /\ metrics'.total_processed = metrics.total_processed
    BY <1>3 DEF AddLog, Enqueue, WithDepth, Metrics
  <2> QED
    BY <1>1, <2>1, <2>2 DEF Balance, Metrics
<1>4. CASE AddLogRefused(t)
  <2>1. queue' = queue /\ dropped' = dropped
    BY <1>4 DEF AddLogRefused, EnqueueInvalid, EnqueueRefused, bufferVars, auxVars
  <2>2. /\ metrics'.total_ingested = metrics.total_ingested
        /\ metrics'.total_processed = metrics.total_processed
    BY <1>4 DEF AddLogRefused, EnqueueInvalid, EnqueueRefused, CountError, bufferVars,
                Metrics
  <2> QED
    BY <1>1, <2>1, <2>2 DEF Balance
<1>5. CASE UNCHANGED <<bufferVars, auxVars>>
  BY <1>1, <1>5 DEF Balance, bufferVars, auxVars
<1> QED
  BY <1>2, <1>3, <1>4, <1>5
     DEF Invoke, InitAgain, InitRejected, ProcessQueue, ProcessQueueDown, Query, Health,
         ShutdownAgain, Shutdown

(* So does every step of a call under way: a log moves from the list to    *)
(* the processor, to the table, back, or is dropped.                       *)
LEMMA ContinueBalance ==
  ASSUME LifeInv, Balance, NEW t \in Threads, Continue(t)
  PROVE  Balance'
<1> USE DEF LifeInv, EngineTypeOK, BufferTypeOK, ProcessorTypeOK, RuntimeTypeOK, GoTo,
            auxVars, bufferVars
<1>1. CASE ReadAnswer(t)
  <2>1. InFlight' = InFlight
    BY <1>1 DEF ReadAnswer, InFlight
  <2> QED
    BY <1>1, <2>1 DEF ReadAnswer, Balance
<1>2. ASSUME pc[t] \in Inside
      PROVE  lock = t /\ lock # NoThread
  BY <1>2, EngineAssumption DEF MutualExclusion
<1>3. ASSUME ProcessorStep(t) /\ UNCHANGED apiVars
      PROVE  lock' = lock
  BY <1>3 DEF apiVars
<1> USE DEF Inside, Processing, InFlight, Balance, Metrics
<1>4. CASE TakeEntry(t) /\ UNCHANGED apiVars
  <2>1. queue' = Tail(queue) /\ queue # <<>> /\ dropped' = dropped
        /\ metrics'.total_ingested = metrics.total_ingested
        /\ metrics'.total_processed = metrics.total_processed
    BY <1>4 DEF TakeEntry, Dequeue, WithDepth
  <2>2. Len(queue') = Len(queue) - 1 /\ Len(queue) \in Nat
    BY <2>1
  <2>3. InFlight = 0 /\ InFlight' = 1
    BY <1>2, <1>4 DEF TakeEntry, apiVars
  <2> QED
    BY <2>1, <2>2, <2>3
<1>5. CASE CountProcessed(t) /\ UNCHANGED apiVars
  <2>1. queue' = queue /\ dropped' = dropped
        /\ metrics'.total_ingested = metrics.total_ingested
        /\ metrics'.total_processed = metrics.total_processed + 1
    BY <1>5 DEF CountProcessed, MarkProcessed
  <2>2. InFlight = 1 /\ InFlight' = 0
    BY <1>2, <1>5 DEF CountProcessed, apiVars
  <2>3. Len(queue) \in Nat
    OBVIOUS
  <2> QED
    BY <2>1, <2>2, <2>3
<1>6. CASE GiveBack(t) /\ UNCHANGED apiVars
  <2>1. queue' = <<entry[t]>> \o queue /\ dropped' = dropped
        /\ metrics'.total_ingested = metrics.total_ingested
        /\ metrics'.total_processed = metrics.total_processed
    BY <1>6 DEF GiveBack, RequeueFront, WithDepth
  <2>2. Len(queue') = Len(queue) + 1 /\ Len(queue) \in Nat
    BY <2>1
  <2>3. InFlight = 1 /\ InFlight' = 0
    BY <1>2, <1>6 DEF GiveBack, apiVars
  <2> QED
    BY <2>1, <2>2, <2>3
<1>7. CASE GiveUp(t) /\ UNCHANGED apiVars
  <2>1. queue' = queue /\ dropped' = dropped + 1
        /\ metrics'.total_ingested = metrics.total_ingested
        /\ metrics'.total_processed = metrics.total_processed
    BY <1>7 DEF GiveUp, RequeueRefused
  <2>2. InFlight = 1 /\ InFlight' = 0
    BY <1>2, <1>7 DEF GiveUp, apiVars
  <2>3. /\ Len(queue) \in Nat /\ dropped \in Nat
        /\ metrics.total_ingested \in Nat /\ metrics.total_processed \in Nat
    OBVIOUS
  <2>4. metrics.total_ingested = metrics.total_processed + 1 + Len(queue) + dropped
    BY <2>2
  <2> HIDE DEF InFlight, Metrics, LifeInv, EngineTypeOK, BufferTypeOK, ProcessorTypeOK,
               RuntimeTypeOK
  <2> QED
    BY <2>1, <2>2, <2>3, <2>4
<1>8. CASE Teardown(t)
  <2>1. queue' = <<>> /\ dropped' = dropped + Len(queue)
        /\ metrics'.total_ingested = metrics.total_ingested
        /\ metrics'.total_processed = metrics.total_processed
    BY <1>8 DEF Teardown, BufferShutdown, WithDepth
  <2>2. Len(queue') = 0 /\ Len(queue) \in Nat
    BY <2>1
  <2>3. InFlight = 0 /\ InFlight' = 0
    BY <1>2, <1>8 DEF Teardown, Return
  <2> QED
    BY <2>1, <2>2, <2>3
<1>9. ASSUME \/ /\ \/ LoopEnds(t) \/ StoreEntry(t) \/ SaveMetrics(t)
                 \/ \E k \in DbFaults : StoreFails(t, k) \/ SaveMetricsFails(t, k)
              /\ UNCHANGED apiVars
             \/ AddLogReturns(t) \/ ProcessQueueReturns(t)
             \/ NextBatch(t) \/ DrainEnds(t)
      PROVE  Balance'
  <2>1. UNCHANGED <<queue, dropped>>
        /\ metrics'.total_ingested = metrics.total_ingested
        /\ metrics'.total_processed = metrics.total_processed
    BY <1>9 DEF LoopEnds, StoreEntry, SaveMetrics, StoreFails, SaveMetricsFails,
                AddLogReturns, ProcessQueueReturns, NextBatch, DrainEnds, DequeueEmpty,
                WithDepth, MarkError, CountError
  <2>2. InFlight' = InFlight
    BY <1>2, <1>9
       DEF LoopEnds, StoreEntry, SaveMetrics, StoreFails, SaveMetricsFails,
           AddLogReturns, ProcessQueueReturns, NextBatch, ProcessorStart, DrainEnds,
           Return, apiVars
  <2> QED
    BY <2>1, <2>2
<1> HIDE DEF InFlight, Balance, Metrics
<1> QED
  BY <1>1, <1>4, <1>5, <1>6, <1>7, <1>8, <1>9 DEF Continue, ProcessorStep

(* The balance is inductive, given the invariant on the calls. *)
LEMMA NextBalance ==
  ASSUME LifeInv, Balance, [Next]_vars
  PROVE  Balance'
<1>1. CASE UNCHANGED vars \/ Finished
  BY <1>1 DEF Finished, vars, bufferVars, localVars, auxVars, apiVars, Balance, InFlight
<1>2. ASSUME NEW t \in Threads, Invoke(t) \/ Continue(t) PROVE Balance'
  BY <1>2, InvokeBalance, ContinueBalance
<1> QED
  BY <1>1, <1>2 DEF Next

(* Every log the engine ever accepted is stored and counted, or pending,   *)
(* or was dropped: nothing is lost or counted twice along the way, whoever *)
(* calls and whatever the database answers.                                *)
THEOREM AccountedFor == Spec => []Accounting
<1>1. Init => Balance
  BY EngineAssumption, EmptyTypes
     DEF Init, BufferZeroed, Balance, InFlight, ZeroMetrics
<1>2. LifeInv /\ Balance /\ [Next]_vars => Balance'
  BY NextBalance
<1>3. LifeInv /\ Balance => Accounting
  BY BalanceIsAccounting
<1> QED
  BY <1>1, <1>2, <1>3, LifeInvariant, PTL DEF Spec

-----------------------------------------------------------------------------
(* The loops: what a thread inside the runtime knows from where it is.     *)

Loop(t) ==
  /\ pc[t] \in Inside => limit[t] > 0
  /\ pc[t] = "snapshot" => processed[t] > 0
  /\ pc[t] \in {"requeue", "failed", "aborted"} => insertFailed
  /\ pc[t] = "succeeded" /\ processed[t] = 0 => queue = <<>>
  /\ pc[t] = "drained" => queue = <<>>

Loops == \A t \in Threads : Loop(t)

(* Nothing is known of a thread that is outside. *)
LEMMA OutsideLoop ==
  ASSUME NEW t \in Threads, pc[t] \notin Inside
  PROVE  Loop(t)
  BY DEF Loop, Inside, Processing

(* A call that begins starts its first batch with a positive limit. *)
LEMMA InvokeLoops ==
  ASSUME LifeInv, NEW t \in Threads, Invoke(t)
  PROVE  Loops'
<1> SUFFICES ASSUME NEW u \in Threads PROVE Loop(u)'
  BY DEF Loops
<1>1. InvokeShape(t) /\ pc[u] \notin Inside
  BY InvokeHasShape, FreeLock DEF InvokeShape, LifeInv
<1>2. CASE \E o \in Ops, place \in Outside : ReturnAtOnce(t, o, place)
  <2>1. pc'[u] \notin Inside
    BY <1>1, <1>2, NobodyInside DEF InvokeShape, LifeInv
  <2> QED
    BY <2>1 DEF Loop, Inside, Processing
<1>3. CASE \E o \in Ops, n \in Nat : StartProcessing(t, o, n)
  <2>1. PICK o \in Ops, n \in Nat : StartProcessing(t, o, n)
    BY <1>3
  <2>2. CASE u = t
    <3>1. pc'[u] = "dequeue" /\ limit'[u] > 0
      BY <2>1, <2>2, BatchAssumption
         DEF StartProcessing, ProcessorStart, GoTo, LifeInv, EngineTypeOK, ProcessorTypeOK
    <3> QED
      BY <3>1 DEF Loop
  <2>3. CASE u # t
    <3>1. pc'[u] \notin Inside
      BY <1>1, <2>1, <2>3
         DEF StartProcessing, ProcessorStart, GoTo, LifeInv, EngineTypeOK, ProcessorTypeOK
    <3> QED
      BY <3>1 DEF Loop, Inside, Processing
  <2> QED
    BY <2>2, <2>3
<1> QED
  BY <1>1, <1>2, <1>3 DEF InvokeShape

(* Every step of a call but the reading of its answer is taken inside.     *)
LEMMA ContinueInside ==
  ASSUME NEW t \in Threads, Continue(t), ~ReadAnswer(t)
  PROVE  pc[t] \in Inside
  BY DEF Continue, ProcessorStep, TakeEntry, StoreFails, LoopEnds, StoreEntry,
         CountProcessed, GiveBack, GiveUp, SaveMetrics, SaveMetricsFails,
         AddLogReturns, ProcessQueueReturns, NextBatch, DrainEnds, Teardown,
         Inside, Processing

(* Each step of a loop establishes what its next place relies on. *)
LEMMA ContinueLoop ==
  ASSUME LifeInv, NEW t \in Threads, Continue(t), Loop(t), ~ReadAnswer(t)
  PROVE  Loop(t)'
<1> USE DEF Loop, GoTo, LifeInv, EngineTypeOK, ProcessorTypeOK, BufferTypeOK
<1>1. CASE TakeEntry(t) \/ StoreEntry(t)
  BY <1>1 DEF TakeEntry, StoreEntry, Inside, Processing
<1>2. CASE LoopEnds(t)
  BY <1>2 DEF LoopEnds, DequeueEmpty, bufferVars, Inside, Processing
<1>3. CASE CountProcessed(t)
  BY <1>3 DEF CountProcessed, Inside, Processing
<1>4. ASSUME NEW k \in DbFaults, StoreFails(t, k) PROVE Loop(t)'
  BY <1>4 DEF StoreFails, Inside, Processing
<1>5. CASE GiveBack(t) \/ GiveUp(t)
  BY <1>5 DEF GiveBack, GiveUp, auxVars, Inside, Processing
<1>6. CASE SaveMetrics(t)
  BY <1>6 DEF SaveMetrics, Inside, Processing
<1>7. ASSUME NEW k \in DbFaults, SaveMetricsFails(t, k) PROVE Loop(t)'
  BY <1>7 DEF SaveMetricsFails, Inside, Processing
<1>8. CASE AddLogReturns(t) \/ ProcessQueueReturns(t) \/ Teardown(t)
  BY <1>8 DEF AddLogReturns, ProcessQueueReturns, Teardown, Return, Inside, Processing
<1>9. CASE NextBatch(t)
  BY <1>9, BatchAssumption DEF NextBatch, ProcessorStart, Inside, Processing
<1>10. CASE DrainEnds(t)
  BY <1>10 DEF DrainEnds, bufferVars, auxVars, Inside, Processing
<1> QED
  BY <1>1, <1>2, <1>3, <1>4, <1>5, <1>6, <1>7, <1>8, <1>9, <1>10
     DEF Continue, ProcessorStep

(* What every thread knows is inductive, given who is inside. *)
LEMMA NextLoops ==
  ASSUME LifeInv, Loops, [Next]_vars
  PROVE  Loops'
<1>1. CASE UNCHANGED vars \/ Finished
  BY <1>1 DEF Finished, vars, bufferVars, localVars, auxVars, Loops, Loop
<1>2. ASSUME NEW t \in Threads, Invoke(t) PROVE Loops'
  BY <1>2, InvokeLoops
<1>3. ASSUME NEW t \in Threads, Continue(t) PROVE Loops'
  <2>1. CASE ReadAnswer(t)
    BY <2>1 DEF ReadAnswer, GoTo, bufferVars, auxVars, Loops, Loop, LifeInv,
                EngineTypeOK, ProcessorTypeOK, Inside, Processing
  <2>2. CASE ~ReadAnswer(t)
    <3>1. Loop(t)'
      BY <1>3, <2>2, ContinueLoop DEF Loops
    <3>2. ASSUME NEW u \in Threads, u # t PROVE Loop(u)'
      <4>1. pc'[u] \notin Inside
        BY <1>3, <2>2, <3>2, ContinueInside, OthersOutside
      <4> QED
        BY <4>1 DEF Loop, Inside, Processing
    <3> QED
      BY <3>1, <3>2 DEF Loops
  <2> QED
    BY <2>1, <2>2
<1> QED
  BY <1>1, <1>2, <1>3 DEF Next

(* Holds of every state of the runtime. *)
LEMMA LoopsInvariant == Spec => []Loops
<1>1. Init => Loops
  BY DEF Init, Loops, Loop, Inside, Processing
<1>2. LifeInv /\ Loops /\ [Next]_vars => Loops'
  BY NextLoops
<1> QED
  BY <1>1, <1>2, LifeInvariant, PTL DEF Spec

(* A shutdown whose drain loop ended by itself has left no log behind.     *)
THEOREM DrainEmpties == Spec => []DrainedIsEmpty
<1>1. Loops => DrainedIsEmpty
  BY DEF Loops, Loop, DrainedIsEmpty
<1> QED
  BY <1>1, LoopsInvariant, PTL

-----------------------------------------------------------------------------
(* Back-pressure.  As long as no insert has failed, the queue reaches the  *)
(* threshold only in the call that is about to take its first log.         *)

Gate ==
  initialized /\ ~insertFailed =>
    /\ Len(queue) <= AutoProcessThreshold
    /\ Len(queue) = AutoProcessThreshold =>
         \E t \in Threads : pc[t] = "dequeue" /\ processed[t] = 0

(* With the lock free the gate is shut: the queue is below the threshold.  *)
LEMMA FreeGate ==
  ASSUME LifeInv, Gate, initialized, ~insertFailed, lock = NoThread
  PROVE  Len(queue) < AutoProcessThreshold
<1>1. \A t \in Threads : pc[t] # "dequeue"
  BY EngineAssumption DEF LifeInv, MutualExclusion, Inside, Processing
<1>2. Len(queue) \in Nat /\ AutoProcessThreshold \in Nat
  BY EngineAssumption, CapacityAssumption DEF LifeInv, EngineTypeOK, BufferTypeOK
<1> QED
  BY <1>1, <1>2 DEF Gate

(* An entry point keeps the gate: the log that reaches the threshold       *)
(* starts the processor in the same step.                                  *)
LEMMA InvokeGate ==
  ASSUME LifeInv, BufferBounded, Gate, NEW t \in Threads, Invoke(t)
  PROVE  Gate'
<1>1. lock = NoThread /\ AutoProcessThreshold \in Nat \ {0}
  BY InvokedPlaces, EngineAssumption, CapacityAssumption
<1>2. CASE InitRuntime(t) \/ InitWithoutDatabase(t)
  <2>1. queue' = <<>>
    BY <1>2 DEF InitRuntime, InitWithoutDatabase, BufferInit, BufferInitAndShutdown
  <2>2. Len(queue') = 0
    BY <2>1
  <2> QED
    BY <1>1, <2>2 DEF Gate
<1>3. CASE AddLog(t)
  <2>1. initialized /\ initialized' = initialized /\ insertFailed' = insertFailed
        /\ Enqueue
    BY <1>3 DEF AddLog, auxVars
  <2>2. Len(queue') = Len(queue) + 1 /\ metrics'.queue_depth = Len(queue')
    <3>1. queue \in Seq(Nat) /\ metrics \in Metrics /\ nextLogId \in Nat
      BY DEF LifeInv, EngineTypeOK, BufferTypeOK
    <3>2. queue' = Append(queue, nextLogId)
          /\ metrics' = WithDepth([metrics EXCEPT !.total_ingested = @ + 1], queue')
      BY <2>1 DEF Enqueue
    <3>3. [metrics EXCEPT !.total_ingested = @ + 1] \in Metrics
      BY <3>1 DEF Metrics
    <3>4. queue' \in Seq(Nat) /\ Len(queue') = Len(queue) + 1
      BY <3>1, <3>2
    <3> QED
      BY <3>2, <3>3, <3>4, DepthTypes
  <2> SUFFICES ASSUME ~insertFailed PROVE Gate'
    BY <2>1 DEF Gate
  <2>3. Len(queue) < AutoProcessThreshold /\ Len(queue) \in Nat
    BY <1>1, <2>1, FreeGate DEF LifeInv, EngineTypeOK, BufferTypeOK
  <2>4. ASSUME Len(queue') = AutoProcessThreshold
        PROVE  pc'[t] = "dequeue" /\ processed'[t] = 0
    <3>1. StartProcessing(t, "add", ProcessBatchSize)
      BY <1>1, <1>3, <2>2, <2>4 DEF AddLog
    <3> QED
      BY <3>1 DEF StartProcessing, ProcessorStart, GoTo, LifeInv, EngineTypeOK,
                  ProcessorTypeOK
  <2> QED
    BY <1>1, <2>2, <2>3, <2>4 DEF Gate
<1>4. CASE /\ UNCHANGED <<queue, insertFailed>>
           /\ initialized' => initialized
  <2>1. initialized' /\ ~insertFailed' => Len(queue') < AutoProcessThreshold
    BY <1>1, <1>4, FreeGate
  <2>2. Len(queue') \in Nat
    BY <1>4 DEF LifeInv, EngineTypeOK, BufferTypeOK
  <2> QED
    BY <1>1, <2>1, <2>2 DEF Gate
<1>5. CASE AddLogRefused(t)
  BY <1>4, <1>5 DEF AddLogRefused, EnqueueInvalid, EnqueueRefused, bufferVars, auxVars
<1>6. CASE \/ InitAgain(t) \/ InitRejected(t) \/ ProcessQueueDown(t) \/ Health(t)
           \/ ShutdownAgain(t) \/ Shutdown(t)
           \/ \E n \in MaxItems : ProcessQueue(t, n)
           \/ \E kind \in {"metrics", "pending"} : Query(t, kind)
  BY <1>4, <1>6
     DEF InitAgain, InitRejected, ProcessQueue, ProcessQueueDown, Query, Health,
         ShutdownAgain, Shutdown, bufferVars, auxVars
<1> QED
  BY <1>2, <1>3, <1>5, <1>6 DEF Invoke

(* A call under way keeps it: the processor takes a log, finds none, or    *)
(* gives one back only after a failed insert.                              *)
LEMMA ContinueGate ==
  ASSUME LifeInv, Loops, Gate, NEW t \in Threads, Continue(t)
  PROVE  Gate'
<1> SUFFICES ASSUME initialized', ~insertFailed'
             PROVE  /\ Len(queue') <= AutoProcessThreshold
                    /\ Len(queue') = AutoProcessThreshold =>
                         \E u \in Threads : pc'[u] = "dequeue" /\ processed'[u] = 0
  BY DEF Gate
<1>1. AutoProcessThreshold \in Nat \ {0}
  BY EngineAssumption, CapacityAssumption
<1>2. queue \in Seq(Nat) /\ Len(queue) \in Nat
  BY DEF LifeInv, EngineTypeOK, BufferTypeOK
<1>3. initialized /\ ~insertFailed /\ Loop(t)
  <2>1. ~Teardown(t)
    BY DEF Teardown
  <2>2. initialized' = initialized
    BY <2>1 DEF Continue, apiVars, AddLogReturns, ProcessQueueReturns, NextBatch,
                DrainEnds, ReadAnswer
  <2>3. insertFailed => insertFailed'
    BY <2>1 DEF Continue, ProcessorStep, auxVars, TakeEntry, LoopEnds, StoreEntry,
                CountProcessed, StoreFails, GiveBack, GiveUp, SaveMetrics,
                SaveMetricsFails, AddLogReturns, ProcessQueueReturns, NextBatch,
                DrainEnds, ReadAnswer
  <2> QED
    BY <2>2, <2>3 DEF Loops
<1>4. /\ Len(queue) <= AutoProcessThreshold
      /\ Len(queue) = AutoProcessThreshold =>
           \E u \in Threads : pc[u] = "dequeue" /\ processed[u] = 0
  BY <1>3 DEF Gate
<1> USE DEF LifeInv, EngineTypeOK, ProcessorTypeOK
<1>5. CASE TakeEntry(t)
  <2>1. queue # <<>> /\ queue' = Tail(queue)
    BY <1>5 DEF TakeEntry, Dequeue
  <2>2. Len(queue') = Len(queue) - 1
    BY <1>2, <2>1
  <2> QED
    BY <1>1, <1>2, <1>4, <2>2
<1>6. ASSUME UNCHANGED queue,
             pc[t] # "dequeue",
             \A u \in Threads \ {t} : pc'[u] = pc[u] /\ processed'[u] = processed[u]
      PROVE  /\ Len(queue') <= AutoProcessThreshold
             /\ Len(queue') = AutoProcessThreshold =>
                  \E u \in Threads : pc'[u] = "dequeue" /\ processed'[u] = 0
  BY <1>4, <1>6
<1>7. CASE LoopEnds(t)
  <2>1. UNCHANGED <<queue, processed>> /\ pc[t] = "dequeue"
        /\ (processed[t] = 0 => queue = <<>>)
    BY <1>3, <1>7 DEF LoopEnds, DequeueEmpty, bufferVars, Loop, Inside, Processing
  <2>2. CASE processed[t] = 0
    <3>1. Len(queue') = 0
      BY <2>1, <2>2
    <3> QED
      BY <1>1, <3>1
  <2>3. CASE processed[t] # 0
    <3>1. \A u \in Threads : u # t => pc[u] # "dequeue"
      BY <2>1, EngineAssumption DEF MutualExclusion, Inside, Processing
    <3> QED
      BY <1>4, <2>1, <2>3, <3>1
  <2> QED
    BY <2>2, <2>3
<1>8. CASE GiveBack(t) \/ \E k \in DbFaults : StoreFails(t, k)
  BY <1>3, <1>8 DEF GiveBack, StoreFails, Loop, auxVars
<1>9. CASE Teardown(t)
  BY <1>9 DEF Teardown
<1>10. CASE \/ StoreEntry(t) \/ CountProcessed(t) \/ GiveUp(t) \/ SaveMetrics(t)
            \/ \E k \in DbFaults : SaveMetricsFails(t, k)
            \/ NextBatch(t) \/ DrainEnds(t) \/ ReadAnswer(t)
            \/ AddLogReturns(t) \/ ProcessQueueReturns(t)
  <2>1. UNCHANGED queue /\ pc[t] # "dequeue"
    BY <1>10
       DEF StoreEntry, CountProcessed, MarkProcessed, GiveUp, RequeueRefused, SaveMetrics,
           SaveMetricsFails, MarkError, NextBatch, DrainEnds, ReadAnswer, AddLogReturns,
           ProcessQueueReturns, bufferVars
  <2>2. \A u \in Threads \ {t} : pc'[u] = pc[u] /\ processed'[u] = processed[u]
    BY <1>10
       DEF StoreEntry, CountProcessed, GiveUp, SaveMetrics, SaveMetricsFails, NextBatch,
           ProcessorStart, DrainEnds, ReadAnswer, AddLogReturns, ProcessQueueReturns,
           Return, GoTo
  <2> QED
    BY <1>6, <2>1, <2>2
<1> QED
  BY <1>5, <1>7, <1>8, <1>9, <1>10 DEF Continue, ProcessorStep

(* The gate is inductive. *)
LEMMA NextGate ==
  ASSUME LifeInv, BufferBounded, Loops, Gate, [Next]_vars
  PROVE  Gate'
<1>1. CASE UNCHANGED vars \/ Finished
  BY <1>1 DEF Finished, vars, bufferVars, localVars, auxVars, apiVars, Gate
<1>2. ASSUME NEW t \in Threads, Invoke(t) \/ Continue(t) PROVE Gate'
  BY <1>2, InvokeGate, ContinueGate
<1> QED
  BY <1>1, <1>2 DEF Next

(* Between two calls the queue is below the threshold unless an insert has *)
(* failed: whatever the batch size, the call that reaches the threshold    *)
(* does not return before the queue is below it again.                     *)
THEOREM ThresholdHolds == Spec => []BackPressure
<1>1. Init => Gate
  BY DEF Init, Gate
<1>2. LifeInv /\ BufferBounded /\ Loops /\ Gate /\ [Next]_vars => Gate'
  BY NextGate
<1>3. LifeInv /\ BufferBounded /\ Gate => BackPressure
  <2> SUFFICES ASSUME LifeInv, BufferBounded, Gate PROVE BackPressure
    OBVIOUS
  <2>1. Len(queue) \in Nat /\ AutoProcessThreshold \in Nat
    BY EngineAssumption, CapacityAssumption DEF LifeInv, EngineTypeOK, BufferTypeOK
  <2> QED
    BY <2>1, FreeGate DEF BufferBounded, BackPressure
<1> QED
  BY <1>1, <1>2, <1>3, LifeInvariant, BoundedBuffer, LoopsInvariant, PTL DEF Spec

-----------------------------------------------------------------------------
(* The two tables.                                                         *)

(* Entering an entry point leaves the rows and what is known of them.      *)
LEMMA InvokeRows ==
  ASSUME LifeInv, RowsAccounted, NEW t \in Threads, Invoke(t)
  PROVE  RowsAccounted'
<1> USE DEF LifeInv, EngineTypeOK, BufferTypeOK, PersistenceTypeOK
<1>1. Uncounted = 0 /\ Uncounted' = 0
  BY InvokedPlaces DEF Uncounted
<1>2. CASE InitRuntime(t) \/ InitWithoutDatabase(t)
  <2>1. metrics' = ZeroMetrics /\ rows' = <<>> /\ unsure' = 0
    BY <1>2 DEF InitRuntime, InitWithoutDatabase, BufferInit, BufferInitAndShutdown,
                PersistenceInit, PersistenceInitFails
  <2> QED
    BY <1>1, <2>1, EmptyTypes DEF RowsAccounted, ZeroMetrics
<1>3. CASE /\ UNCHANGED <<rows, unsure>>
           /\ metrics'.total_processed = metrics.total_processed
           /\ metrics'.total_errors \in {metrics.total_errors, metrics.total_errors + 1}
  <2>1. metrics.total_errors \in Nat /\ unsure \in Nat
    BY DEF Metrics
  <2> QED
    BY <1>1, <1>3, <2>1 DEF RowsAccounted
<1>4. CASE AddLog(t)
  BY <1>3, <1>4 DEF AddLog, Enqueue, WithDepth, Metrics, dbVars
<1>5. CASE AddLogRefused(t)
  BY <1>3, <1>5 DEF AddLogRefused, EnqueueInvalid, EnqueueRefused, CountError, Metrics,
                    bufferVars, dbVars
<1>6. CASE \/ InitAgain(t) \/ InitRejected(t) \/ ProcessQueueDown(t) \/ Health(t)
           \/ ShutdownAgain(t) \/ Shutdown(t)
           \/ \E n \in MaxItems : ProcessQueue(t, n)
           \/ \E kind \in {"metrics", "pending"} : Query(t, kind)
  <2>1. UNCHANGED <<rows, unsure, metrics>>
    BY <1>6
       DEF InitAgain, InitRejected, ProcessQueueDown, Health, Ping, PingFails,
           ShutdownAgain, Shutdown, ProcessQueue, Query, bufferVars, dbVars
  <2> QED
    BY <1>3, <2>1
<1> QED
  BY <1>2, <1>4, <1>5, <1>6 DEF Invoke

(* A row more is a log to be counted, or one whose acknowledgement was     *)
(* lost, and that shows in the errors.                                     *)
LEMMA ContinueRows ==
  ASSUME LifeInv, RowsAccounted, NEW t \in Threads, Continue(t)
  PROVE  RowsAccounted'
<1> USE DEF LifeInv, EngineTypeOK, BufferTypeOK, PersistenceTypeOK, ProcessorTypeOK, GoTo
<1>1. CASE ReadAnswer(t)
  <2>1. Uncounted' = Uncounted
    BY <1>1, EngineAssumption
       DEF ReadAnswer, Uncounted, MutualExclusion, RuntimeTypeOK, Inside, Processing
  <2> QED
    BY <1>1, <2>1 DEF ReadAnswer, RowsAccounted, bufferVars, dbVars
<1> SUFFICES ASSUME ~ReadAnswer(t) PROVE RowsAccounted'
  BY <1>1
<1>2. lock = t /\ lock # NoThread
  BY ContinueInside, EngineAssumption DEF MutualExclusion
<1>3. /\ metrics.total_processed \in Nat /\ metrics.total_errors \in Nat
      /\ unsure \in Nat /\ Len(rows) \in Nat
  BY DEF Metrics
<1>4. ASSUME ProcessorStep(t) /\ UNCHANGED apiVars
      PROVE  Uncounted' = IF pc'[t] = "mark" THEN 1 ELSE 0
  BY <1>2, <1>4 DEF Uncounted, apiVars
<1>5. Uncounted = IF pc[t] = "mark" THEN 1 ELSE 0
  BY <1>2 DEF Uncounted
<1>6. CASE StoreEntry(t) /\ UNCHANGED apiVars
  <2>1. Uncounted = 0 /\ Uncounted' = 1
    BY <1>4, <1>5, <1>6 DEF StoreEntry, ProcessorStep
  <2>2. Len(rows') = Len(rows) + 1 /\ unsure' = unsure /\ metrics' = metrics
    BY <1>6 DEF StoreEntry, InsertLog, bufferVars
  <2> QED
    BY <1>3, <2>1, <2>2 DEF RowsAccounted
<1>7. CASE CountProcessed(t) /\ UNCHANGED apiVars
  <2>1. Uncounted = 1 /\ Uncounted' = 0
    BY <1>4, <1>5, <1>7 DEF CountProcessed, ProcessorStep
  <2>2. /\ rows' = rows /\ unsure' = unsure
        /\ metrics'.total_processed = metrics.total_processed + 1
        /\ metrics'.total_errors = metrics.total_errors
    BY <1>7 DEF CountProcessed, MarkProcessed, Metrics, dbVars
  <2> QED
    BY <1>3, <2>1, <2>2 DEF RowsAccounted
<1>8. ASSUME NEW k \in DbFaults, StoreFails(t, k), UNCHANGED apiVars
      PROVE  RowsAccounted'
  <2>1. Uncounted = 0 /\ Uncounted' = 0
    BY <1>4, <1>5, <1>8 DEF StoreFails, ProcessorStep
  <2>2. /\ metrics'.total_processed = metrics.total_processed
        /\ metrics'.total_errors = metrics.total_errors + 1
    BY <1>8 DEF StoreFails, MarkError, CountError, Metrics
  <2>3. \/ rows' = rows /\ unsure' = unsure
        \/ Len(rows') = Len(rows) + 1 /\ unsure' = unsure + 1
    <3>1. \/ UNCHANGED <<rows, unsure>>
          \/ rows' = Append(rows, entry[t]) /\ unsure' = unsure + 1
      BY <1>8 DEF StoreFails, InsertLogFails, Commits
    <3>2. rows \in Seq(Nat) /\ entry[t] \in Nat
      OBVIOUS
    <3> QED
      BY <3>1, <3>2
  <2>4. Len(rows) = metrics.total_processed + unsure /\ unsure <= metrics.total_errors
    BY <1>3, <2>1 DEF RowsAccounted
  <2>5. Len(rows') = metrics'.total_processed + unsure'
    BY <1>3, <2>2, <2>3, <2>4
  <2>6. unsure' <= metrics'.total_errors
    BY <1>3, <2>2, <2>3, <2>4
  <2> QED
    BY <1>3, <2>1, <2>2, <2>3, <2>5, <2>6 DEF RowsAccounted
<1>9. ASSUME UNCHANGED <<rows, unsure>>,
             metrics'.total_processed = metrics.total_processed,
             metrics'.total_errors \in {metrics.total_errors, metrics.total_errors + 1},
             Uncounted = 0, Uncounted' = 0
      PROVE  RowsAccounted'
  BY <1>3, <1>9 DEF RowsAccounted
<1>10. CASE /\ \/ TakeEntry(t) \/ LoopEnds(t) \/ GiveBack(t) \/ GiveUp(t)
               \/ SaveMetrics(t) \/ \E k \in DbFaults : SaveMetricsFails(t, k)
            /\ UNCHANGED apiVars
  <2>1. UNCHANGED <<rows, unsure>>
    BY <1>10 DEF TakeEntry, LoopEnds, GiveBack, GiveUp, SaveMetrics, SaveMetricsFails,
                 InsertMetrics, InsertMetricsFails, dbVars
  <2>2. /\ metrics'.total_processed = metrics.total_processed
        /\ metrics'.total_errors \in {metrics.total_errors, metrics.total_errors + 1}
    BY <1>10 DEF TakeEntry, Dequeue, LoopEnds, DequeueEmpty, GiveBack, RequeueFront,
                 GiveUp, RequeueRefused, SaveMetrics, SaveMetricsFails, MarkError,
                 CountError, WithDepth, bufferVars, Metrics
  <2>3. pc[t] # "mark" /\ pc'[t] # "mark"
    BY <1>10 DEF TakeEntry, LoopEnds, GiveBack, GiveUp, SaveMetrics, SaveMetricsFails
  <2>4. Uncounted = 0 /\ Uncounted' = 0
    BY <1>2, <1>5, <1>10, <2>3 DEF Uncounted, apiVars
  <2> QED
    BY <1>9, <2>1, <2>2, <2>4
<1>11. CASE AddLogReturns(t) \/ ProcessQueueReturns(t) \/ NextBatch(t) \/ DrainEnds(t)
            \/ Teardown(t)
  <2>1. UNCHANGED <<rows, unsure>>
    BY <1>11 DEF AddLogReturns, ProcessQueueReturns, NextBatch, DrainEnds, Teardown,
                 PersistenceClose, dbVars
  <2>2. /\ metrics'.total_processed = metrics.total_processed
        /\ metrics'.total_errors = metrics.total_errors
    BY <1>11 DEF AddLogReturns, ProcessQueueReturns, NextBatch, DrainEnds, Teardown,
                 BufferShutdown, WithDepth, bufferVars, Metrics
  <2>3. Uncounted = 0 /\ Uncounted' = 0
    BY <1>2, <1>5, <1>11
       DEF AddLogReturns, ProcessQueueReturns, NextBatch, ProcessorStart, DrainEnds,
           Teardown, Return, Uncounted, apiVars
  <2> QED
    BY <1>9, <2>1, <2>2, <2>3
<1> QED
  BY <1>6, <1>7, <1>8, <1>10, <1>11 DEF Continue, ProcessorStep

(* The count of the rows is inductive. *)
LEMMA NextRows ==
  ASSUME LifeInv, RowsAccounted, [Next]_vars
  PROVE  RowsAccounted'
<1>1. CASE UNCHANGED vars \/ Finished
  BY <1>1 DEF Finished, vars, bufferVars, dbVars, localVars, apiVars, RowsAccounted, Uncounted
<1>2. ASSUME NEW t \in Threads, Invoke(t) \/ Continue(t) PROVE RowsAccounted'
  BY <1>2, InvokeRows, ContinueRows
<1> QED
  BY <1>1, <1>2 DEF Next

(* total_processed never disagrees with the table: every acknowledged row  *)
(* is counted once, and a row nobody counted shows in total_errors.        *)
THEOREM RowsCounted == Spec => []RowsAccounted
<1>1. Init => RowsAccounted
  BY EngineAssumption, EmptyTypes
     DEF Init, BufferZeroed, RowsAccounted, Uncounted, ZeroMetrics
<1>2. LifeInv /\ RowsAccounted /\ [Next]_vars => RowsAccounted'
  BY NextRows
<1> QED
  BY <1>1, <1>2, LifeInvariant, PTL DEF Spec

(* What a step makes of the tables: a new start empties them; else rows    *)
(* are only added, and a new picture of the metrics is taken when nothing  *)
(* is in flight.                                                           *)
TablesStep ==
  \/ rows' = <<>> /\ snapshot' = ZeroMetrics /\ dropped' = 0
  \/ snapshot' = snapshot /\ Len(rows') >= Len(rows) /\ dropped' >= dropped
  \/ /\ snapshot' = metrics /\ UNCHANGED <<rows, dropped>>
     /\ \E t \in Threads : pc[t] = "snapshot"

(* Every step of the runtime is one of them. *)
LEMMA NextIsTablesStep ==
  ASSUME EngineTypeOK, [Next]_vars
  PROVE  TablesStep
<1>1. dropped \in Nat /\ Len(rows) \in Nat /\ Len(queue) \in Nat /\ rows \in Seq(Nat)
  BY DEF EngineTypeOK, BufferTypeOK, PersistenceTypeOK, ProcessorTypeOK
<1>2. CASE UNCHANGED <<snapshot, rows, dropped>>
  BY <1>1, <1>2 DEF TablesStep
<1>3. CASE UNCHANGED vars \/ Finished
  BY <1>2, <1>3 DEF Finished, vars, dbVars, auxVars
<1>4. ASSUME NEW t \in Threads, Invoke(t) PROVE TablesStep
  <2>1. CASE InitRuntime(t) \/ InitWithoutDatabase(t)
    BY <2>1 DEF InitRuntime, InitWithoutDatabase, PersistenceInit, PersistenceInitFails,
                TablesStep
  <2>2. CASE ~InitRuntime(t) /\ ~InitWithoutDatabase(t)
    BY <1>2, <1>4, <2>2
       DEF Invoke, InitAgain, InitRejected, AddLog, AddLogRefused, ProcessQueue,
           ProcessQueueDown, Query, Health, Ping, PingFails, ShutdownAgain, Shutdown,
           dbVars, auxVars
  <2> QED
    BY <2>1, <2>2
<1>5. ASSUME NEW t \in Threads, Continue(t) PROVE TablesStep
  <2>1. CASE StoreEntry(t)
    <3>1. rows' = Append(rows, entry[t]) /\ UNCHANGED <<snapshot, dropped>>
      BY <2>1 DEF StoreEntry, InsertLog, auxVars
    <3>2. entry[t] \in Nat
      BY DEF EngineTypeOK, ProcessorTypeOK
    <3> QED
      BY <1>1, <3>1, <3>2 DEF TablesStep
  <2>2. ASSUME NEW k \in DbFaults, StoreFails(t, k) PROVE TablesStep
    <3>1. UNCHANGED <<snapshot, dropped>> /\ rows' \in {rows, Append(rows, entry[t])}
      BY <2>2 DEF StoreFails, InsertLogFails, Commits
    <3>2. entry[t] \in Nat
      BY DEF EngineTypeOK, ProcessorTypeOK
    <3> QED
      BY <1>1, <3>1, <3>2 DEF TablesStep
  <2>3. CASE GiveUp(t) \/ Teardown(t)
    <3>1. UNCHANGED <<snapshot, rows>> /\ dropped' \in {dropped + 1, dropped + Len(queue)}
      BY <2>3 DEF GiveUp, Teardown, PersistenceClose, dbVars
    <3> QED
      BY <1>1, <3>1 DEF TablesStep
  <2>4. CASE SaveMetrics(t)
    BY <2>4 DEF SaveMetrics, InsertMetrics, auxVars, TablesStep
  <2>5. ASSUME NEW k \in DbFaults, SaveMetricsFails(t, k) PROVE TablesStep
    <3>1. UNCHANGED <<rows, dropped>> /\ snapshot' \in {snapshot, metrics}
          /\ pc[t] = "snapshot"
      BY <2>5 DEF SaveMetricsFails, InsertMetricsFails, auxVars
    <3> QED
      BY <1>1, <3>1 DEF TablesStep
  <2>6. CASE \/ TakeEntry(t) \/ LoopEnds(t) \/ CountProcessed(t) \/ GiveBack(t)
             \/ AddLogReturns(t) \/ ProcessQueueReturns(t) \/ NextBatch(t)
             \/ DrainEnds(t) \/ ReadAnswer(t)
    BY <1>2, <2>6
       DEF TakeEntry, LoopEnds, CountProcessed, GiveBack, AddLogReturns,
           ProcessQueueReturns, NextBatch, DrainEnds, ReadAnswer, dbVars, auxVars
  <2> QED
    BY <1>5, <2>1, <2>2, <2>3, <2>4, <2>5, <2>6 DEF Continue, ProcessorStep
<1> QED
  BY <1>3, <1>4, <1>5 DEF Next

(* A picture of the metrics is consistent when it is taken and stays so.   *)
LEMMA NextSnapshot ==
  ASSUME LifeInv, BufferBounded, Balance, RowsAccounted, SnapshotBalanced, [Next]_vars
  PROVE  SnapshotBalanced'
<1>1. /\ metrics \in Metrics /\ snapshot \in Metrics /\ dropped \in Nat
      /\ Len(rows) \in Nat /\ unsure \in Nat /\ Len(queue) \in Nat
      /\ EngineTypeOK' /\ EngineTypeOK
  BY NextTypes DEF LifeInv, EngineTypeOK, BufferTypeOK, PersistenceTypeOK, ProcessorTypeOK
<1>2. dropped' \in Nat /\ Len(rows') \in Nat
  BY <1>1 DEF EngineTypeOK, PersistenceTypeOK, ProcessorTypeOK
<1>3. CASE rows' = <<>> /\ snapshot' = ZeroMetrics /\ dropped' = 0
  BY <1>3, EmptyTypes DEF SnapshotBalanced, ZeroMetrics
<1>4. CASE snapshot' = snapshot /\ Len(rows') >= Len(rows) /\ dropped' >= dropped
  BY <1>1, <1>2, <1>4 DEF SnapshotBalanced, Metrics
<1>5. ASSUME NEW t \in Threads, pc[t] = "snapshot",
             snapshot' = metrics, UNCHANGED <<rows, dropped>>
      PROVE  SnapshotBalanced'
  <2>1. lock = t /\ lock # NoThread
    BY <1>5, EngineAssumption DEF LifeInv, MutualExclusion, Inside, Processing
  <2>2. InFlight = 0 /\ Uncounted = 0
    BY <1>5, <2>1 DEF InFlight, Uncounted
  <2>3. metrics.total_ingested = metrics.total_processed + metrics.queue_depth + dropped
    BY <1>1, <2>2 DEF Balance, BufferBounded, Metrics
  <2>4. metrics.total_processed <= Len(rows)
    BY <1>1, <2>2 DEF RowsAccounted, Metrics
  <2> QED
    BY <1>1, <1>5, <2>3, <2>4 DEF SnapshotBalanced, Metrics
<1> QED
  BY <1>1, <1>3, <1>4, <1>5, NextIsTablesStep DEF TablesStep

(* A row of processing_metrics accounts for every log ingested up to the   *)
(* batch it closes: none is in flight when the metrics are copied, and     *)
(* what is dropped later explains the rest.                                *)
THEOREM PictureConsistent == Spec => []SnapshotBalanced
<1>1. Init => Balance /\ RowsAccounted /\ SnapshotBalanced
  BY EngineAssumption, EmptyTypes
     DEF Init, BufferZeroed, Balance, InFlight, RowsAccounted, Uncounted,
         SnapshotBalanced, ZeroMetrics
<1>2. LifeInv /\ Balance /\ RowsAccounted /\ [Next]_vars => Balance' /\ RowsAccounted'
  BY NextBalance, NextRows
<1>3. LifeInv /\ BufferBounded /\ Balance /\ RowsAccounted /\ SnapshotBalanced /\ [Next]_vars
        => SnapshotBalanced'
  BY NextSnapshot
<1> QED
  BY <1>1, <1>2, <1>3, LifeInvariant, BoundedBuffer, PTL DEF Spec

-----------------------------------------------------------------------------
(* The order of delivery.  Seen from the logs, the runtime takes the steps *)
(* of FifoDelivery; the ids and the lost acknowledgements go with them.    *)

IdsCounted == initialized => nextLogId = metrics.total_ingested + 1

FlowStep ==
  \/ UNCHANGED <<initialized, metrics.total_ingested, Pending, rows, insertFailed,
                 unsure, nextLogId>>
  \/ Delivery!Restart /\ unsure' = 0 /\ nextLogId' = 1
  \/ Delivery!Accept /\ UNCHANGED unsure /\ nextLogId' = nextLogId + 1
  \/ Delivery!Store /\ UNCHANGED <<unsure, nextLogId>>
  \/ /\ Delivery!StoreFails
     /\ unsure' = IF rows' = rows THEN unsure ELSE unsure + 1
     /\ UNCHANGED nextLogId
  \/ Delivery!Lose /\ UNCHANGED <<unsure, nextLogId>>
  \/ Delivery!Close /\ UNCHANGED <<unsure, nextLogId>>

(* An entry in front of a list. *)
LEMMA FrontOfList ==
  ASSUME NEW q \in Seq(Nat), NEW e \in Nat
  PROVE  /\ <<e>> \o q \in Seq(Nat) /\ <<e>> \o q # <<>>
         /\ Head(<<e>> \o q) = e
         /\ Tail(<<e>> \o q) = q
         /\ <<>> \o q = q
<1>1. <<e>> \in Seq(Nat) /\ Len(<<e>>) = 1 /\ <<e>>[1] = e
  OBVIOUS
<1> DEFINE r == <<e>> \o q
<1>2. /\ r \in Seq(Nat) /\ Len(r) = Len(q) + 1 /\ Len(q) \in Nat
      /\ \A i \in 1..1 + Len(q) : r[i] = IF i <= 1 THEN e ELSE q[i - 1]
  BY <1>1, ConcatProperties, LenProperties
<1> HIDE DEF r
<1>3. r # <<>> /\ Head(r) = r[1] /\ r[1] = e
  BY <1>2
<1>4. Tail(r) \in Seq(Nat) /\ Len(Tail(r)) = Len(q)
      /\ \A i \in 1..Len(q) : Tail(r)[i] = q[i]
  BY <1>2, <1>3, HeadTailProperties
<1>5. Tail(r) = q
  BY <1>2, <1>4, SeqEqual
<1> QED
  BY <1>2, <1>3, <1>5, ConcatEmptySeq DEF r

(* A list that is not empty is its first entry in front of the rest.       *)
LEMMA HeadInFront ==
  ASSUME NEW q \in Seq(Nat), q # <<>>
  PROVE  <<Head(q)>> \o Tail(q) = q
<1>1. /\ Head(q) = q[1] /\ q[1] \in Nat /\ Len(q) \in Nat \ {0}
      /\ Tail(q) \in Seq(Nat) /\ Len(Tail(q)) = Len(q) - 1
      /\ \A i \in 1..Len(Tail(q)) : Tail(q)[i] = q[i + 1]
  BY HeadTailProperties, EmptySeq, ElementOfSeq
<1>2. <<q[1]>> \in Seq(Nat) /\ Len(<<q[1]>>) = 1 /\ <<q[1]>>[1] = q[1]
  BY <1>1
<1> DEFINE r == <<q[1]>> \o Tail(q)
<1>3. /\ r \in Seq(Nat) /\ Len(r) = Len(q)
      /\ \A i \in 1..Len(q) : r[i] = IF i <= 1 THEN q[1] ELSE Tail(q)[i - 1]
  BY <1>1, <1>2, ConcatProperties
<1> HIDE DEF r
<1>4. \A i \in 1..Len(q) : r[i] = q[i]
  BY <1>1, <1>3
<1>5. r = q
  BY <1>3, <1>4, SeqEqual
<1> QED
  BY <1>1, <1>5 DEF r

(* An entry point lets a log in, or starts from nothing.                   *)
LEMMA InvokeFlow ==
  ASSUME LifeInv, IdsCounted, NEW t \in Threads, Invoke(t)
  PROVE  FlowStep
<1> USE DEF FlowStep
<1>1. LifeInv' /\ EngineTypeOK
  BY NextLife DEF Next, LifeInv
<1>2. Holding = <<>> /\ Holding' = <<>>
  <2>1. lock = NoThread /\ lock' \in {NoThread, t}
        /\ pc'[t] \notin {"insert", "requeue"}
    BY InvokedPlaces
  <2>2. entry'[t] = NoEntry
    BY <1>1, <2>1 DEF LifeInv, Life, EntryHeld, NoEntry
  <2> QED
    BY <2>1, <2>2 DEF Holding
<1>3. queue \in Seq(Nat) /\ queue' \in Seq(Nat) /\ metrics \in Metrics
  BY <1>1 DEF LifeInv, EngineTypeOK, BufferTypeOK
<1>4. Pending = queue /\ Pending' = queue'
  BY <1>2, <1>3, ConcatEmptySeq DEF Pending
<1>5. CASE InitRuntime(t) \/ InitWithoutDatabase(t)
  <2>1. /\ ~initialized /\ initialized' \in BOOLEAN
        /\ metrics' = ZeroMetrics /\ queue' = <<>> /\ nextLogId' = 1
        /\ rows' = <<>> /\ unsure' = 0 /\ insertFailed' = FALSE
    BY <1>1, <1>5
       DEF InitRuntime, InitWithoutDatabase, BufferInit, BufferInitAndShutdown,
           PersistenceInit, PersistenceInitFails, LifeInv, EngineTypeOK, RuntimeTypeOK
  <2> QED
    BY <1>4, <2>1 DEF Delivery!Restart, Delivery!Fresh, ZeroMetrics
<1>6. CASE AddLog(t)
  <2>1. /\ initialized /\ UNCHANGED <<initialized, rows, unsure, insertFailed>>
        /\ queue' = Append(queue, nextLogId) /\ nextLogId' = nextLogId + 1
        /\ metrics'.total_ingested = metrics.total_ingested + 1
    BY <1>3, <1>6 DEF AddLog, Enqueue, WithDepth, Metrics, dbVars, auxVars
  <2> QED
    BY <1>4, <2>1 DEF Delivery!Accept, IdsCounted
<1>7. CASE UNCHANGED <<queue, nextLogId, metrics.total_ingested, rows, unsure,
                       insertFailed, initialized>>
  BY <1>4, <1>7
<1>8. CASE AddLogRefused(t)
  <2>1. metrics'.total_ingested = metrics.total_ingested
    BY <1>3, <1>8 DEF AddLogRefused, EnqueueInvalid, EnqueueRefused, CountError, Metrics,
                      bufferVars
  <2> QED
    BY <1>7, <1>8, <2>1 DEF AddLogRefused, EnqueueInvalid, EnqueueRefused, bufferVars,
                            dbVars, auxVars
<1>9. CASE \/ InitAgain(t) \/ InitRejected(t) \/ ProcessQueueDown(t) \/ Health(t)
           \/ ShutdownAgain(t) \/ Shutdown(t)
           \/ \E n \in MaxItems : ProcessQueue(t, n)
           \/ \E kind \in {"metrics", "pending"} : Query(t, kind)
  BY <1>7, <1>9
     DEF InitAgain, InitRejected, ProcessQueueDown, Health, Ping, PingFails,
         ShutdownAgain, Shutdown, ProcessQueue, Query, bufferVars, dbVars, auxVars
<1> QED
  BY <1>5, <1>6, <1>8, <1>9 DEF Invoke

(* The processor and the teardown move the oldest pending log, or none.    *)
LEMMA ContinueFlow ==
  ASSUME LifeInv, Loops, NEW t \in Threads, Continue(t)
  PROVE  FlowStep
<1> USE DEF FlowStep
<1>1. /\ queue \in Seq(Nat) /\ metrics \in Metrics /\ entry[t] \in Nat
      /\ pc \in [Threads -> Inside \cup Outside] /\ entry \in [Threads -> Nat]
      /\ rows \in Seq(Nat)
  BY DEF LifeInv, EngineTypeOK, BufferTypeOK, ProcessorTypeOK, PersistenceTypeOK
<1>2. CASE ReadAnswer(t)
  <2>1. Holding' = Holding
    BY <1>2 DEF ReadAnswer, Holding
  <2> QED
    BY <1>2, <2>1 DEF ReadAnswer, Pending, bufferVars, dbVars, auxVars
<1> SUFFICES ASSUME ~ReadAnswer(t) PROVE FlowStep
  BY <1>2
<1>3. lock = t /\ lock # NoThread /\ pc[t] \in Inside
  BY ContinueInside, EngineAssumption DEF LifeInv, MutualExclusion
<1>4. Pending = IF pc[t] \in {"insert", "requeue"} THEN <<entry[t]>> \o queue ELSE queue
  <2>1. entry[t] # NoEntry <=> pc[t] \in {"insert", "requeue"}
    BY DEF LifeInv, Life, EntryHeld
  <2> QED
    BY <1>1, <1>3, <2>1, ConcatEmptySeq DEF Pending, Holding
<1>5. LifeInv' /\ queue' \in Seq(Nat) /\ metrics' \in Metrics /\ entry'[t] \in Nat
  BY NextLife DEF Next, LifeInv, EngineTypeOK, BufferTypeOK, ProcessorTypeOK
<1>6. ASSUME lock' = lock
      PROVE  Pending' = IF pc'[t] \in {"insert", "requeue"}
                        THEN <<entry'[t]>> \o queue' ELSE queue'
  <2>1. entry'[t] # NoEntry <=> pc'[t] \in {"insert", "requeue"}
    BY <1>5 DEF LifeInv, Life, EntryHeld, NoEntry
  <2> QED
    BY <1>3, <1>5, <1>6, <2>1, ConcatEmptySeq DEF Pending, Holding
<1>7. ASSUME lock' = NoThread
      PROVE  Pending' = queue'
  BY <1>5, <1>7, ConcatEmptySeq DEF Pending, Holding
<1>8. ASSUME ProcessorStep(t), UNCHANGED apiVars
      PROVE  lock' = lock /\ initialized' = initialized
  BY <1>8 DEF apiVars
<1>9. Loop(t)
  BY DEF Loops
<1>10. CASE TakeEntry(t) /\ UNCHANGED apiVars
  <2>1. /\ Pending = queue /\ queue # <<>> /\ queue' = Tail(queue)
        /\ Pending' = <<Head(queue)>> \o Tail(queue)
    BY <1>1, <1>4, <1>6, <1>10 DEF TakeEntry, Dequeue, GoTo, apiVars
  <2>2. Pending' = Pending
    BY <1>1, <2>1, HeadInFront
  <2> QED
    BY <1>1, <1>10, <2>2 DEF TakeEntry, Dequeue, WithDepth, Metrics, dbVars, auxVars, apiVars
<1>11. CASE StoreEntry(t) /\ UNCHANGED apiVars
  <2>1. Pending = <<entry[t]>> \o queue /\ Pending' = queue /\ rows' = Append(rows, entry[t])
    BY <1>1, <1>4, <1>6, <1>11 DEF StoreEntry, InsertLog, GoTo, apiVars, bufferVars
  <2>2. Pending # <<>> /\ Head(Pending) = entry[t] /\ Tail(Pending) = Pending'
    BY <1>1, <2>1, FrontOfList
  <2> QED
    BY <1>11, <2>1, <2>2
       DEF StoreEntry, InsertLog, Delivery!Store, apiVars, bufferVars, auxVars
<1>12. ASSUME NEW k \in DbFaults, StoreFails(t, k), UNCHANGED apiVars
       PROVE  FlowStep
  <2>1. Pending = <<entry[t]>> \o queue /\ Pending' = Pending
    BY <1>1, <1>4, <1>6, <1>12 DEF StoreFails, MarkError, GoTo, apiVars
  <2>2. Pending # <<>> /\ Head(Pending) = entry[t]
    BY <1>1, <2>1, FrontOfList
  <2>3. \/ UNCHANGED <<rows, unsure>>
        \/ rows' = Append(rows, entry[t]) /\ unsure' = unsure + 1
    BY <1>12 DEF StoreFails, InsertLogFails, Commits
  <2>4. Append(rows, entry[t]) # rows
    <3>1. Len(Append(rows, entry[t])) = Len(rows) + 1 /\ Len(rows) \in Nat
      BY <1>1
    <3> QED
      BY <3>1
  <2>5. metrics'.total_ingested = metrics.total_ingested /\ insertFailed' = TRUE
        /\ UNCHANGED <<initialized, nextLogId>>
    BY <1>1, <1>12 DEF StoreFails, MarkError, CountError, Metrics, apiVars
  <2> QED
    BY <2>1, <2>2, <2>3, <2>4, <2>5 DEF Delivery!StoreFails
<1>13. CASE GiveBack(t) /\ UNCHANGED apiVars
  <2>1. Pending = <<entry[t]>> \o queue /\ Pending' = Pending
    BY <1>1, <1>4, <1>6, <1>13 DEF GiveBack, RequeueFront, GoTo, apiVars
  <2> QED
    BY <1>1, <1>13, <2>1 DEF GiveBack, RequeueFront, WithDepth, Metrics, dbVars, auxVars, apiVars
<1>14. CASE GiveUp(t) /\ UNCHANGED apiVars
  <2>1. Pending = <<entry[t]>> \o queue /\ Pending' = queue
    BY <1>1, <1>4, <1>6, <1>14 DEF GiveUp, RequeueRefused, GoTo, apiVars, bufferVars
  <2>2. Pending # <<>> /\ Tail(Pending) = Pending'
    BY <1>1, <2>1, FrontOfList
  <2>3. insertFailed
    BY <1>9, <1>14 DEF GiveUp, Loop
  <2> QED
    BY <1>14, <2>2, <2>3
       DEF GiveUp, RequeueRefused, Delivery!Lose, apiVars, bufferVars, dbVars
<1>15. CASE /\ UNCHANGED <<queue, nextLogId, metrics.total_ingested, rows, unsure,
                           insertFailed, initialized>>
            /\ pc[t] \notin {"insert", "requeue"} /\ pc'[t] \notin {"insert", "requeue"}
            /\ lock' \in {lock, NoThread}
  <2>1. Pending = queue /\ Pending' = queue'
    BY <1>4, <1>6, <1>7, <1>15
  <2> QED
    BY <1>15, <2>1
<1>16. CASE /\ \/ LoopEnds(t) \/ CountProcessed(t) \/ SaveMetrics(t)
               \/ \E k \in DbFaults : SaveMetricsFails(t, k)
            /\ UNCHANGED apiVars
  <2>1. UNCHANGED <<queue, nextLogId, rows, unsure, insertFailed, initialized, lock>>
    BY <1>16 DEF LoopEnds, DequeueEmpty, CountProcessed, MarkProcessed, SaveMetrics,
                 SaveMetricsFails, InsertMetrics, InsertMetricsFails, MarkError,
                 bufferVars, dbVars, auxVars, apiVars
  <2>2. metrics'.total_ingested = metrics.total_ingested
    BY <1>1, <1>16 DEF LoopEnds, DequeueEmpty, WithDepth, CountProcessed, MarkProcessed,
                 SaveMetrics, SaveMetricsFails, MarkError, CountError, Metrics, bufferVars
  <2>3. pc[t] \notin {"insert", "requeue"} /\ pc'[t] \notin {"insert", "requeue"}
    BY <1>1, <1>16 DEF LoopEnds, CountProcessed, SaveMetrics, SaveMetricsFails, GoTo
  <2> QED
    BY <1>15, <2>1, <2>2, <2>3
<1>17. CASE AddLogReturns(t) \/ ProcessQueueReturns(t) \/ NextBatch(t) \/ DrainEnds(t)
  <2>1. UNCHANGED <<queue, nextLogId, metrics, rows, unsure, insertFailed, initialized>>
        /\ lock' \in {lock, NoThread}
    BY <1>17 DEF AddLogReturns, ProcessQueueReturns, Return, NextBatch, DrainEnds,
                 bufferVars, dbVars, auxVars, apiVars
  <2>2. pc[t] \notin {"insert", "requeue"} /\ pc'[t] \notin {"insert", "requeue"}
    BY <1>1, <1>17 DEF AddLogReturns, ProcessQueueReturns, Return, NextBatch,
                       ProcessorStart, DrainEnds, GoTo
  <2> QED
    BY <1>15, <2>1, <2>2
<1>18. CASE Teardown(t)
  <2>1. Pending = queue /\ Pending' = <<>> /\ initialized
    BY <1>3, <1>4, <1>7, <1>18
       DEF Teardown, BufferShutdown, Return, LifeInv, Life, UpDown
  <2>2. insertFailed \/ Pending = <<>>
    BY <1>9, <1>18, <2>1 DEF Teardown, Loop
  <2>3. metrics'.total_ingested = metrics.total_ingested
    BY <1>1, <1>18 DEF Teardown, BufferShutdown, WithDepth, Metrics
  <2> QED
    BY <1>18, <2>1, <2>2, <2>3
       DEF Teardown, BufferShutdown, PersistenceClose, Delivery!Close
<1> QED
  BY <1>10, <1>11, <1>12, <1>13, <1>14, <1>16, <1>17, <1>18 DEF Continue, ProcessorStep

(* Every step of the runtime is a step of the delivery, or shows nothing.  *)
LEMMA NextIsFlowStep ==
  ASSUME LifeInv, Loops, IdsCounted, [Next]_vars
  PROVE  FlowStep
<1>1. CASE UNCHANGED vars \/ Finished
  BY <1>1 DEF Finished, vars, bufferVars, dbVars, localVars, auxVars, apiVars, FlowStep,
              Pending, Holding
<1>2. ASSUME NEW t \in Threads, Invoke(t) \/ Continue(t) PROVE FlowStep
  BY <1>2, InvokeFlow, ContinueFlow
<1> QED
  BY <1>1, <1>2 DEF Next

(* Ids are given out one by one: the next one counts the logs accepted.    *)
LEMMA NextIdsCounted ==
  ASSUME LifeInv, Loops, IdsCounted, [Next]_vars
  PROVE  IdsCounted'
<1>1. FlowStep /\ initialized \in BOOLEAN
  BY NextIsFlowStep DEF LifeInv, EngineTypeOK, RuntimeTypeOK
<1>2. CASE UNCHANGED <<initialized, metrics.total_ingested, nextLogId>>
  BY <1>2 DEF IdsCounted
<1>3. CASE Delivery!Restart /\ nextLogId' = 1
  <2>1. metrics'.total_ingested = 0
    BY <1>3 DEF Delivery!Restart, Delivery!Fresh
  <2> QED
    BY <1>3, <2>1 DEF IdsCounted
<1>4. CASE Delivery!Accept /\ nextLogId' = nextLogId + 1
  BY <1>4 DEF IdsCounted, Delivery!Accept
<1>5. CASE Delivery!Close
  BY <1>5 DEF IdsCounted, Delivery!Close
<1> QED
  BY <1>1, <1>2, <1>3, <1>4, <1>5
     DEF FlowStep, Delivery!Store, Delivery!StoreFails, Delivery!Lose

(* Holds of every state of the runtime. *)
LEMMA IdsInvariant == Spec => []IdsCounted
<1>1. Init => IdsCounted
  BY DEF Init, IdsCounted
<1>2. LifeInv /\ Loops /\ IdsCounted /\ [Next]_vars => IdsCounted'
  BY NextIdsCounted
<1> QED
  BY <1>1, <1>2, LifeInvariant, LoopsInvariant, PTL DEF Spec

(* The engine implements FifoDelivery: seen from the accepted logs, every  *)
(* entry point, every step of the queue processor and every fault is a     *)
(* step of a first-in first-out delivery, or nothing at all.               *)
THEOREM ImplementsFifo == Spec => DeliversFifo
<1>1. Init => Delivery!Init
  <2> SUFFICES ASSUME Init PROVE Delivery!Init
    OBVIOUS
  <2>1. Pending = <<>>
    BY EmptyTypes, ConcatEmptySeq DEF Init, BufferZeroed, Pending, Holding
  <2> QED
    BY <2>1 DEF Init, BufferZeroed, ZeroMetrics, Delivery!Init
<1>2. LifeInv /\ Loops /\ IdsCounted /\ [Next]_vars
        => [Delivery!Next]_(Delivery!deliveryVars)
  BY NextIsFlowStep DEF FlowStep, Delivery!Next, Delivery!deliveryVars
<1> QED
  BY <1>1, <1>2, LifeInvariant, LoopsInvariant, IdsInvariant, PTL
     DEF Spec, DeliversFifo, Delivery!Spec

-----------------------------------------------------------------------------
(* What makes the order inductive: n is the next id, p the pending logs, s *)
(* the rows and u how many of them were reported failed.  The pending logs *)
(* are the last ids given out, and every row is older than the oldest of   *)
(* them, or is that log, stored and reported failed.                       *)

LastIdsGivenOut(n, p) == \A i \in 1..Len(p) : p[i] = n - Len(p) + i - 1

Rising(s, u) ==
  /\ \A i \in 1..Len(s) - 1 : s[i] <= s[i + 1]
  /\ u = 0 => \A i \in 1..Len(s) - 1 : s[i] < s[i + 1]

RowsAreOlder(n, p, s, u) ==
  s # <<>> =>
    /\ s[Len(s)] < n
    /\ p # <<>> => s[Len(s)] <= p[1]
    /\ p # <<>> /\ u = 0 => s[Len(s)] < p[1]

Ordered(n, p, s, u) ==
  LastIdsGivenOut(n, p) /\ Rising(s, u) /\ RowsAreOlder(n, p, s, u)

OrderInv ==
  /\ Rising(rows, unsure)
  /\ initialized => Ordered(nextLogId, Pending, rows, unsure)
  /\ ~initialized => Pending = <<>>

(* A log is accepted. *)
LEMMA AcceptOrdered ==
  ASSUME NEW n \in Nat, NEW p \in Seq(Nat), NEW s \in Seq(Nat), NEW u \in Nat,
         Ordered(n, p, s, u)
  PROVE  Ordered(n + 1, Append(p, n), s, u)
<1> DEFINE q == Append(p, n)
<1>1. /\ q \in Seq(Nat) /\ q # <<>> /\ Len(q) = Len(p) + 1 /\ Len(p) \in Nat
      /\ \A i \in 1..Len(p) : q[i] = p[i]
      /\ q[Len(p) + 1] = n
  BY AppendProperties, LenProperties
<1>2. p # <<>> => Len(p) > 0 /\ q[1] = p[1]
  BY <1>1, EmptySeq
<1>3. p = <<>> => q[1] = n
  BY <1>1
<1> HIDE DEF q
<1>4. LastIdsGivenOut(n + 1, q)
  <2>1. ASSUME NEW i \in 1..Len(q) PROVE q[i] = (n + 1) - Len(q) + i - 1
    <3>1. CASE i = Len(p) + 1
      BY <1>1, <3>1
    <3>2. CASE i \in 1..Len(p)
      <4>1. q[i] = p[i] /\ p[i] = n - Len(p) + i - 1
        BY <1>1, <3>2 DEF Ordered, LastIdsGivenOut
      <4> QED
        BY <1>1, <3>2, <4>1
    <3> QED
      BY <1>1, <3>1, <3>2
  <2> QED
    BY <2>1 DEF LastIdsGivenOut
<1>5. s # <<>> => Len(s) \in 1..Len(s) /\ s[Len(s)] \in Nat
  BY LenProperties, EmptySeq, ElementOfSeq
<1>6. RowsAreOlder(n + 1, q, s, u)
  BY <1>1, <1>2, <1>3, <1>5 DEF Ordered, RowsAreOlder
<1> QED
  BY <1>4, <1>6 DEF Ordered, q

(* The oldest log is stored: it comes after every other row. *)
LEMMA OneMoreRow ==
  ASSUME NEW n \in Nat, NEW p \in Seq(Nat), NEW s \in Seq(Nat), NEW u \in Nat,
         NEW v \in Nat, u = 0 \/ v # 0, p # <<>>, Ordered(n, p, s, u)
  PROVE  /\ Append(s, Head(p)) \in Seq(Nat)
         /\ Append(s, Head(p)) # <<>>
         /\ Len(Append(s, Head(p))) = Len(s) + 1
         /\ Append(s, Head(p))[Len(s) + 1] = p[1]
         /\ p[1] \in Nat /\ p[1] < n
         /\ Rising(Append(s, Head(p)), v)
<1>1. Head(p) = p[1] /\ p[1] \in Nat /\ Len(p) > 0 /\ Len(p) \in Nat /\ p[1] < n
  <2>1. Head(p) = p[1] /\ p[1] \in Nat /\ Len(p) > 0 /\ Len(p) \in Nat
    BY EmptySeq, ElementOfSeq, LenProperties, HeadTailProperties
  <2> QED
    BY <2>1 DEF Ordered, LastIdsGivenOut
<1> DEFINE r == Append(s, p[1])
<1>2. /\ r \in Seq(Nat) /\ r # <<>> /\ Len(r) = Len(s) + 1 /\ Len(s) \in Nat
      /\ \A i \in 1..Len(s) : r[i] = s[i]
      /\ r[Len(s) + 1] = p[1]
  BY <1>1, AppendProperties, LenProperties
<1> HIDE DEF r
<1>3. \A i \in 1..Len(s) : s[i] \in Nat
  BY ElementOfSeq
<1>4. Len(s) > 0 => s[Len(s)] <= p[1] /\ (u = 0 => s[Len(s)] < p[1])
  BY EmptySeq DEF Ordered, RowsAreOlder
<1>5. ASSUME NEW i \in 1..Len(r) - 1
      PROVE  r[i] <= r[i + 1] /\ (v = 0 => r[i] < r[i + 1])
  <2>1. CASE i < Len(s)
    <3>1. i \in 1..Len(s) - 1 /\ i + 1 \in 1..Len(s) /\ i \in 1..Len(s)
      BY <1>2, <2>1
    <3> QED
      BY <1>2, <3>1 DEF Ordered, Rising
  <2>2. CASE i = Len(s)
    BY <1>2, <1>4, <2>2
  <2> QED
    BY <1>2, <2>1, <2>2
<1>6. Rising(r, v)
  BY <1>5 DEF Rising
<1> QED
  BY <1>1, <1>2, <1>6 DEF r

(* The log behind the oldest one becomes the oldest. *)
LEMMA RestOrdered ==
  ASSUME NEW n \in Nat, NEW p \in Seq(Nat), p # <<>>, LastIdsGivenOut(n, p)
  PROVE  /\ Tail(p) \in Seq(Nat)
         /\ LastIdsGivenOut(n, Tail(p))
         /\ Tail(p) # <<>> => Tail(p)[1] = p[1] + 1
<1> DEFINE q == Tail(p)
<1>1. /\ q \in Seq(Nat) /\ Len(q) = Len(p) - 1 /\ Len(p) \in Nat /\ Len(p) > 0
      /\ \A i \in 1..Len(q) : q[i] = p[i + 1]
  BY HeadTailProperties, EmptySeq, LenProperties
<1>2. q # <<>> => Len(q) > 0
  BY <1>1, EmptySeq, LenProperties
<1> HIDE DEF q
<1>3. LastIdsGivenOut(n, q)
  <2>1. ASSUME NEW i \in 1..Len(q) PROVE q[i] = n - Len(q) + i - 1
    <3>1. i + 1 \in 1..Len(p)
      BY <1>1
    <3>2. q[i] = p[i + 1] /\ p[i + 1] = n - Len(p) + (i + 1) - 1
      BY <1>1, <3>1 DEF LastIdsGivenOut
    <3> QED
      BY <1>1, <3>2
  <2> QED
    BY <2>1 DEF LastIdsGivenOut
<1>4. ASSUME q # <<>> PROVE q[1] = p[1] + 1
  <2>1. 1 \in 1..Len(q) /\ 1 \in 1..Len(p) /\ 1 + 1 \in 1..Len(p)
    BY <1>1, <1>2, <1>4
  <2>2. q[1] = p[1 + 1]
    BY <1>1, <2>1
  <2>3. p[1] = n - Len(p) + 1 - 1 /\ p[1 + 1] = n - Len(p) + (1 + 1) - 1
    BY <2>1 DEF LastIdsGivenOut
  <2> QED
    BY <1>1, <2>2, <2>3
<1> QED
  BY <1>1, <1>3, <1>4 DEF q

(* The oldest pending log becomes the newest row: the next is newer. *)
LEMMA StoreOrdered ==
  ASSUME NEW n \in Nat, NEW p \in Seq(Nat), NEW s \in Seq(Nat), NEW u \in Nat,
         p # <<>>, Ordered(n, p, s, u)
  PROVE  Ordered(n, Tail(p), Append(s, Head(p)), u)
<1> DEFINE r == Append(s, Head(p))
<1>1. /\ r # <<>> /\ r[Len(r)] = p[1] /\ p[1] \in Nat /\ p[1] < n /\ Rising(r, u)
  <2>1. u \in Nat /\ (u = 0 \/ u # 0)
    OBVIOUS
  <2> QED
    BY <2>1, OneMoreRow
<1>2. LastIdsGivenOut(n, Tail(p)) /\ (Tail(p) # <<>> => Tail(p)[1] = p[1] + 1)
  BY RestOrdered DEF Ordered
<1> HIDE DEF r
<1>3. RowsAreOlder(n, Tail(p), r, u)
  BY <1>1, <1>2 DEF RowsAreOlder
<1> QED
  BY <1>1, <1>2, <1>3 DEF Ordered, r

(* The oldest log is stored, and is reported failed: it stays pending. *)
LEMMA UnsureOrdered ==
  ASSUME NEW n \in Nat, NEW p \in Seq(Nat), NEW s \in Seq(Nat), NEW u \in Nat,
         p # <<>>, Ordered(n, p, s, u)
  PROVE  Ordered(n, p, Append(s, Head(p)), u + 1)
<1> DEFINE r == Append(s, Head(p))
<1>1. /\ r # <<>> /\ r[Len(r)] = p[1] /\ p[1] \in Nat /\ p[1] < n /\ Rising(r, u + 1)
  <2>1. u + 1 \in Nat /\ (u = 0 \/ u + 1 # 0)
    OBVIOUS
  <2> QED
    BY <2>1, OneMoreRow
<1> HIDE DEF r
<1>2. RowsAreOlder(n, p, r, u + 1)
  BY <1>1 DEF RowsAreOlder
<1> QED
  BY <1>1, <1>2 DEF Ordered, r

(* The oldest pending log is lost. *)
LEMMA LoseOrdered ==
  ASSUME NEW n \in Nat, NEW p \in Seq(Nat), NEW s \in Seq(Nat), NEW u \in Nat,
         p # <<>>, Ordered(n, p, s, u)
  PROVE  Ordered(n, Tail(p), s, u)
<1> DEFINE rest == Tail(p)
           newest == s[Len(s)]
<1>1. LastIdsGivenOut(n, rest) /\ (rest # <<>> => rest[1] = p[1] + 1)
  BY RestOrdered DEF Ordered
<1>2. s # <<>> => newest \in Nat
  BY LenProperties, EmptySeq, ElementOfSeq
<1>3. p[1] \in Nat
  BY EmptySeq, ElementOfSeq, LenProperties
<1>4. s # <<>> => newest < n /\ newest <= p[1]
  BY DEF Ordered, RowsAreOlder
<1> HIDE DEF rest, newest
<1>5. s # <<>> /\ rest # <<>> => newest < rest[1] /\ newest <= rest[1]
  BY <1>1, <1>2, <1>3, <1>4
<1>6. RowsAreOlder(n, rest, s, u)
  BY <1>4, <1>5 DEF RowsAreOlder, newest
<1> QED
  BY <1>1, <1>6 DEF Ordered, rest

(* A delivery that starts again has nothing to put in order. *)
LEMMA NothingOrdered ==
  /\ Rising(<<>>, 0)
  /\ \A n \in Nat : Ordered(n, <<>>, <<>>, 0)
BY EmptySeq DEF Rising, Ordered, LastIdsGivenOut, RowsAreOlder

(* The entry in the processor's hands and the list behind it.              *)
LEMMA PendingIsSeq ==
  ASSUME LifeInv
  PROVE  Pending \in Seq(Nat)
<1>1. queue \in Seq(Nat) /\ (Holding = <<>> \/ \E e \in Nat : Holding = <<e>>)
  BY DEF LifeInv, EngineTypeOK, BufferTypeOK, ProcessorTypeOK, RuntimeTypeOK, Holding
<1>2. CASE Holding = <<>>
  BY <1>1, <1>2, ConcatEmptySeq DEF Pending
<1>3. ASSUME NEW e \in Nat, Holding = <<e>> PROVE Pending \in Seq(Nat)
  BY <1>1, <1>3, FrontOfList DEF Pending
<1> QED
  BY <1>1, <1>2, <1>3

(* Every step of the delivery keeps the order. *)
LEMMA NextOrder ==
  ASSUME LifeInv, Loops, IdsCounted, OrderInv, [Next]_vars
  PROVE  OrderInv'
<1>1. FlowStep /\ initialized \in BOOLEAN /\ initialized' \in BOOLEAN
  BY NextIsFlowStep, NextLife DEF LifeInv, EngineTypeOK, RuntimeTypeOK
<1>2. nextLogId \in Nat /\ rows \in Seq(Nat) /\ unsure \in Nat
  BY DEF LifeInv, EngineTypeOK, BufferTypeOK, PersistenceTypeOK
<1>3. Pending \in Seq(Nat)
  BY PendingIsSeq
<1>4. Pending # <<>> => initialized
  BY DEF OrderInv
<1>5. CASE UNCHANGED <<initialized, Pending, rows, unsure, nextLogId>>
  BY <1>5 DEF OrderInv
<1>6. CASE Delivery!Restart /\ unsure' = 0 /\ nextLogId' = 1
  <2>1. Pending' = <<>> /\ rows' = <<>>
    BY <1>6 DEF Delivery!Restart, Delivery!Fresh
  <2> QED
    BY <1>6, <2>1, NothingOrdered DEF OrderInv
<1>7. CASE Delivery!Accept /\ UNCHANGED unsure /\ nextLogId' = nextLogId + 1
  <2>1. /\ initialized /\ initialized' /\ rows' = rows
        /\ Pending' = Append(Pending, nextLogId)
    BY <1>1, <1>7 DEF Delivery!Accept, IdsCounted
  <2>2. Ordered(nextLogId + 1, Append(Pending, nextLogId), rows, unsure)
    BY <1>2, <1>3, <2>1, AcceptOrdered DEF OrderInv
  <2> QED
    BY <1>7, <2>1, <2>2 DEF OrderInv
<1>8. CASE Delivery!Store /\ UNCHANGED <<unsure, nextLogId>>
  <2>1. /\ Pending # <<>> /\ rows' = Append(rows, Head(Pending))
        /\ Pending' = Tail(Pending) /\ initialized' = initialized
    BY <1>8 DEF Delivery!Store
  <2>2. Ordered(nextLogId, Tail(Pending), Append(rows, Head(Pending)), unsure)
    BY <1>2, <1>3, <1>4, <2>1, StoreOrdered DEF OrderInv
  <2> QED
    BY <1>4, <1>8, <2>1, <2>2 DEF OrderInv, Ordered
<1>9. CASE /\ Delivery!StoreFails
           /\ unsure' = IF rows' = rows THEN unsure ELSE unsure + 1
           /\ UNCHANGED nextLogId
  <2>1. /\ Pending # <<>> /\ rows' \in {rows, Append(rows, Head(Pending))}
        /\ Pending' = Pending /\ initialized' = initialized
    BY <1>9 DEF Delivery!StoreFails
  <2>2. CASE rows' = rows
    BY <1>5, <1>9, <2>1, <2>2
  <2>3. CASE rows' = Append(rows, Head(Pending)) /\ unsure' = unsure + 1
    <3>1. Ordered(nextLogId, Pending, rows', unsure')
      BY <1>2, <1>3, <1>4, <2>1, <2>3, UnsureOrdered DEF OrderInv
    <3> QED
      BY <1>4, <1>9, <2>1, <3>1 DEF OrderInv, Ordered
  <2> QED
    BY <1>9, <2>1, <2>2, <2>3
<1>10. CASE Delivery!Lose /\ UNCHANGED <<unsure, nextLogId>>
  <2>1. /\ Pending # <<>> /\ rows' = rows /\ Pending' = Tail(Pending)
        /\ initialized' = initialized
    BY <1>10 DEF Delivery!Lose
  <2>2. Ordered(nextLogId, Tail(Pending), rows, unsure)
    BY <1>2, <1>3, <1>4, <2>1, LoseOrdered DEF OrderInv
  <2> QED
    BY <1>4, <1>10, <2>1, <2>2 DEF OrderInv
<1>11. CASE Delivery!Close /\ UNCHANGED <<unsure, nextLogId>>
  BY <1>11 DEF OrderInv, Delivery!Close
<1> QED
  BY <1>1, <1>5, <1>6, <1>7, <1>8, <1>9, <1>10, <1>11 DEF FlowStep

(* processed_logs holds the logs in the order they were accepted, each     *)
(* once unless an insert that committed was reported failed, and the logs  *)
(* still pending are the last ids given out, in order.                     *)
THEOREM DeliveredInOrder == Spec => []DeliveryInOrder
<1>1. Init => OrderInv
  <2> SUFFICES ASSUME Init PROVE OrderInv
    OBVIOUS
  <2>1. Pending = <<>>
    BY EmptyTypes, ConcatEmptySeq DEF Init, BufferZeroed, Pending, Holding
  <2> QED
    BY <2>1, NothingOrdered DEF Init, OrderInv
<1>2. LifeInv /\ Loops /\ IdsCounted /\ OrderInv /\ [Next]_vars => OrderInv'
  BY NextOrder
<1>3. LifeInv /\ OrderInv => DeliveryInOrder
  <2> SUFFICES ASSUME LifeInv, OrderInv PROVE DeliveryInOrder
    OBVIOUS
  <2>1. up <=> initialized
    BY DEF LifeInv, Life, UpDown
  <2> QED
    BY <2>1 DEF OrderInv, DeliveryInOrder, Ordered, LastIdsGivenOut, Rising, RowsAreOlder
<1> QED
  BY <1>1, <1>2, <1>3, LifeInvariant, LoopsInvariant, IdsInvariant, PTL DEF Spec

-----------------------------------------------------------------------------
(* Each log by itself.  Of n accepted logs s holds the stored ones, p the  *)
(* pending ones, and u of the stores were reported failed: no id is there  *)
(* that was not given out, and a second copy of one takes such a failure.  *)

ItemsOf(s) == {s[i] : i \in DOMAIN s}

(* The logs that are in one of the two lists. *)
Places(s, p) == ItemsOf(s) \cup ItemsOf(p)

(* Both hold only ids that were given out, and one of them twice only as   *)
(* often as an acknowledgement was lost.                                   *)
Once(n, s, p, u) ==
  /\ Places(s, p) \subseteq 1..n
  /\ Len(s) + Len(p) <= Cardinality(Places(s, p)) + u

(* What an append, and taking the head, do to the items of a list.         *)
LEMMA ItemsAppended ==
  ASSUME NEW s \in Seq(Nat), NEW e \in Nat
  PROVE  ItemsOf(Append(s, e)) = ItemsOf(s) \cup {e}
<1> DEFINE r == Append(s, e)
<1>1. /\ Len(s) \in Nat /\ DOMAIN s = 1..Len(s)
      /\ DOMAIN r = 1..Len(s) + 1
      /\ r[Len(s) + 1] = e /\ \A i \in 1..Len(s) : r[i] = s[i]
  BY AppendProperties, LenProperties
<1> HIDE DEF r
<1>2. ItemsOf(r) \subseteq ItemsOf(s) \cup {e}
  <2> SUFFICES ASSUME NEW i \in DOMAIN r PROVE r[i] \in ItemsOf(s) \cup {e}
    BY DEF ItemsOf
  <2>1. i = Len(s) + 1 \/ i \in 1..Len(s)
    BY <1>1
  <2> QED
    BY <1>1, <2>1 DEF ItemsOf
<1>3. ItemsOf(s) \subseteq ItemsOf(r)
  BY <1>1 DEF ItemsOf
<1>4. e \in ItemsOf(r)
  BY <1>1 DEF ItemsOf
<1> QED
  BY <1>2, <1>3, <1>4 DEF r

(* The head of a list and the others are all it has. *)
LEMMA ItemsOfTail ==
  ASSUME NEW p \in Seq(Nat), p # <<>>
  PROVE  ItemsOf(p) = {Head(p)} \cup ItemsOf(Tail(p))
<1> DEFINE r == Tail(p)
<1>1. /\ Head(p) = p[1] /\ Len(p) \in Nat \ {0} /\ DOMAIN p = 1..Len(p)
      /\ DOMAIN r = 1..Len(p) - 1
      /\ \A i \in 1..Len(p) - 1 : r[i] = p[i + 1]
  BY HeadTailProperties, EmptySeq, LenProperties
<1> HIDE DEF r
<1>2. ItemsOf(p) \subseteq {Head(p)} \cup ItemsOf(r)
  <2> SUFFICES ASSUME NEW i \in DOMAIN p, i # 1 PROVE p[i] \in ItemsOf(r)
    BY <1>1 DEF ItemsOf
  <2>1. i - 1 \in DOMAIN r /\ r[i - 1] = p[i]
    BY <1>1
  <2> QED
    BY <2>1 DEF ItemsOf
<1>3. ItemsOf(r) \subseteq ItemsOf(p)
  <2> SUFFICES ASSUME NEW i \in DOMAIN r PROVE r[i] \in ItemsOf(p)
    BY DEF ItemsOf
  <2>1. i + 1 \in DOMAIN p /\ r[i] = p[i + 1]
    BY <1>1
  <2> QED
    BY <2>1 DEF ItemsOf
<1>4. Head(p) \in ItemsOf(p)
  BY <1>1 DEF ItemsOf
<1> QED
  BY <1>2, <1>3, <1>4 DEF r

(* The first n numbers are n. *)
LEMMA FirstNumbers ==
  ASSUME NEW n \in Nat
  PROVE  IsFiniteSet(1..n) /\ Cardinality(1..n) = n
<1>1. /\ IsFiniteSet(1..n)
      /\ Cardinality(1..n) = IF 1 > n THEN 0 ELSE n - 1 + 1
  <2>1. 1 \in Int /\ n \in Int
    OBVIOUS
  <2> QED
    BY ONLY <2>1, FS_Interval
<1>2. (IF 1 > n THEN 0 ELSE n - 1 + 1) = n
  OBVIOUS
<1> QED
  BY <1>1, <1>2

(* A list has no more items than entries. *)
LEMMA ItemsCounted ==
  ASSUME NEW p \in Seq(Nat)
  PROVE  IsFiniteSet(ItemsOf(p)) /\ Cardinality(ItemsOf(p)) <= Len(p)
<1>1. Len(p) \in Nat /\ DOMAIN p = 1..Len(p)
  BY LenProperties
<1>2. p \in Surjection(1..Len(p), ItemsOf(p))
  <2>1. p = [i \in 1..Len(p) |-> p[i]]
    BY <1>1
  <2>2. p \in [1..Len(p) -> ItemsOf(p)]
    BY <1>1, <2>1 DEF ItemsOf
  <2>3. \A x \in ItemsOf(p) : \E i \in 1..Len(p) : p[i] = x
    BY <1>1 DEF ItemsOf
  <2> QED
    BY <2>2, <2>3 DEF Surjection
<1>3. IsFiniteSet(1..Len(p)) /\ Cardinality(1..Len(p)) = Len(p)
  BY <1>1, FirstNumbers
<1> QED
  BY <1>2, <1>3, FS_Surjection

(* The places of the first n logs are a finite set. *)
LEMMA PlacesFinite ==
  ASSUME NEW n \in Nat, NEW K \in SUBSET (1..n)
  PROVE  IsFiniteSet(K) /\ Cardinality(K) \in Nat
<1>1. IsFiniteSet(1..n)
  BY FirstNumbers
<1>2. IsFiniteSet(K)
  BY <1>1, FS_Subset
<1> QED
  BY <1>2, FS_CardinalityType

(* What is not among them is the rest. *)
LEMMA MissingCounted ==
  ASSUME NEW n \in Nat, NEW K \in SUBSET (1..n)
  PROVE  Cardinality((1..n) \ K) = n - Cardinality(K)
<1>1. IsFiniteSet(1..n) /\ Cardinality(1..n) = n
  BY FirstNumbers
<1>2. (1..n) \cap K = K
  OBVIOUS
<1>3. Cardinality((1..n) \ K) = Cardinality(1..n) - Cardinality((1..n) \cap K)
  BY <1>1, FS_Difference
<1> QED
  BY <1>1, <1>2, <1>3

(* The next id is a new one. *)
LEMMA AcceptOnce ==
  ASSUME NEW n \in Nat, NEW s \in Seq(Nat), NEW p \in Seq(Nat), NEW u \in Nat,
         Once(n, s, p, u)
  PROVE  Once(n + 1, s, Append(p, n + 1), u)
<1> DEFINE K == Places(s, p)
           L == Places(s, Append(p, n + 1))
<1>1. K \subseteq 1..n /\ Len(s) + Len(p) <= Cardinality(K) + u
  BY DEF Once
<1>2. L = K \cup {n + 1}
  BY ItemsAppended DEF Places
<1>3. Len(Append(p, n + 1)) = Len(p) + 1 /\ Len(p) \in Nat /\ Len(s) \in Nat
  BY AppendProperties, LenProperties
<1> HIDE DEF K, L
<1>4. IsFiniteSet(K) /\ Cardinality(K) \in Nat
  BY <1>1, PlacesFinite
<1>5. Cardinality(K \cup {n + 1}) = Cardinality(K) + 1
  <2>1. n + 1 \notin K
    BY <1>1
  <2> QED
    BY <1>4, <2>1, FS_AddElement
<1>6. L \subseteq 1..n + 1
  BY <1>1, <1>2
<1>7. Len(s) + Len(Append(p, n + 1)) <= Cardinality(L) + u
  <2>1. Cardinality(L) = Cardinality(K) + 1
    BY <1>2, <1>5
  <2> QED
    BY <1>1, <1>3, <1>4, <2>1
<1> QED
  BY <1>6, <1>7 DEF Once, L

(* A stored log moves from the pending ones to the rows.                   *)
LEMMA StoreOnce ==
  ASSUME NEW n \in Nat, NEW s \in Seq(Nat), NEW p \in Seq(Nat), NEW u \in Nat,
         p # <<>>, Once(n, s, p, u)
  PROVE  Once(n, Append(s, Head(p)), Tail(p), u)
<1>1. Head(p) \in Nat /\ Len(Tail(p)) = Len(p) - 1 /\ Len(p) \in Nat /\ Len(s) \in Nat
  BY HeadTailProperties, LenProperties, EmptySeq
<1>2. Len(Append(s, Head(p))) = Len(s) + 1
  BY <1>1, AppendProperties
<1>3. Places(Append(s, Head(p)), Tail(p)) = Places(s, p)
  BY <1>1, ItemsAppended, ItemsOfTail DEF Places
<1>4. Len(Append(s, Head(p))) + Len(Tail(p)) = Len(s) + Len(p)
  BY <1>1, <1>2
<1> QED
  BY <1>3, <1>4 DEF Once

(* A stored log that was reported failed is in both places. *)
LEMMA UnsureOnce ==
  ASSUME NEW n \in Nat, NEW s \in Seq(Nat), NEW p \in Seq(Nat), NEW u \in Nat,
         p # <<>>, Once(n, s, p, u)
  PROVE  Once(n, Append(s, Head(p)), p, u + 1)
<1>1. Head(p) \in Nat /\ Len(p) \in Nat /\ Len(s) \in Nat
  BY HeadTailProperties, LenProperties, EmptySeq
<1>2. Len(Append(s, Head(p))) = Len(s) + 1
  BY <1>1, AppendProperties
<1> DEFINE K == Places(s, p)
<1>3. Places(Append(s, Head(p)), p) = K
  BY <1>1, ItemsAppended, ItemsOfTail DEF Places
<1>4. K \subseteq 1..n /\ Len(s) + Len(p) <= Cardinality(K) + u
  BY DEF Once
<1> HIDE DEF K
<1>5. Cardinality(K) \in Nat
  BY <1>4, PlacesFinite
<1>6. Len(Append(s, Head(p))) + Len(p) <= Cardinality(K) + (u + 1)
  BY <1>1, <1>2, <1>4, <1>5
<1> QED
  BY <1>3, <1>4, <1>6 DEF Once

(* Pending logs that are let go take no more places than they are.         *)
LEMMA LetGoOnce ==
  ASSUME NEW n \in Nat, NEW s \in Seq(Nat), NEW p \in Seq(Nat), NEW u \in Nat,
         NEW q \in Seq(Nat), NEW G, IsFiniteSet(G),
         ItemsOf(p) = G \cup ItemsOf(q), Cardinality(G) + Len(q) <= Len(p),
         Once(n, s, p, u)
  PROVE  Once(n, s, q, u)
<1> DEFINE K == Places(s, p)
           L == Places(s, q)
<1>1. K \subseteq 1..n /\ Len(s) + Len(p) <= Cardinality(K) + u
  BY DEF Once
<1>2. K = L \cup G
  BY DEF Places
<1>3. Len(p) \in Nat /\ Len(q) \in Nat /\ Len(s) \in Nat
  BY LenProperties
<1> HIDE DEF K, L
<1>4. L \subseteq 1..n
  BY <1>1, <1>2
<1>5. /\ IsFiniteSet(L) /\ Cardinality(L) \in Nat /\ Cardinality(K) \in Nat
      /\ Cardinality(G) \in Nat
  BY <1>1, <1>4, PlacesFinite, FS_CardinalityType
<1>6. Cardinality(K) <= Cardinality(L) + Cardinality(G)
  <2>1. Cardinality(L \cup G) = Cardinality(L) + Cardinality(G) - Cardinality(L \cap G)
    BY <1>5, FS_Union
  <2>2. Cardinality(L \cap G) \in Nat
    BY <1>5, FS_Intersection, FS_CardinalityType
  <2> QED
    BY <1>2, <1>5, <2>1, <2>2
<1>7. Len(s) + Len(q) <= Cardinality(L) + u
  BY <1>1, <1>3, <1>5, <1>6
<1> QED
  BY <1>4, <1>7 DEF Once, L

(* The oldest pending log is lost, or all of them at the end.              *)
LEMMA LoseOnce ==
  ASSUME NEW n \in Nat, NEW s \in Seq(Nat), NEW p \in Seq(Nat), NEW u \in Nat,
         p # <<>>, Once(n, s, p, u)
  PROVE  Once(n, s, Tail(p), u)
<1> DEFINE G == {Head(p)}
           q == Tail(p)
<1>1. q \in Seq(Nat) /\ Len(q) = Len(p) - 1 /\ Len(p) \in Nat
  BY HeadTailProperties, LenProperties, EmptySeq
<1>2. IsFiniteSet(G) /\ Cardinality(G) = 1
  BY FS_Singleton
<1>3. ItemsOf(p) = G \cup ItemsOf(q)
  BY ItemsOfTail
<1> HIDE DEF G, q
<1>4. Cardinality(G) + Len(q) <= Len(p)
  BY <1>1, <1>2
<1>5. Once(n, s, q, u)
  BY <1>1, <1>2, <1>3, <1>4, LetGoOnce
<1> QED
  BY <1>5 DEF q

(* The pending logs are freed without a count, as the teardown frees them: *)
(* the rows alone are still no more than the ids known and the lost        *)
(* acknowledgements.                                                       *)
LEMMA CloseOnce ==
  ASSUME NEW n \in Nat, NEW s \in Seq(Nat), NEW p \in Seq(Nat), NEW u \in Nat,
         Once(n, s, p, u)
  PROVE  Once(n, s, <<>>, u)
<1> DEFINE G == ItemsOf(p)
           q == <<>>
<1>1. IsFiniteSet(G) /\ Cardinality(G) <= Len(p) /\ Cardinality(G) \in Nat
  BY ItemsCounted, FS_CardinalityType
<1>2. q \in Seq(Nat) /\ Len(q) = 0 /\ ItemsOf(q) = {}
  BY EmptySeq DEF ItemsOf
<1>3. ItemsOf(p) = G \cup ItemsOf(q)
  BY <1>2
<1> HIDE DEF G, q
<1>4. Cardinality(G) + Len(q) <= Len(p)
  BY <1>1, <1>2, LenProperties
<1>5. Once(n, s, q, u)
  BY <1>1, <1>2, <1>3, <1>4, LetGoOnce
<1> QED
  BY <1>5 DEF q

(* Nothing is anywhere when the delivery starts again. *)
LEMMA NothingOnce == Once(0, <<>>, <<>>, 0)
<1>1. Len(<<>>) = 0 /\ ItemsOf(<<>>) = {}
  BY EmptySeq DEF ItemsOf
<1>2. Places(<<>>, <<>>) = {}
  BY <1>1 DEF Places
<1> QED
  BY <1>1, <1>2, FS_EmptySet DEF Once

(* What the runtime keeps of it, with its own tables. *)
EachOnce == Once(metrics.total_ingested, rows, Pending, unsure)

(* Every step of the delivery keeps it. *)
LEMMA NextOnce ==
  ASSUME LifeInv, Loops, IdsCounted, EachOnce, [Next]_vars
  PROVE  EachOnce'
<1>1. FlowStep
  BY NextIsFlowStep
<1>2. /\ metrics.total_ingested \in Nat /\ rows \in Seq(Nat) /\ unsure \in Nat
      /\ Pending \in Seq(Nat)
  BY PendingIsSeq DEF LifeInv, EngineTypeOK, BufferTypeOK, PersistenceTypeOK, Metrics
<1>3. CASE UNCHANGED <<metrics.total_ingested, Pending, rows, unsure>>
  BY <1>3 DEF EachOnce
<1>4. CASE Delivery!Restart /\ unsure' = 0
  <2>1. metrics'.total_ingested = 0 /\ Pending' = <<>> /\ rows' = <<>>
    BY <1>4 DEF Delivery!Restart, Delivery!Fresh
  <2> QED
    BY <1>4, <2>1, NothingOnce DEF EachOnce
<1>5. CASE Delivery!Accept /\ UNCHANGED unsure
  <2>1. /\ metrics'.total_ingested = metrics.total_ingested + 1 /\ rows' = rows
        /\ Pending' = Append(Pending, metrics.total_ingested + 1)
    BY <1>5 DEF Delivery!Accept
  <2> QED
    BY <1>2, <1>5, <2>1, AcceptOnce DEF EachOnce
<1>6. CASE Delivery!Store /\ UNCHANGED unsure
  <2>1. /\ Pending # <<>> /\ rows' = Append(rows, Head(Pending))
        /\ Pending' = Tail(Pending)
        /\ metrics'.total_ingested = metrics.total_ingested
    BY <1>6 DEF Delivery!Store
  <2> QED
    BY <1>2, <1>6, <2>1, StoreOnce DEF EachOnce
<1>7. CASE /\ Delivery!StoreFails
           /\ unsure' = IF rows' = rows THEN unsure ELSE unsure + 1
  <2>1. /\ Pending # <<>> /\ rows' \in {rows, Append(rows, Head(Pending))}
        /\ Pending' = Pending /\ metrics'.total_ingested = metrics.total_ingested
    BY <1>7 DEF Delivery!StoreFails
  <2>2. CASE rows' = rows
    BY <1>3, <1>7, <2>1, <2>2
  <2>3. CASE rows' = Append(rows, Head(Pending)) /\ unsure' = unsure + 1
    BY <1>2, <2>1, <2>3, UnsureOnce DEF EachOnce
  <2> QED
    BY <1>7, <2>1, <2>2, <2>3
<1>8. CASE Delivery!Lose /\ UNCHANGED unsure
  <2>1. /\ Pending # <<>> /\ rows' = rows /\ Pending' = Tail(Pending)
        /\ metrics'.total_ingested = metrics.total_ingested
    BY <1>8 DEF Delivery!Lose
  <2> QED
    BY <1>2, <1>8, <2>1, LoseOnce DEF EachOnce
<1>9. CASE Delivery!Close /\ UNCHANGED unsure
  <2>1. rows' = rows /\ Pending' = <<>>
        /\ metrics'.total_ingested = metrics.total_ingested
    BY <1>9 DEF Delivery!Close
  <2> QED
    BY <1>2, <1>9, <2>1, CloseOnce DEF EachOnce
<1> QED
  BY <1>1, <1>3, <1>4, <1>5, <1>6, <1>7, <1>8, <1>9 DEF FlowStep

(* No accepted log is missing from the table and from the runtime's hands  *)
(* but for as many as were dropped, and no second copy of one is anywhere  *)
(* but for as many as lost their acknowledgement.                          *)
THEOREM EachAtLeastOnce == Spec => []AtLeastOnce
<1>1. Init => EachOnce
  <2> SUFFICES ASSUME Init PROVE EachOnce
    OBVIOUS
  <2>1. Pending = <<>>
    BY EmptyTypes, ConcatEmptySeq DEF Init, BufferZeroed, Pending, Holding
  <2> QED
    BY <2>1, NothingOnce DEF Init, BufferZeroed, ZeroMetrics, EachOnce
<1>2. LifeInv /\ Loops /\ IdsCounted /\ EachOnce /\ [Next]_vars => EachOnce'
  BY NextOnce
<1>3. LifeInv /\ Accounting /\ RowsAccounted /\ EachOnce => AtLeastOnce
  <2> SUFFICES ASSUME LifeInv, Accounting, RowsAccounted, EachOnce PROVE AtLeastOnce
    OBVIOUS
  <2> DEFINE n == metrics.total_ingested
             K == Places(rows, Pending)
  <2>1. Known = K
    BY DEF Known, Places, ItemsOf
  <2>2. K \subseteq 1..n /\ Len(rows) + Len(Pending) <= Cardinality(K) + unsure
    BY DEF EachOnce, Once
  <2>3. /\ n \in Nat /\ metrics.total_processed \in Nat /\ unsure \in Nat
        /\ dropped \in Nat /\ Len(rows) \in Nat /\ Len(Pending) \in Nat
        /\ Uncounted \in Nat
    BY PendingIsSeq, LenProperties
       DEF LifeInv, EngineTypeOK, BufferTypeOK, PersistenceTypeOK, ProcessorTypeOK, Metrics,
           Uncounted
  <2>4. n = (Len(rows) - unsure) + Len(Pending) + dropped
    BY <2>3 DEF Accounting, RowsAccounted
  <2> HIDE DEF n, K
  <2>5. Cardinality(K) \in Nat /\ Cardinality((1..n) \ K) = n - Cardinality(K)
    <3>1. n \in Nat /\ K \in SUBSET (1..n)
      BY <2>2, <2>3
    <3> QED
      BY <3>1, PlacesFinite, MissingCounted
  <2>6. Cardinality((1..n) \ K) <= dropped
    BY <2>2, <2>3, <2>4, <2>5
  <2> QED
    BY <2>1, <2>2, <2>6 DEF AtLeastOnce, n
<1> QED
  BY <1>1, <1>2, <1>3, LifeInvariant, LoopsInvariant, IdsInvariant, AccountedFor,
     RowsCounted, PTL DEF Spec

-----------------------------------------------------------------------------
(* Unless an insert has been reported failed, the rows and the pending     *)
(* logs are all the ids given out, each in its place.                      *)

GivenOut == IF nextLogId = 0 THEN 0 ELSE nextLogId - 1

Complete ==
  ~insertFailed =>
    /\ Len(rows) + Len(Pending) = GivenOut
    /\ \A i \in 1..Len(rows) : rows[i] = i

(* The table grows at its end only by the next id. *)
LEMMA NextComplete ==
  ASSUME LifeInv, Loops, IdsCounted, OrderInv, Complete, [Next]_vars
  PROVE  Complete'
<1>1. FlowStep /\ insertFailed \in BOOLEAN
  BY NextIsFlowStep DEF LifeInv, EngineTypeOK, ProcessorTypeOK
<1>2. nextLogId \in Nat /\ rows \in Seq(Nat) /\ Pending \in Seq(Nat)
      /\ Len(rows) \in Nat /\ Len(Pending) \in Nat
  BY PendingIsSeq, LenProperties DEF LifeInv, EngineTypeOK, BufferTypeOK, PersistenceTypeOK
<1>3. initialized => nextLogId > 0
  BY <1>2 DEF LifeInv, Life, UpDown, IdsPositive, Ids, NoEntry
<1>4. CASE UNCHANGED <<Pending, rows, nextLogId, insertFailed>>
  BY <1>4 DEF Complete, GivenOut
<1>5. CASE Delivery!Restart /\ nextLogId' = 1
  <2>1. Pending' = <<>> /\ rows' = <<>>
    BY <1>5 DEF Delivery!Restart, Delivery!Fresh
  <2> QED
    BY <1>5, <2>1, EmptySeq DEF Complete, GivenOut
<1>6. CASE Delivery!Accept /\ nextLogId' = nextLogId + 1
  <2>1. /\ UNCHANGED <<rows, insertFailed>> /\ initialized
        /\ Pending' = Append(Pending, nextLogId)
    BY <1>6 DEF Delivery!Accept, IdsCounted
  <2>2. Len(Pending') = Len(Pending) + 1
    BY <1>2, <2>1, AppendProperties
  <2> QED
    BY <1>2, <1>3, <1>6, <2>1, <2>2 DEF Complete, GivenOut
<1>7. CASE Delivery!Store /\ UNCHANGED nextLogId
  <2> SUFFICES ASSUME ~insertFailed PROVE Complete'
    BY <1>7 DEF Complete, Delivery!Store
  <2>1. /\ Pending # <<>> /\ rows' = Append(rows, Head(Pending))
        /\ Pending' = Tail(Pending)
    BY <1>7 DEF Delivery!Store
  <2>2. /\ Len(Pending) > 0 /\ Head(Pending) = Pending[1]
        /\ Len(Pending') = Len(Pending) - 1
    BY <1>2, <2>1, EmptySeq, HeadTailProperties
  <2>3. /\ Len(rows') = Len(rows) + 1 /\ rows'[Len(rows) + 1] = Head(Pending)
        /\ \A i \in 1..Len(rows) : rows'[i] = rows[i]
    BY <1>2, <2>1, <2>2, HeadTailProperties, AppendProperties
  <2>4. initialized /\ Len(rows) + Len(Pending) = nextLogId - 1
    <3>1. initialized
      BY <2>1 DEF OrderInv
    <3>2. nextLogId > 0 /\ Len(rows) + Len(Pending) = GivenOut
      BY <1>3, <3>1 DEF Complete
    <3> QED
      BY <1>2, <3>1, <3>2 DEF GivenOut
  <2>5. Head(Pending) = Len(rows) + 1
    <3>1. 1 \in 1..Len(Pending)
      BY <1>2, <2>2
    <3>2. Pending[1] = nextLogId - Len(Pending) + 1 - 1
      BY <2>4, <3>1 DEF OrderInv, Ordered, LastIdsGivenOut
    <3> QED
      BY <1>2, <2>2, <2>4, <3>2
  <2>6. \A i \in 1..Len(rows') : rows'[i] = i
    <3>1. \A i \in 1..Len(rows) : rows[i] = i
      BY DEF Complete
    <3> QED
      BY <1>2, <2>3, <2>5, <3>1
  <2> QED
    BY <1>2, <1>7, <2>2, <2>3, <2>4, <2>6 DEF Complete, GivenOut
<1>8. CASE Delivery!StoreFails \/ Delivery!Lose
  BY <1>8 DEF Delivery!StoreFails, Delivery!Lose, Complete
<1>9. CASE Delivery!Close /\ UNCHANGED nextLogId
  <2> SUFFICES ASSUME ~insertFailed PROVE Complete'
    BY <1>9 DEF Complete, Delivery!Close
  <2>1. Pending = <<>> /\ Pending' = <<>> /\ rows' = rows
    BY <1>9 DEF Delivery!Close
  <2> QED
    BY <1>9, <2>1 DEF Complete, GivenOut
<1> QED
  BY <1>1, <1>4, <1>5, <1>6, <1>7, <1>8, <1>9 DEF FlowStep

-----------------------------------------------------------------------------
(* How long the lock is held.                                              *)

(* A place inside, with the entry that is held there. *)
Held(place) == IF place \in {"insert", "requeue"} THEN 1 ELSE 0

(* The pending logs are those queued and the one that is held. *)
PendingCount ==
  /\ Len(queue) \in Nat
  /\ Len(Pending) = Len(queue) + IF lock = NoThread THEN 0 ELSE Held(pc[lock])

(* What the call that holds the lock has in its hands counts as pending.   *)
LEMMA PendingLength == LifeInv => PendingCount
<1> SUFFICES ASSUME LifeInv PROVE PendingCount
  OBVIOUS
<1> USE DEF LifeInv, EngineTypeOK, BufferTypeOK, ProcessorTypeOK, RuntimeTypeOK
<1>1. Len(Pending) = Len(Holding) + Len(queue)
  <2>1. Holding \in Seq(Nat) /\ queue \in Seq(Nat)
    BY DEF Holding
  <2> QED
    BY <2>1 DEF Pending
<1>2. Len(Holding) = IF lock = NoThread THEN 0 ELSE Held(pc[lock])
  BY DEF Holding, Life, EntryHeld, Held
<1> QED
  BY <1>1, <1>2, LenProperties DEF Held, PendingCount

(* A log is worth six steps. *)
LEMMA WorthOfLogs ==
  ASSUME NEW l \in Nat, NEW m \in Nat, NEW a \in Int, NEW b \in Int,
         \/ m = l /\ a < b
         \/ l = m + 1 /\ a < b + 6
  PROVE  6 * m + a < 6 * l + b
<1>1. CASE m = l /\ a < b
  BY <1>1
<1>2. CASE l = m + 1 /\ a < b + 6
  <2>1. 6 * l = 6 * m + 6
    BY <1>2
  <2>2. 6 * m \in Int
    OBVIOUS
  <2> QED
    BY <1>2, <2>1, <2>2
<1> QED
  BY <1>1, <1>2

(* The worth of a buffer that is full, and the steps a call adds. *)
LEMMA WorthOfBuffer ==
  ASSUME NEW m \in Nat, NEW c \in Nat, m <= c
  PROVE  6 * m + 5 <= 6 * c + 5 /\ 0 <= 6 * c + 5
  OBVIOUS

(* There is a last step of a call wherever it is. *)
LEMMA RankTypes ==
  ASSUME NEW place \in Inside, NEW n \in Nat
  PROVE  Rank(place, n) \in 1..9
  BY DEF Rank, Inside, Processing

(* A call that takes the lock has no more than the steps of a full buffer. *)
LEMMA InvokeBounded ==
  ASSUME LifeInv, LifeInv', BufferBounded', NEW t \in Threads, Invoke(t)
  PROVE  lock = NoThread /\ StepsLeft' <= 6 * Capacity + 5
<1>1. InvokeShape(t) /\ lock = NoThread
  BY InvokeHasShape, FreeLock DEF InvokeShape, LifeInv
<1>2. Capacity \in Nat /\ Len(queue') \in Nat /\ Len(queue') <= Capacity
  BY CapacityAssumption DEF LifeInv, EngineTypeOK, BufferTypeOK, BufferBounded
<1> DEFINE m == Len(queue')
<1> HIDE DEF m
<1>3. m \in Nat /\ m <= Capacity
  BY <1>2 DEF m
<1>4. 6 * m + 5 <= 6 * Capacity + 5 /\ 0 <= 6 * Capacity + 5
  BY <1>2, <1>3, WorthOfBuffer
<1>5. CASE lock' = NoThread
  <2>1. StepsLeft' = 0
    BY <1>5 DEF StepsLeft
  <2> QED
    BY <1>1, <1>4, <2>1
<1>6. CASE lock' # NoThread
  <2>1. lock' = t /\ pc'[t] = "dequeue" /\ processed'[t] = 0
    BY <1>1, <1>6
       DEF InvokeShape, ReturnAtOnce, StartProcessing, ProcessorStart, GoTo, LifeInv,
           EngineTypeOK, ProcessorTypeOK
  <2>2. Len(Pending)' = Len(queue')
    <3>1. PendingCount'
      BY PendingLength, PTL
    <3> QED
      BY <1>2, <1>6, <2>1, <3>1 DEF PendingCount, Held
  <2>3. Rank("dequeue", 0) = 5
    BY DEF Rank
  <2>4. StepsLeft' = 6 * m + 5
    BY <1>6, <2>1, <2>2, <2>3 DEF StepsLeft, m
  <2> QED
    BY <1>1, <1>4, <2>4
<1> QED
  BY <1>1, <1>5, <1>6

(* Every step of the call that holds the lock brings its end nearer: what  *)
(* an insert leaves to do is worth less than the log it stores.            *)
LEMMA ContinueBounded ==
  ASSUME LifeInv, LifeInv', Loops, NEW t \in Threads, Continue(t), ~ReadAnswer(t)
  PROVE  lock = t /\ StepsLeft' < StepsLeft
<1>1. /\ pc \in [Threads -> Inside \cup Outside] /\ processed \in [Threads -> Nat]
      /\ pc'[t] \in Inside \cup Outside /\ processed[t] \in Nat /\ processed'[t] \in Nat
  BY DEF LifeInv, EngineTypeOK, ProcessorTypeOK
<1>2. lock = t /\ lock # NoThread /\ pc[t] \in Inside /\ Loop(t)
  BY ContinueInside, EngineAssumption DEF LifeInv, MutualExclusion, Loops
<1>3. Len(queue) \in Nat /\ Len(queue') \in Nat /\ queue \in Seq(Nat)
  BY LenProperties DEF LifeInv, EngineTypeOK, BufferTypeOK
<1>4. StepsLeft = 6 * (Len(queue) + Held(pc[t])) + Rank(pc[t], processed[t])
  BY <1>2, PendingLength DEF StepsLeft, PendingCount
<1>5. ASSUME lock' = lock
      PROVE  StepsLeft' = 6 * (Len(queue') + Held(pc'[t])) + Rank(pc'[t], processed'[t])
  <2>1. PendingCount'
    BY PendingLength, PTL
  <2> QED
    BY <1>2, <1>5, <2>1 DEF StepsLeft, PendingCount
<1>6. CASE lock' = NoThread
  <2>1. Rank(pc[t], processed[t]) \in 1..9
    BY <1>1, <1>2, RankTypes
  <2>2. StepsLeft' = 0
    BY <1>6 DEF StepsLeft
  <2> QED
    BY <1>2, <1>3, <1>4, <2>1, <2>2 DEF Held
<1>7. ASSUME ProcessorStep(t), UNCHANGED apiVars PROVE lock' = lock
  BY <1>7 DEF apiVars
<1> DEFINE before == Rank(pc[t], processed[t])
           after  == Rank(pc'[t], processed'[t])
           l      == Len(queue) + Held(pc[t])
           m      == Len(queue') + Held(pc'[t])
<1>8. ASSUME lock' = lock, pc'[t] \in Inside,
             \/ m = l /\ after < before
             \/ l = m + 1 /\ after < before + 6
      PROVE  lock = t /\ StepsLeft' < StepsLeft
  <2>1. before \in 1..9 /\ after \in 1..9
    BY <1>1, <1>2, <1>8, RankTypes
  <2>2. l \in Nat /\ m \in Nat
    BY <1>3 DEF Held
  <2>3. StepsLeft = 6 * l + before /\ StepsLeft' = 6 * m + after
    BY <1>4, <1>5, <1>8
  <2> HIDE DEF before, after, l, m
  <2>4. 6 * m + after < 6 * l + before
    BY <1>8, <2>1, <2>2, WorthOfLogs
  <2> QED
    BY <1>2, <2>3, <2>4
<1> USE DEF GoTo, Rank, Held, Inside, Processing
<1>9. CASE TakeEntry(t) /\ UNCHANGED apiVars
  <2>1. pc[t] = "dequeue" /\ pc'[t] = "insert"
    BY <1>1, <1>9 DEF TakeEntry
  <2>2. Len(queue') = Len(queue) - 1
    BY <1>3, <1>9 DEF TakeEntry, Dequeue
  <2>3. m = l /\ before >= 5 /\ after = 4
    BY <1>3, <2>1, <2>2
  <2> QED
    BY <1>3, <1>7, <1>8, <1>9, <2>1, <2>3 DEF ProcessorStep
<1>10. CASE LoopEnds(t) /\ UNCHANGED apiVars
  <2>1. /\ pc[t] = "dequeue" /\ queue' = queue /\ processed' = processed
        /\ pc'[t] = IF processed[t] > 0 THEN "snapshot" ELSE "succeeded"
    BY <1>1, <1>10 DEF LoopEnds, DequeueEmpty, bufferVars
  <2>2. m = l /\ after < before
    BY <1>1, <1>3, <2>1
  <2>3. after \in Nat /\ before \in Nat
    BY <1>1, <2>1
  <2> QED
    BY <1>3, <1>7, <1>8, <1>10, <2>1, <2>2, <2>3 DEF ProcessorStep
<1>11. CASE StoreEntry(t) /\ UNCHANGED apiVars
  <2>1. pc[t] = "insert" /\ pc'[t] = "mark" /\ queue' = queue
    BY <1>1, <1>11 DEF StoreEntry, bufferVars
  <2>2. l = m + 1 /\ before = 4 /\ after = 9 /\ m \in Nat
    BY <1>3, <2>1
  <2> QED
    BY <1>7, <1>8, <1>11, <2>1, <2>2 DEF ProcessorStep
<1>12. CASE CountProcessed(t) /\ UNCHANGED apiVars
  <2>1. /\ pc[t] = "mark" /\ pc'[t] = "dequeue" /\ queue' = queue
        /\ processed'[t] = processed[t] + 1
    BY <1>1, <1>12 DEF CountProcessed, MarkProcessed
  <2>2. l = m /\ before = 9 /\ after = 8 /\ m \in Nat
    BY <1>1, <1>3, <2>1
  <2> QED
    BY <1>7, <1>8, <1>12, <2>1, <2>2 DEF ProcessorStep
<1>13. ASSUME NEW k \in DbFaults, StoreFails(t, k), UNCHANGED apiVars
       PROVE  lock = t /\ StepsLeft' < StepsLeft
  <2>1. pc[t] = "insert" /\ pc'[t] = "requeue" /\ queue' = queue
    BY <1>1, <1>13 DEF StoreFails, MarkError
  <2>2. l = m /\ before = 4 /\ after = 3 /\ m \in Nat
    BY <1>3, <2>1
  <2> QED
    BY <1>7, <1>8, <1>13, <2>1, <2>2 DEF ProcessorStep
<1>14. CASE GiveBack(t) /\ UNCHANGED apiVars
  <2>1. pc[t] = "requeue" /\ pc'[t] = "failed" /\ queue' = <<entry[t]>> \o queue
    BY <1>1, <1>14 DEF GiveBack, RequeueFront
  <2>2. Len(queue') = Len(queue) + 1
    <3>1. entry[t] \in Nat
      BY DEF LifeInv, EngineTypeOK, ProcessorTypeOK
    <3> QED
      BY <1>3, <2>1, <3>1
  <2>3. l = m /\ before = 3 /\ after = 2 /\ m \in Nat
    BY <1>3, <2>1, <2>2
  <2> QED
    BY <1>7, <1>8, <1>14, <2>1, <2>3 DEF ProcessorStep
<1>15. CASE GiveUp(t) /\ UNCHANGED apiVars
  <2>1. pc[t] = "requeue" /\ pc'[t] = "failed" /\ queue' = queue
    BY <1>1, <1>15 DEF GiveUp, RequeueRefused, bufferVars
  <2>2. l = m + 1 /\ before = 3 /\ after = 2 /\ m \in Nat
    BY <1>3, <2>1
  <2> QED
    BY <1>7, <1>8, <1>15, <2>1, <2>2 DEF ProcessorStep
<1>16. CASE /\ SaveMetrics(t) \/ \E k \in DbFaults : SaveMetricsFails(t, k)
            /\ UNCHANGED apiVars
  <2>1. /\ pc[t] = "snapshot" /\ pc'[t] = "succeeded" /\ queue' = queue
        /\ processed' = processed
    BY <1>1, <1>16 DEF SaveMetrics, SaveMetricsFails, MarkError, bufferVars
  <2>2. processed[t] > 0
    BY <1>2, <2>1 DEF Loop
  <2>3. l = m /\ before = 7 /\ after = 6 /\ m \in Nat
    BY <1>1, <1>3, <2>1, <2>2
  <2> QED
    BY <1>7, <1>8, <1>16, <2>1, <2>3 DEF ProcessorStep
<1>17. CASE NextBatch(t)
  <2>1. /\ pc[t] = "succeeded" /\ pc'[t] = "dequeue" /\ queue' = queue
        /\ processed[t] > 0 /\ processed'[t] = 0 /\ lock' = lock
    BY <1>1, <1>17 DEF NextBatch, ProcessorStart, bufferVars, apiVars
  <2>2. l = m /\ before = 6 /\ after = 5 /\ m \in Nat
    BY <1>1, <1>3, <2>1
  <2> QED
    BY <1>8, <2>1, <2>2
<1>18. CASE DrainEnds(t)
  <2>1. /\ \/ pc[t] = "succeeded" /\ processed[t] = 0 /\ pc'[t] = "drained"
           \/ pc[t] = "failed" /\ pc'[t] = "aborted"
        /\ queue' = queue /\ lock' = lock
    BY <1>1, <1>18 DEF DrainEnds, bufferVars
  <2>2. l = m /\ before = 2 /\ after = 1 /\ m \in Nat
    BY <1>3, <2>1
  <2> QED
    BY <1>8, <2>1, <2>2
<1>19. CASE AddLogReturns(t) \/ ProcessQueueReturns(t) \/ Teardown(t)
  BY <1>6, <1>19 DEF AddLogReturns, ProcessQueueReturns, Teardown, Return
<1> HIDE DEF GoTo, Rank, Held, Inside, Processing
<1> QED
  BY <1>9, <1>10, <1>11, <1>12, <1>13, <1>14, <1>15, <1>16, <1>17, <1>18, <1>19
     DEF Continue, ProcessorStep

(* Another caller's reading of its answer leaves the call as it is.        *)
LEMMA ReadAnswerBounded ==
  ASSUME LifeInv, NEW t \in Threads, ReadAnswer(t), lock # NoThread
  PROVE  UNCHANGED <<bufferVars, dbVars, auxVars, lock, pc[lock], StepsLeft>>
<1>1. lock \in Threads /\ pc[lock] \in Inside /\ pc[t] \notin Inside
  BY DEF LifeInv, EngineTypeOK, RuntimeTypeOK, MutualExclusion, ReadAnswer, Inside, Processing
<1>2. /\ UNCHANGED <<bufferVars, dbVars, auxVars, lock, queue, entry>>
      /\ pc'[lock] = pc[lock] /\ processed'[lock] = processed[lock]
  BY <1>1 DEF ReadAnswer, GoTo, bufferVars, LifeInv, EngineTypeOK, ProcessorTypeOK
<1>3. Pending' = Pending
  BY <1>2 DEF Pending, Holding
<1> QED
  BY <1>2, <1>3 DEF StepsLeft

(* The bound on a call, as a step of the engine keeps it. *)
CallStep ==
  IF lock = NoThread
  THEN StepsLeft' <= 6 * Capacity + 5
  ELSE \/ StepsLeft' < StepsLeft
       \/ UNCHANGED <<bufferVars, dbVars, auxVars, lock, pc[lock], StepsLeft>>

(* Every step of the engine is such a step. *)
LEMMA NextBounded ==
  ASSUME LifeInv, LifeInv', Loops, BufferBounded', Next
  PROVE  CallStep \/ UNCHANGED vars
<1>1. ASSUME NEW t \in Threads, Invoke(t) PROVE CallStep
  BY <1>1, InvokeBounded DEF CallStep
<1>2. ASSUME NEW t \in Threads, Continue(t), ~ReadAnswer(t) PROVE CallStep
  BY <1>2, ContinueBounded, EngineAssumption DEF CallStep
<1>3. ASSUME NEW t \in Threads, ReadAnswer(t) PROVE CallStep
  <2>1. CASE lock = NoThread
    <3>1. StepsLeft' = 0 /\ Capacity \in Nat
      BY <1>3, <2>1, CapacityAssumption DEF ReadAnswer, StepsLeft
    <3> QED
      BY <2>1, <3>1 DEF CallStep
  <2>2. CASE lock # NoThread
    BY <1>3, <2>2, ReadAnswerBounded DEF CallStep
  <2> QED
    BY <2>1, <2>2
<1> QED
  BY <1>1, <1>2, <1>3 DEF Next, Finished

(* A call that has the lock gives it back within a number of its own steps *)
(* that depends on the capacity alone, whatever the database does and      *)
(* however large max_items is.                                             *)
THEOREM CallsAreBounded == Spec => BoundedCalls
<1>1. LifeInv /\ LifeInv' /\ Loops /\ BufferBounded' /\ [Next]_vars
        => [CallStep]_vars
  BY NextBounded
<1> QED
  BY <1>1, LifeInvariant, LoopsInvariant, BoundedBuffer, PTL
     DEF Spec, BoundedCalls, CallStep

-----------------------------------------------------------------------------
(* What every state of the engine keeps, whoever drives it. *)
DeliveryInv == LifeInv /\ Loops /\ IdsCounted /\ OrderInv /\ Complete

(* An engine that is not up yet has delivered nothing, in order. *)
LEMMA InitDelivery ==
  ASSUME Init
  PROVE  DeliveryInv
<1>1. Pending = <<>>
  BY EmptyTypes, ConcatEmptySeq DEF Init, BufferZeroed, Pending, Holding
<1>2. OrderInv
  BY <1>1, NothingOrdered DEF Init, OrderInv
<1>3. Loops
  BY DEF Init, Loops, Loop, Inside, Processing
<1>4. IdsCounted
  BY DEF Init, IdsCounted
<1>5. Complete
  BY <1>1, EmptySeq DEF Init, BufferZeroed, Complete, GivenOut
<1> QED
  BY <1>2, <1>3, <1>4, <1>5, InitLife DEF DeliveryInv

(* Every step of the engine keeps all of it. *)
LEMMA NextDelivery == DeliveryInv /\ [Next]_vars => DeliveryInv'
  BY NextLife, NextLoops, NextIdsCounted, NextOrder, NextComplete DEF DeliveryInv

=============================================================================
