------------------------------ MODULE Cli_proofs ------------------------------
(***************************************************************************)
(* The command line, from its environment to its exit status: what a       *)
(* configuration that is accepted gives the engine, and what the two exit  *)
(* statuses and a signal mean, for every environment, any signals, any     *)
(* buffer and any faults; and how near its end is once a signal has come.  *)
(* main is one of the engine's callers, so what the engine keeps           *)
(* (DeliveryInv) it keeps here.                                            *)
(***************************************************************************)
EXTENDS Cli, EngineApi_proofs

-----------------------------------------------------------------------------
(* The configuration                                                       *)

(* The remainder that stands for unsigned arithmetic is a size_t. *)
LEMMA SizeRemainder ==
  ASSUME NEW n \in Int
  PROVE  n % SizeRange \in 0..SizeRange - 1
  BY SizeAssumption

(* strtoul's result is a size_t, whatever the variable holds: too large,   *)
(* negative, or no number at all.                                          *)
LEMMA ParsedIsSize ==
  ASSUME NEW text \in EnvText, NEW fallback \in Nat, fallback < SizeRange
  PROVE  ParseSize(text, fallback) \in 0..SizeRange - 1
<1>1. CASE ~text.number
  BY <1>1, SizeAssumption DEF ParseSize
<1>2. CASE text.number /\ (text.value >= SizeRange \/ text.value <= -SizeRange)
  BY <1>2, SizeAssumption DEF ParseSize
<1>3. CASE text.number /\ ~(text.value >= SizeRange \/ text.value <= -SizeRange)
  <2>1. text.value \in Int
    BY DEF EnvText
  <2>2. text.value % SizeRange \in 0..SizeRange - 1
    BY <2>1, SizeRemainder
  <2> QED
    BY <1>3, <2>2 DEF ParseSize
<1> QED
  BY <1>1, <1>2, <1>3

(* config_load_from_env: every environment it accepts gives a              *)
(* configuration the engine can run with, so the assumptions that the      *)
(* other modules make about capacity, threshold and batch hold.            *)
THEOREM AcceptedIsRunnable ==
  ASSUME NEW e \in Environment, Accepted(e)
  PROVE  Runnable(LoadConfig(e))
<1> DEFINE capacity  == ParseSize(e.sizes.capacity, 2048)
           threshold == ParseSize(e.sizes.threshold, 256)
           batch     == ParseSize(e.sizes.batch, 200)
           preview   == ParseSize(e.sizes.preview, 200)
<1>1. \A s \in Sizes : e.sizes[s] \in EnvText
  BY DEF Environment
<1>2. /\ e.sizes.capacity \in EnvText
      /\ e.sizes.threshold \in EnvText
      /\ e.sizes.batch \in EnvText
      /\ e.sizes.preview \in EnvText
  BY <1>1 DEF Sizes
<1>3. /\ capacity \in 0..SizeRange - 1
      /\ threshold \in 0..SizeRange - 1
      /\ batch \in 0..SizeRange - 1
      /\ preview \in 0..SizeRange - 1
  BY <1>2, ParsedIsSize, SizeAssumption
<1>4. capacity # 0
  BY DEF Accepted
<1>5. LoadConfig(e) =
        [capacity  |-> capacity,
         threshold |-> IF threshold = 0 \/ threshold > capacity
                       THEN capacity ELSE threshold,
         batch     |-> IF batch = 0 THEN 1 ELSE batch,
         preview   |-> IF preview = 0 THEN 50 ELSE preview]
  BY DEF LoadConfig
<1> HIDE DEF capacity, threshold, batch, preview
<1>6. LoadConfig(e).capacity = capacity
  BY <1>5
<1>7. LoadConfig(e).threshold \in 1..capacity
  BY <1>3, <1>4, <1>5, SizeAssumption
<1>8. LoadConfig(e).batch \in 1..SizeRange - 1
  BY <1>3, <1>5, SizeAssumption
<1>9. LoadConfig(e).preview \in 1..SizeRange - 1
  BY <1>3, <1>5, SizeAssumption
<1> QED
  BY <1>3, <1>4, <1>6, <1>7, <1>8, <1>9, SizeAssumption DEF Runnable

-----------------------------------------------------------------------------
(* The session                                                             *)

(* Every step of the session is a step of the engine, or none. *)
LEMMA SessionCallsEngine ==
  ASSUME [CliNext]_cliVars
  PROVE  [Next]_vars
<1>1. Main \in Threads /\ 0 \in MaxItems
  BY CliAssumption
<1>2. CASE Start \/ Command \/ Leave
  <2>1. Invoke(Main)
    BY <1>1, <1>2 DEF Start, Command, Leave, Invoke
  <2> QED
    BY <1>1, <2>1 DEF Next
<1>3. CASE StartFailed \/ CallGoesOn \/ Close
  <2>1. Continue(Main)
    BY <1>3 DEF StartFailed, CallGoesOn, Close, Continue
  <2> QED
    BY <1>1, <2>1 DEF Next
<1>4. CASE UNCHANGED vars
  BY <1>4
<1> QED
  BY <1>2, <1>3, <1>4
     DEF CliNext, MainStep, ReadLine, EndOfInput, TestRunning, Block, Signal, Kill, cliVars

(* A call of the loop neither opens nor closes the engine, and is never    *)
(* taken for the shutdown.                                                 *)
LEMMA CallStaysOpen ==
  ASSUME EngineTypeOK, Continue(Main), op[Main] # "shutdown",
         pc[Main] \notin {"drained", "aborted"}
  PROVE  /\ initialized' = initialized
         /\ op'[Main] # "shutdown"
         /\ pc'[Main] \notin {"drained", "aborted"}
<1>1. /\ Main \in Threads /\ pc \in [Threads -> Inside \cup Outside]
      /\ op \in [Threads -> Ops]
  BY CliAssumption DEF EngineTypeOK, ProcessorTypeOK, RuntimeTypeOK
<1>2. CASE ProcessorStep(Main) /\ UNCHANGED apiVars
  <2>1. op' = op /\ initialized' = initialized
    BY <1>2 DEF apiVars
  <2>2. pc'[Main] \notin {"drained", "aborted"}
    BY <1>1, <1>2
       DEF ProcessorStep, TakeEntry, LoopEnds, StoreEntry, StoreFails, CountProcessed,
           GiveBack, GiveUp, SaveMetrics, SaveMetricsFails, GoTo
  <2> QED
    BY <2>1, <2>2
<1>3. CASE AddLogReturns(Main) \/ ProcessQueueReturns(Main)
  BY <1>1, <1>3 DEF AddLogReturns, ProcessQueueReturns, Return, GoTo
<1>4. CASE ReadAnswer(Main)
  BY <1>1, <1>4 DEF ReadAnswer, GoTo
<1> QED
  BY <1>2, <1>3, <1>4 DEF Continue, NextBatch, DrainEnds, Teardown

(* The shutdown goes on inside the engine until the teardown. *)
LEMMA ShutdownGoesOn ==
  ASSUME EngineTypeOK, Continue(Main), op[Main] = "shutdown", pc[Main] \in Inside
  PROVE  \/ pc'[Main] = "idle" /\ ~initialized'
         \/ /\ pc'[Main] \in Inside /\ pc'[Main] # "idle"
            /\ op'[Main] = "shutdown" /\ initialized' = initialized
<1>1. /\ Main \in Threads /\ pc \in [Threads -> Inside \cup Outside]
      /\ op \in [Threads -> Ops]
  BY CliAssumption DEF EngineTypeOK, ProcessorTypeOK, RuntimeTypeOK
<1> USE DEF Inside, Processing
<1>2. CASE ProcessorStep(Main) /\ UNCHANGED apiVars
  <2>1. op' = op /\ initialized' = initialized
    BY <1>2 DEF apiVars
  <2>2. pc'[Main] \in Inside /\ pc'[Main] # "idle"
    BY <1>1, <1>2
       DEF ProcessorStep, TakeEntry, LoopEnds, StoreEntry, StoreFails, CountProcessed,
           GiveBack, GiveUp, SaveMetrics, SaveMetricsFails, GoTo
  <2> QED
    BY <2>1, <2>2
<1>3. CASE NextBatch(Main)
  <2>1. op' = op /\ initialized' = initialized
    BY <1>3 DEF NextBatch, apiVars
  <2> QED
    BY <1>1, <1>3, <2>1 DEF NextBatch, ProcessorStart, GoTo
<1>4. CASE DrainEnds(Main)
  BY <1>1, <1>4 DEF DrainEnds, GoTo
<1>5. CASE Teardown(Main)
  BY <1>1, <1>5 DEF Teardown, Return, GoTo
<1>6. ~AddLogReturns(Main) /\ ~ProcessQueueReturns(Main) /\ ~ReadAnswer(Main)
  BY DEF AddLogReturns, ProcessQueueReturns, ReadAnswer
<1> QED
  BY <1>2, <1>3, <1>4, <1>5, <1>6 DEF Continue

(* What the place of main says of the engine.                              *)
Seat ==
  /\ at = "init" => calls = 0 /\ rows = <<>> /\ ~initialized
  /\ at \in {"refused", "exit1"} => calls = 1 /\ rows = <<>> /\ ~initialized
  /\ at = "call" => op[Main] # "shutdown" /\ pc[Main] \notin {"drained", "aborted"}
  /\ at = "close" => op[Main] = "shutdown" /\ pc[Main] \in Inside
  /\ at = "exit0" => ~initialized

(* The engine runs only with an environment that was accepted. *)
Configured == initialized => Accepted(env) /\ ConninfoFits(env)

(* g_running is down once a signal has arrived, and fgets is not called    *)
(* again once a line has been handled after that.                          *)
Noticed ==
  /\ signalled => ~running
  /\ ~signalled => late = 0
  /\ at \in {"fgets", "read"} => late = 0
  /\ late \in 0..1

CliInv == DeliveryInv /\ CliTypeOK /\ Seat /\ Configured /\ Noticed

(* The engine is started, or the attempt leaves nothing. *)
LEMMA StartSeat ==
  ASSUME CliInv, Start
  PROVE  Seat' /\ Configured'
<1>1. at = "init" /\ calls = 0 /\ rows = <<>> /\ ~initialized /\ env' = env
  BY DEF Start, CliInv, Seat, controlVars
<1>2. CASE InitRuntime(Main) /\ Accepted(env) /\ ConninfoFits(env) /\ at' = "test"
  BY <1>1, <1>2 DEF Seat, Configured
<1>3. CASE (InitRejected(Main) \/ InitWithoutDatabase(Main)) /\ at' = "refused"
  <2>1. calls' = 1 /\ initialized' = initialized
    <3>1. initialized' = initialized /\ calls' = calls + 1
      BY <1>3 DEF InitRejected, InitWithoutDatabase, Call
    <3> QED
      BY <1>1, <3>1
  <2>2. rows' = <<>>
    BY <1>1, <1>3 DEF InitRejected, InitWithoutDatabase, PersistenceInitFails, dbVars
  <2> QED
    BY <1>1, <1>3, <2>1, <2>2 DEF Seat, Configured
<1> QED
  BY <1>2, <1>3 DEF Start

(* A line starts a call that is over at once, or one of the loop. *)
LEMMA CommandSeat ==
  ASSUME CliInv, Command
  PROVE  /\ at' \in {"test", "call"} /\ initialized' = initialized
         /\ at' = "call" => op'[Main] # "shutdown" /\ pc'[Main] \notin {"drained", "aborted"}
<1>1. /\ Main \in Threads /\ pc \in [Threads -> Inside \cup Outside]
      /\ op \in [Threads -> Ops]
  BY CliAssumption DEF CliInv, CliTypeOK, EngineTypeOK, ProcessorTypeOK, RuntimeTypeOK
<1>2. at' \in {"test", "call"}
  BY DEF Command
<1>3. ASSUME NEW o \in {"process", "add"}, NEW n, StartProcessing(Main, o, n)
      PROVE  op'[Main] # "shutdown" /\ pc'[Main] \notin {"drained", "aborted"}
  BY <1>1, <1>3 DEF StartProcessing, ProcessorStart, GoTo
<1>4. ASSUME NEW o \in {"metrics", "pending", "add"},
             NEW place \in {"respond", "idle", "readError"}, ReturnAtOnce(Main, o, place)
      PROVE  op'[Main] # "shutdown" /\ pc'[Main] \notin {"drained", "aborted"}
  BY <1>1, <1>4 DEF ReturnAtOnce, GoTo
<1>5. CASE ProcessQueue(Main, 0)
  BY <1>2, <1>3, <1>5 DEF ProcessQueue
<1>6. ASSUME NEW kind \in {"metrics", "pending"}, Query(Main, kind)
      PROVE  /\ initialized' = initialized
             /\ op'[Main] # "shutdown" /\ pc'[Main] \notin {"drained", "aborted"}
  BY <1>4, <1>6 DEF Query
<1>7. CASE AddLog(Main)
  BY <1>2, <1>3, <1>4, <1>7 DEF AddLog
<1>8. CASE AddLogRefused(Main)
  BY <1>2, <1>4, <1>8 DEF AddLogRefused
<1> QED
  BY <1>2, <1>5, <1>6, <1>7, <1>8 DEF Command

(* Every step of a session leaves main in a seat of its own. *)
LEMMA NextSeat ==
  ASSUME CliInv, [CliNext]_cliVars
  PROVE  Seat' /\ Configured'
<1>1. EngineTypeOK /\ Main \in Threads
  BY CliAssumption DEF CliInv, CliTypeOK
<1>2. CASE UNCHANGED cliVars
  <2>1. UNCHANGED <<at, calls, rows, initialized, op, pc, env>>
    BY <1>2 DEF cliVars, vars, apiVars, dbVars, localVars, controlVars
  <2> QED
    BY <2>1 DEF CliInv, Seat, Configured
<1>3. CASE StartFailed
  <2>1. UNCHANGED <<calls, rows, initialized, env>> /\ at = "refused" /\ at' = "exit1"
    BY <1>3 DEF StartFailed, ReadAnswer, dbVars, controlVars
  <2> QED
    BY <2>1 DEF CliInv, Seat, Configured
<1>4. CASE UNCHANGED <<vars, env>> /\ at' \in {"test", "fgets", "read", "leave", "killed"}
  <2>1. UNCHANGED <<initialized, env>>
    BY <1>4 DEF vars, apiVars
  <2> QED
    BY <1>4, <2>1 DEF CliInv, Seat, Configured
<1>5. CASE ReadLine /\ Command
  <2>1. env' = env
    BY <1>5 DEF ReadLine, controlVars
  <2> QED
    BY <1>5, <2>1, CommandSeat DEF CliInv, Seat, Configured
<1>6. CASE CallGoesOn
  <2>1. /\ at = "call" /\ Continue(Main) /\ env' = env
        /\ at' = "test" \/ at' = "call"
    BY <1>6 DEF CallGoesOn, controlVars
  <2>2. /\ initialized' = initialized /\ op'[Main] # "shutdown"
        /\ pc'[Main] \notin {"drained", "aborted"}
    BY <1>1, <2>1, CallStaysOpen DEF CliInv, Seat
  <2> QED
    BY <2>1, <2>2 DEF CliInv, Seat, Configured
<1>7. CASE Leave
  <2>1. /\ at' = "close" /\ env' = env /\ initialized' = initialized
        /\ StartProcessing(Main, "shutdown", ProcessBatchSize)
    BY <1>7 DEF Leave, Shutdown, controlVars
  <2>2. op'[Main] = "shutdown" /\ pc'[Main] = "dequeue"
    BY <1>1, <2>1 DEF StartProcessing, ProcessorStart, GoTo, EngineTypeOK,
                      ProcessorTypeOK, RuntimeTypeOK
  <2> QED
    BY <2>1, <2>2 DEF CliInv, Seat, Configured, Inside, Processing
<1>8. CASE Close
  <2>1. /\ at = "close" /\ Continue(Main) /\ env' = env
        /\ at' = IF pc'[Main] = "idle" THEN "exit0" ELSE "close"
    BY <1>8 DEF Close, controlVars
  <2>2. \/ pc'[Main] = "idle" /\ ~initialized'
        \/ /\ pc'[Main] \in Inside /\ pc'[Main] # "idle"
           /\ op'[Main] = "shutdown" /\ initialized' = initialized
    BY <1>1, <2>1, ShutdownGoesOn DEF CliInv, Seat
  <2> QED
    BY <2>1, <2>2 DEF CliInv, Seat, Configured
<1>9. ASSUME NEW s \in Signals, Signal(s)
      PROVE  Seat' /\ Configured'
  <2>1. UNCHANGED <<calls, rows, initialized, op, pc, env>>
        /\ (at' = at \/ at' = "leave")
    BY <1>9 DEF Signal, vars, apiVars, dbVars, localVars
  <2> QED
    BY <2>1 DEF CliInv, Seat, Configured
<1>10. ASSUME NEW s \in Signals, Kill(s)
       PROVE  Seat' /\ Configured'
  BY <1>4, <1>10 DEF Kill, controlVars
<1>11. CASE TestRunning \/ Block \/ EndOfInput \/ (ReadLine /\ ~Command)
  BY <1>4, <1>11 DEF TestRunning, Block, EndOfInput, ReadLine, controlVars
<1> QED
  BY <1>2, <1>3, <1>5, <1>6, <1>7, <1>8, <1>9, <1>10, <1>11, StartSeat
     DEF CliNext, MainStep

(* A line is waited for only while no signal has been noticed. *)
LEMMA NextNoticed ==
  ASSUME CliInv, [CliNext]_cliVars
  PROVE  Noticed'
<1>1. Noticed /\ late \in 0..EnoughLate
  BY DEF CliInv, CliTypeOK
<1>2. CASE /\ UNCHANGED <<signalled, running, late>>
           /\ at' \in {"fgets", "read"} => at \in {"fgets", "read"} \/ running
  BY <1>1, <1>2 DEF Noticed
<1>3. CASE ReadLine
  <2>1. late = 0 /\ at' \notin {"fgets", "read"} /\ UNCHANGED <<signalled, running>>
    BY <1>1, <1>3 DEF ReadLine, Command, Noticed, controlVars
  <2>2. late' = IF signalled THEN 1 ELSE 0
    BY <1>3, <2>1 DEF ReadLine, EnoughLate
  <2> QED
    BY <1>1, <2>1, <2>2 DEF Noticed
<1>4. ASSUME NEW s \in Signals, Signal(s) PROVE Noticed'
  BY <1>1, <1>4 DEF Signal, Noticed
<1>5. CASE UNCHANGED cliVars \/ MainStep \/ EndOfInput \/ \E s \in Signals : Kill(s)
  BY <1>2, <1>5 DEF cliVars, controlVars, MainStep, Start, StartFailed, TestRunning, Block,
                    CallGoesOn, Leave, Close, EndOfInput, Kill
<1> QED
  BY <1>3, <1>4, <1>5 DEF CliNext

(* main is at one of its places, and its variables keep their types. *)
LEMMA NextCliTypes ==
  ASSUME CliInv, [CliNext]_cliVars, EngineTypeOK', Noticed'
  PROVE  CliTypeOK'
<1>1. /\ running' \in BOOLEAN /\ restarts' \in BOOLEAN /\ caught' \subseteq Signals
      /\ env' \in Environments /\ signalled' \in BOOLEAN
  BY DEF CliInv, CliTypeOK, CliNext, MainStep, Start, StartFailed, TestRunning, Block,
         CallGoesOn, Leave, Close, ReadLine, EndOfInput, Signal, Kill, cliVars, controlVars
<1>2. at' \in {"init", "refused", "test", "fgets", "read", "call", "leave",
               "close", "exit0", "exit1", "killed"}
  BY DEF CliInv, CliTypeOK, CliNext, MainStep, Start, StartFailed, TestRunning, Block,
         CallGoesOn, Leave, Close, ReadLine, Command, EndOfInput, Signal, Kill, cliVars
<1>3. late' \in 0..EnoughLate
  BY DEF Noticed, EnoughLate
<1> QED
  BY <1>1, <1>2, <1>3 DEF CliTypeOK

(* The inductive invariant holds of every session. *)
LEMMA SessionInvariant == CliSpec => []CliInv
<1>1. CliInit => CliInv
  <2> SUFFICES ASSUME CliInit PROVE CliInv
    OBVIOUS
  <2>1. DeliveryInv /\ EngineTypeOK
    BY InitDelivery DEF CliInit, DeliveryInv, LifeInv
  <2>2. CliTypeOK
    <3>1. running \in BOOLEAN /\ signalled \in BOOLEAN
      BY DEF CliInit
    <3>2. late \in 0..EnoughLate
      BY DEF CliInit, EnoughLate
    <3> QED
      BY <2>1, <3>1, <3>2 DEF CliInit, CliTypeOK
  <2>3. Seat /\ Configured
    BY DEF CliInit, Init, Seat, Configured
  <2>4. Noticed
    BY DEF CliInit, Noticed
  <2> QED
    BY <2>1, <2>2, <2>3, <2>4 DEF CliInv
<1>2. CliInv /\ [CliNext]_cliVars => CliInv'
  <2> SUFFICES ASSUME CliInv, [CliNext]_cliVars PROVE CliInv'
    OBVIOUS
  <2>1. DeliveryInv' /\ EngineTypeOK'
    BY SessionCallsEngine, NextDelivery DEF CliInv, DeliveryInv, LifeInv
  <2> QED
    BY <2>1, NextSeat, NextNoticed, NextCliTypes DEF CliInv
<1> QED
  BY <1>1, <1>2, PTL DEF CliSpec

(* main is always at one of its places, and the engine under it keeps its  *)
(* types.                                                                  *)
THEOREM SessionTypes == CliSpec => []CliTypeOK
<1>1. CliInv => CliTypeOK
  BY DEF CliInv
<1> QED
  BY <1>1, SessionInvariant, PTL

(* After SIGINT or SIGTERM at most one more line is handled, under either  *)
(* semantics of signal(): the one fgets was called for before the signal,  *)
(* whether it held the line already or still had to wait for it.           *)
THEOREM OneLineAfterSignal == CliSpec => []OneMoreLine
<1>1. CliInv => OneMoreLine
  BY DEF CliInv, Noticed, OneMoreLine
<1> QED
  BY <1>1, SessionInvariant, PTL

(* Whenever the engine is up it runs with a configuration that was         *)
(* accepted, and so with sizes that it can work with, and on a connection  *)
(* string that was not cut.                                                *)
THEOREM RunsConfigured ==
  CliSpec => [](initialized => Runnable(LoadConfig(env)) /\ ConninfoFits(env))
<1>1. CliInv => (initialized => Runnable(LoadConfig(env)) /\ ConninfoFits(env))
  BY AcceptedIsRunnable, CliAssumption DEF CliInv, Configured, CliTypeOK
<1> QED
  BY <1>1, SessionInvariant, PTL

(* Status 0 means that the runtime is down and, unless an insert has been  *)
(* reported failed, that the table holds every accepted log, once and in   *)
(* order; status 1, that nothing was done and nothing is left.             *)
THEOREM StatusTells == CliSpec => []ExitStatusTells
<1>1. CliInv => ExitStatusTells
  <2> SUFFICES ASSUME CliInv PROVE ExitStatusTells
    OBVIOUS
  <2> USE DEF CliInv, DeliveryInv
  <2>1. at \in {"exit0", "exit1"} => ~initialized /\ ~up /\ conn = "none" /\ queue = <<>>
    BY DEF Seat, LifeInv, Life, UpDown
  <2>2. at = "exit1" => calls = 1 /\ rows = <<>>
    BY DEF Seat
  <2>3. ASSUME ~initialized, ~insertFailed
        PROVE  rows = [i \in 1..nextLogId - 1 |-> i]
    <3>1. rows \in Seq(Nat) /\ nextLogId \in Nat
      BY DEF LifeInv, EngineTypeOK, BufferTypeOK, PersistenceTypeOK
    <3>2. Pending = <<>>
      BY <2>3 DEF OrderInv
    <3>3. Len(rows) + Len(Pending) = GivenOut /\ \A i \in 1..Len(rows) : rows[i] = i
      BY <2>3 DEF Complete
    <3>4. Len(rows) = GivenOut
      BY <3>1, <3>2, <3>3
    <3>5. rows = [i \in 1..Len(rows) |-> i]
      BY <3>1, <3>3
    <3>6. 1..Len(rows) = 1..nextLogId - 1
      BY <3>1, <3>4 DEF GivenOut
    <3> QED
      BY <3>5, <3>6
  <2> QED
    BY <2>1, <2>2, <2>3 DEF ExitStatusTells
<1> QED
  BY <1>1, SessionInvariant, PTL

-----------------------------------------------------------------------------
(* How far the end of the session is, once a signal has come.              *)

(* As long as a call may take. *)
Drain == 6 * Capacity + 5

(* The call that runs is within it. *)
Bounds == BufferBounded /\ StepsLeft <= Drain

(* A number that can be compared. *)
StepsCounted == StepsLeft \in Nat

(* How many steps are left is a number. *)
LEMMA StepsLeftNat == LifeInv => StepsCounted
<1> SUFFICES ASSUME LifeInv PROVE StepsLeft \in Nat
  BY DEF StepsCounted
<1>1. CASE lock = NoThread
  BY <1>1 DEF StepsLeft
<1>2. CASE lock # NoThread
  <2>1. lock \in Threads /\ pc[lock] \in Inside /\ processed[lock] \in Nat
    BY <1>2 DEF LifeInv, EngineTypeOK, ProcessorTypeOK, RuntimeTypeOK, MutualExclusion
  <2>2. Rank(pc[lock], processed[lock]) \in 1..9
    BY <2>1, RankTypes
  <2>3. Len(Pending) \in Nat
    BY PendingIsSeq, LenProperties
  <2> QED
    BY <1>2, <2>2, <2>3 DEF StepsLeft
<1> QED
  BY <1>1, <1>2

(* A call stays within the bound that its beginning sets. *)
LEMMA NextBounds ==
  ASSUME DeliveryInv, DeliveryInv', Bounds, [Next]_vars
  PROVE  Bounds'
<1>1. BufferBounded'
  BY NextIsBufferStep, BufferStepBounded DEF DeliveryInv, LifeInv, EngineTypeOK, Bounds
<1>2. StepsLeft' <= Drain
  <2>1. CASE UNCHANGED vars
    <3>1. UNCHANGED StepsLeft
      BY <2>1 DEF vars, bufferVars, localVars, apiVars, StepsLeft, Pending, Holding
    <3> QED
      BY <3>1 DEF Bounds
  <2>2. CASE CallStep
    <3>1. StepsLeft \in Nat /\ StepsLeft' \in Nat /\ Drain \in Nat
      <4>1. StepsCounted'
        BY StepsLeftNat, PTL DEF DeliveryInv
      <4> QED
        BY <4>1, StepsLeftNat, CapacityAssumption DEF DeliveryInv, Drain, StepsCounted
    <3> QED
      BY <2>2, <3>1 DEF CallStep, Bounds, Drain
  <2> QED
    BY <1>1, <2>1, <2>2, NextBounded DEF DeliveryInv
<1> QED
  BY <1>1, <1>2 DEF Bounds

(* So it is in every state of a session. *)
LEMMA SessionBounds == CliSpec => []Bounds
<1>1. CliInit => Bounds
  <2> SUFFICES ASSUME CliInit PROVE Bounds
    OBVIOUS
  <2>1. BufferBounded
    BY EmptyTypes, CapacityAssumption
       DEF CliInit, Init, BufferZeroed, ZeroMetrics, BufferBounded
  <2>2. StepsLeft = 0 /\ Capacity \in Nat
    BY CapacityAssumption DEF CliInit, Init, StepsLeft
  <2> QED
    BY <2>1, <2>2 DEF Bounds, Drain
<1>2. CliInv /\ CliInv' /\ Bounds /\ [CliNext]_cliVars => Bounds'
  BY NextBounds, SessionCallsEngine DEF CliInv
<1> QED
  BY <1>1, <1>2, SessionInvariant, PTL DEF CliSpec

(* What SessionLeft is where main is, in terms of the longest call. *)
LEMMA SessionLeftIs ==
  SessionLeft =
    CASE Over           -> 0
      [] at = "refused" -> 1
      [] at = "close"   -> StepsLeft
      [] at = "leave"   -> Drain + 1
      [] at = "test"    -> Drain + 2
      [] at = "init"    -> Drain + 3
      [] at = "call"    -> Drain + 3 + StepsLeft
      [] at = "read"    -> 2 * Drain + 4
      [] at = "fgets"   -> 2 * Drain + 5
  BY DEF SessionLeft, Drain

(* A step of main brings the end nearer: with g_running down the loop has  *)
(* no way back to another line.                                            *)
LEMMA MainWindsDown ==
  ASSUME CliInv, CliInv', Bounds, Bounds', signalled,
         MainStep \/ ReadLine \/ EndOfInput
  PROVE  SessionLeft' < SessionLeft
<1>1. /\ StepsLeft \in Nat /\ StepsLeft' \in Nat /\ Drain \in Nat
      /\ StepsLeft' <= Drain
  <2>1. StepsCounted'
    BY StepsLeftNat, PTL DEF CliInv, DeliveryInv
  <2>2. Drain \in Nat
    BY CapacityAssumption DEF Drain
  <2> QED
    BY <2>1, <2>2, StepsLeftNat DEF CliInv, DeliveryInv, Bounds, StepsCounted
<1>2. Main \in Threads /\ LifeInv /\ LifeInv' /\ Loops
  BY CliAssumption DEF CliInv, DeliveryInv
<1> DEFINE n == SessionLeft
           m == SessionLeft'
<1>3. n = CASE Over           -> 0
            [] at = "refused" -> 1
            [] at = "close"   -> StepsLeft
            [] at = "leave"   -> Drain + 1
            [] at = "test"    -> Drain + 2
            [] at = "init"    -> Drain + 3
            [] at = "call"    -> Drain + 3 + StepsLeft
            [] at = "read"    -> 2 * Drain + 4
            [] at = "fgets"   -> 2 * Drain + 5
  BY SessionLeftIs
<1>4. m = CASE Over'           -> 0
            [] at' = "refused" -> 1
            [] at' = "close"   -> StepsLeft'
            [] at' = "leave"   -> Drain + 1
            [] at' = "test"    -> Drain + 2
            [] at' = "init"    -> Drain + 3
            [] at' = "call"    -> Drain + 3 + StepsLeft'
            [] at' = "read"    -> 2 * Drain + 4
            [] at' = "fgets"   -> 2 * Drain + 5
  BY DEF SessionLeft, Drain
<1> USE DEF Over
<1> HIDE DEF n, m
<1>5. ASSUME Continue(Main), pc'[Main] # "idle" \/ pc[Main] \in Inside
      PROVE  StepsLeft' < StepsLeft
  <2>1. ~ReadAnswer(Main)
    BY <1>2, <1>5 DEF ReadAnswer, GoTo, Inside, Processing, LifeInv, EngineTypeOK,
                      ProcessorTypeOK
  <2> QED
    BY <1>2, <1>5, <2>1, ContinueBounded
<1>6. CASE Start
  <2>1. at = "init" /\ at' \in {"test", "refused"}
    BY <1>6 DEF Start
  <2> QED
    BY <1>1, <1>3, <1>4, <2>1 DEF n, m
<1>7. CASE StartFailed
  <2>1. at = "refused" /\ at' = "exit1"
    BY <1>7 DEF StartFailed
  <2> QED
    BY <1>3, <1>4, <2>1 DEF n, m
<1>8. CASE TestRunning
  <2>1. at = "test" /\ at' = "leave"
    BY <1>8 DEF TestRunning, CliInv, Noticed
  <2> QED
    BY <1>1, <1>3, <1>4, <2>1 DEF n, m
<1>9. CASE CallGoesOn
  <2>1. /\ at = "call" /\ Continue(Main)
        /\ at' = IF pc'[Main] = "idle" THEN "test" ELSE "call"
    BY <1>9 DEF CallGoesOn
  <2>2. CASE pc'[Main] = "idle"
    BY <1>1, <1>3, <1>4, <2>1, <2>2 DEF n, m
  <2>3. CASE pc'[Main] # "idle"
    <3>1. n = Drain + 3 + StepsLeft /\ m = Drain + 3 + StepsLeft'
      BY <1>3, <1>4, <2>1, <2>3
    <3> QED
      BY <1>1, <1>5, <2>1, <2>3, <3>1 DEF n, m
  <2> QED
    BY <2>2, <2>3
<1>10. CASE Leave
  <2>1. at = "leave" /\ at' = "close"
    BY <1>10 DEF Leave
  <2> QED
    BY <1>1, <1>3, <1>4, <2>1 DEF n, m
<1>11. CASE Close
  <2>1. /\ at = "close" /\ Continue(Main)
        /\ at' = IF pc'[Main] = "idle" THEN "exit0" ELSE "close"
    BY <1>11 DEF Close
  <2>2. StepsLeft' < StepsLeft
    BY <1>5, <2>1 DEF CliInv, Seat
  <2> QED
    BY <1>1, <1>3, <1>4, <2>1, <2>2 DEF n, m
<1>12. CASE ReadLine \/ EndOfInput
  <2>1. at \in {"fgets", "read"} /\ at' \in {"test", "leave", "call"}
    BY <1>12 DEF ReadLine, Command, EndOfInput
  <2> QED
    BY <1>1, <1>3, <1>4, <2>1 DEF n, m
<1>13. CASE Block
  <2>1. at = "fgets" /\ at' = "read"
    BY <1>13 DEF Block
  <2> QED
    BY <1>1, <1>3, <1>4, <2>1 DEF n, m
<1> QED
  BY <1>6, <1>7, <1>8, <1>9, <1>10, <1>11, <1>12, <1>13 DEF MainStep

(* A further signal kills the process, ends the read, or shows nothing.    *)
LEMMA SignalWindsDown ==
  ASSUME CliInv, NEW s \in Signals, Signal(s) \/ Kill(s)
  PROVE  SessionLeft' < SessionLeft \/ UNCHANGED <<vars, at>>
<1>1. StepsLeft \in Nat /\ Drain \in Nat
  BY StepsLeftNat, CapacityAssumption DEF CliInv, DeliveryInv, Drain, StepsCounted
<1>2. CASE Kill(s)
  <2>1. ~Over /\ at' = "killed"
    BY <1>2 DEF Kill
  <2>2. SessionLeft' = 0
    BY <2>1 DEF SessionLeft, Over
  <2>3. SessionLeft > 0
    <3>1. at = "close" => StepsLeft > 0
      <4> SUFFICES ASSUME at = "close" PROVE StepsLeft > 0
        OBVIOUS
      <4>1. lock = Main /\ pc[lock] \in Inside /\ processed[lock] \in Nat /\ lock # NoThread
        BY CliAssumption, EngineAssumption
           DEF CliInv, Seat, DeliveryInv, LifeInv, MutualExclusion, EngineTypeOK,
               ProcessorTypeOK
      <4>2. Rank(pc[lock], processed[lock]) \in 1..9
        BY <4>1, RankTypes
      <4>3. Len(Pending) \in Nat
        BY PendingIsSeq, LenProperties DEF CliInv, DeliveryInv
      <4> QED
        BY <4>1, <4>2, <4>3 DEF StepsLeft
    <3> QED
      BY <1>1, <2>1, <3>1, SessionLeftIs DEF CliInv, CliTypeOK, Over
  <2> QED
    BY <2>2, <2>3
<1>3. CASE Signal(s)
  <2>1. UNCHANGED vars /\ at' = IF at = "read" /\ ~restarts THEN "leave" ELSE at
    BY <1>3 DEF Signal
  <2>2. CASE at = "read" /\ at' = "leave"
    <3>1. SessionLeft = 2 * Drain + 4 /\ SessionLeft' = Drain + 1
      BY <2>2 DEF SessionLeft, Drain, Over
    <3> QED
      BY <1>1, <3>1
  <2> QED
    BY <2>1, <2>2
<1> QED
  BY <1>2, <1>3

(* No farther from the end than two drains and main's own steps. *)
Near == SessionLeft <= 12 * Capacity + 15

(* Every state of a session is as near. *)
LEMMA SessionIsNear == CliInv /\ Bounds => Near
<1> SUFFICES ASSUME CliInv, Bounds PROVE Near
  OBVIOUS
<1>1. StepsLeft \in Nat /\ StepsLeft <= Drain /\ Drain \in Nat
      /\ 2 * Drain + 5 = 12 * Capacity + 15
  BY StepsLeftNat, CapacityAssumption DEF CliInv, DeliveryInv, Bounds, Drain, StepsCounted
<1>2. SessionLeft <= 2 * Drain + 5
  BY <1>1, SessionLeftIs DEF CliInv, CliTypeOK, Over
<1> QED
  BY <1>1, <1>2 DEF Near

(* A step that keeps the session near and, after a signal, brings the end  *)
(* nearer.                                                                 *)
WindStep ==
  /\ SessionLeft' <= 12 * Capacity + 15
  /\ signalled => SessionLeft' < SessionLeft \/ UNCHANGED <<vars, at>>

(* From the first signal on the end of the session comes nearer with every *)
(* step, and it never was further away than the capacity allows.           *)
THEOREM SessionWindsDown == CliSpec => WindsDown
<1>1. CliInv /\ CliInv' /\ Bounds /\ Bounds' /\ [CliNext]_cliVars => [WindStep]_cliVars
  <2> SUFFICES ASSUME CliInv, CliInv', Bounds, Bounds', CliNext
               PROVE  WindStep \/ UNCHANGED cliVars
    OBVIOUS
  <2>1. Near'
    BY SessionIsNear, PTL
  <2>2. CASE signalled
    BY <2>1, <2>2, MainWindsDown, SignalWindsDown DEF CliNext, WindStep, Near
  <2>3. CASE ~signalled
    BY <2>1, <2>3 DEF WindStep, Near
  <2> QED
    BY <2>2, <2>3
<1> QED
  BY <1>1, SessionInvariant, SessionBounds, PTL DEF CliSpec, WindsDown, WindStep

=============================================================================
