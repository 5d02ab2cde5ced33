--------------------------------- MODULE Cli ---------------------------------
(***************************************************************************)
(* The command line, src/src/main.c: one thread that configures the engine *)
(* from its environment, reads lines and calls the runtime, and a signal   *)
(* handler that clears g_running between any two of its steps.             *)
(*                                                                         *)
(* A line is what one fgets returns; one longer than the buffer arrives as *)
(* several.  fgets takes it from the buffer of stdin when it can, and only *)
(* otherwise blocks in a read; between the test of g_running and that read *)
(* a signal wakes nothing.  What signal() does to the read it interrupts depends on the C *)
(* library: BSD semantics (macOS, musl, glibc by default) restart the read *)
(* and keep the handler; System V semantics (glibc without its default     *)
(* feature macros, as under -std=c11) let fgets return NULL and reset the  *)
(* handler, so the next signal of that kind kills the process.             *)
(***************************************************************************)
EXTENDS EngineApi, Config

CONSTANTS
  Main,                 \* the thread
  Signals,              \* SIGINT and SIGTERM
  Environments          \* the environments a run tries

(* main processes with max_items 0, the default batch. *)
ASSUME CliAssumption ==
  /\ Threads = {Main}
  /\ MaxCalls > 1
  /\ 0 \in MaxItems
  /\ Environments \subseteq Environment

VARIABLES
  at,                   \* where main is
  running,              \* g_running
  restarts,             \* BSD semantics
  caught,               \* the signals whose handler is installed
  env,                  \* the environment
  signalled,            \* auxiliary: a handled signal has arrived
  late                  \* auxiliary: the lines handled after that, up to EnoughLate

controlVars == <<running, restarts, caught, env, signalled>>
cliVars == <<vars, at, late, controlVars>>

(* Bound: late is not counted further. *)
EnoughLate == 2

Over == at \in {"exit0", "exit1", "killed"}

CliTypeOK ==
  /\ EngineTypeOK
  /\ at \in {"init", "refused", "test", "fgets", "read", "call", "leave",
             "close", "exit0", "exit1", "killed"}
  /\ running \in BOOLEAN /\ restarts \in BOOLEAN
  /\ caught \subseteq Signals
  /\ env \in Environments
  /\ signalled \in BOOLEAN
  /\ late \in 0..EnoughLate

CliInit ==
  /\ Init
  /\ at = "init"
  /\ running = TRUE /\ restarts \in BOOLEAN /\ caught = Signals
  /\ env \in Environments
  /\ signalled = FALSE /\ late = 0

-----------------------------------------------------------------------------
(* engine_init with this environment. *)
Start ==
  /\ at = "init"
  /\ \/ /\ Accepted(env) /\ ConninfoFits(env)
        /\ InitRuntime(Main)
        /\ at' = "test"
     \/ /\ ~Accepted(env)
        /\ InitRejected(Main)
        /\ at' = "refused"
     \/ /\ Accepted(env)
        /\ InitWithoutDatabase(Main)
        /\ at' = "refused"
  /\ UNCHANGED <<controlVars, late>>

(* main prints engine_last_error and returns 1. *)
StartFailed ==
  /\ at = "refused"
  /\ ReadAnswer(Main)
  /\ at' = "exit1"
  /\ UNCHANGED <<controlVars, late>>

(* Mutant of TestRunning: the loop only looks at fgets. *)
TestNothing ==
  /\ at = "test"
  /\ at' = "fgets"
  /\ UNCHANGED <<vars, controlVars, late>>

(* The loop condition up to the call of fgets. *)
TestRunning ==
  /\ at = "test"
  /\ at' = IF running THEN "fgets" ELSE "leave"
  /\ UNCHANGED <<vars, controlVars, late>>

(* fgets holds no line and blocks in a read. *)
Block ==
  /\ at = "fgets"
  /\ at' = "read"
  /\ UNCHANGED <<vars, controlVars, late>>

(* A line that needs the engine; the last call is kept for the shutdown.   *)
(* The message main passes is never empty.                                 *)
Command ==
  /\ calls < MaxCalls - 1
  /\ \/ ProcessQueue(Main, 0)
     \/ \E kind \in {"metrics", "pending"} : Query(Main, kind)
     \/ AddLog(Main)
     \/ AddLogRefused(Main) /\ metrics' # metrics
  /\ at' = IF pc'[Main] = "idle" THEN "test" ELSE "call"

(* fgets returns a line, one it held or one that was waited for: blank or  *)
(* without a message, "quit", or one that needs the engine.                *)
ReadLine ==
  /\ at \in {"fgets", "read"}
  /\ \/ at' = "test" /\ UNCHANGED vars
     \/ at' = "leave" /\ UNCHANGED vars
     \/ Command
  /\ late' = IF signalled /\ late < EnoughLate THEN late + 1 ELSE late
  /\ UNCHANGED controlVars

(* fgets returns NULL at the end of the input. *)
EndOfInput ==
  /\ at \in {"fgets", "read"}
  /\ at' = "leave"
  /\ UNCHANGED <<vars, controlVars, late>>

(* The call goes on; at its end main prints the answer or the error. *)
CallGoesOn ==
  /\ at = "call"
  /\ Continue(Main)
  /\ at' = IF pc'[Main] = "idle" THEN "test" ELSE "call"
  /\ UNCHANGED <<controlVars, late>>

(* engine_shutdown; it returns 1, and so main returns 0. *)
Leave ==
  /\ at = "leave"
  /\ Shutdown(Main)
  /\ at' = "close"
  /\ UNCHANGED <<controlVars, late>>

Close ==
  /\ at = "close"
  /\ Continue(Main)
  /\ at' = IF pc'[Main] = "idle" THEN "exit0" ELSE "close"
  /\ UNCHANGED <<controlVars, late>>

(* Mutant of Signal: the handler does not clear g_running. *)
SignalIgnored(s) ==
  /\ ~Over
  /\ s \in caught
  /\ signalled' = TRUE
  /\ caught' = IF restarts THEN caught ELSE caught \ {s}
  /\ UNCHANGED <<vars, at, late, running, restarts, env>>

(* signal_handler, between two steps of main or during them.  Only a read  *)
(* that already blocks is interrupted, and only if it does not restart.    *)
Signal(s) ==
  /\ ~Over
  /\ s \in caught
  /\ running' = FALSE
  /\ signalled' = TRUE
  /\ caught' = IF restarts THEN caught ELSE caught \ {s}
  /\ at' = IF at = "read" /\ ~restarts THEN "leave" ELSE at
  /\ UNCHANGED <<vars, late, restarts, env>>

(* The default action of a signal whose handler was reset. *)
Kill(s) ==
  /\ ~Over
  /\ s \notin caught
  /\ at' = "killed"
  /\ UNCHANGED <<vars, late, controlVars>>

MainStep ==
  Start \/ StartFailed \/ TestRunning \/ Block \/ CallGoesOn \/ Leave \/ Close

CliNext ==
  \/ MainStep
  \/ ReadLine
  \/ EndOfInput
  \/ \E s \in Signals : Signal(s) \/ Kill(s)
  \/ Over /\ UNCHANGED cliVars

(* main is scheduled and its database requests return; a read may block    *)
(* for ever: nobody has to type a line, close the input or send a signal.  *)
CliSpec == CliInit /\ [][CliNext]_cliVars /\ WF_cliVars(MainStep)

-----------------------------------------------------------------------------
(* Every way the environment is spelled that config_load_from_env accepts  *)
(* gives the engine this run is about, with the limits it needs, and it    *)
(* never runs on a connection string that was cut.                         *)
EnvironmentFits ==
  initialized =>
    /\ ConninfoFits(env)
    /\ Runnable(LoadConfig(env))
    /\ LoadConfig(env).capacity = Capacity
    /\ LoadConfig(env).threshold = AutoProcessThreshold
    /\ LoadConfig(env).batch = ProcessBatchSize

(* "Shutdown complete." and status 0 mean that the runtime is down and,    *)
(* unless an insert was reported failed, that every log it accepted is in  *)
(* the table, once and in order, however the loop was left; status 1 means *)
(* that no line was read and nothing is left of the attempt.               *)
ExitStatusTells ==
  /\ at = "exit0" =>
       /\ ~initialized /\ conn = "none" /\ queue = <<>>
       /\ ~insertFailed => rows = [i \in 1..nextLogId - 1 |-> i]
  /\ at = "exit1" =>
       calls = 1 /\ ~up /\ conn = "none" /\ rows = <<>>

(* After a signal main handles at most one line: the one fgets was called  *)
(* for before the signal came.                                             *)
OneMoreLine == late <= 1

(* How many more steps main can make after a signal, from where it is: a   *)
(* call to its end, one more look at g_running, and the shutdown.          *)
SessionLeft ==
  LET drain == 6 * Capacity + 5     \* the longest call
  IN  CASE Over           -> 0
        [] at = "refused" -> 1
        [] at = "close"   -> StepsLeft
        [] at = "leave"   -> drain + 1
        [] at = "test"    -> drain + 2
        [] at = "init"    -> drain + 3
        [] at = "call"    -> drain + 3 + StepsLeft
        [] at = "read"    -> 2 * drain + 4
        [] at = "fgets"   -> 2 * drain + 5

(* Once a signal has arrived every step of main brings the end of the      *)
(* session nearer, however many lines are waiting, and it is never further *)
(* than a bound that depends on the capacity alone: main has no way back.  *)
WindsDown ==
  [][/\ SessionLeft' <= 12 * Capacity + 15
     /\ signalled => SessionLeft' < SessionLeft \/ UNCHANGED <<vars, at>>]_cliVars

(* A signal ends the session, in the middle of a batch, a failed call or   *)
(* the start, whatever is typed afterwards, unless main stays blocked in a *)
(* read for ever: the signal does not wake one that restarts, nor one that *)
(* begins after the signal because g_running was tested before it.         *)
SignalEndsSession == []<>(at # "read") => (signalled ~> Over)

=============================================================================
