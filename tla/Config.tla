------------------------------- MODULE Config -------------------------------
(***************************************************************************)
(* The configuration read from the environment, src/src/utils/config.c.    *)
(*                                                                         *)
(* The text of a variable is what strtoul makes of it: a number, or no     *)
(* number (the variable is unset, empty, or not wholly one).  The engine   *)
(* depends on the four sizes and on the length of the connection string;   *)
(* the ports and the log level are left out.                               *)
(***************************************************************************)
EXTENDS Integers

CONSTANT SizeRange      \* 2^64: how many values a size_t has

(* The defaults fit in a size_t. *)
ASSUME SizeAssumption == SizeRange \in Nat /\ SizeRange > 2048

NoNumber == [number |-> FALSE, value |-> 0]
Number(n) == [number |-> TRUE, value |-> n]
EnvText == [number : BOOLEAN, value : Int]

Sizes == {"capacity", "threshold", "batch", "preview"}
DbFields == {"host", "name", "user", "password"}

(* sizes: the texts of BUFFER_CAPACITY, AUTO_PROCESS_THRESHOLD,            *)
(* PROCESS_BATCH_SIZE and PENDING_PREVIEW_LIMIT; lengths: those of the     *)
(* database fields; digits: how many the port and the timeout print.       *)
Environment ==
  [sizes : [Sizes -> EnvText], lengths : [DbFields -> Nat], digits : Nat]

-----------------------------------------------------------------------------
(* parse_size_env: strtoul stops at ULONG_MAX, and negates a number with a *)
(* minus sign in unsigned arithmetic.                                      *)
ParseSize(text, fallback) ==
  IF ~text.number THEN fallback
  ELSE IF text.value >= SizeRange \/ text.value <= -SizeRange
       THEN SizeRange - 1
       ELSE text.value % SizeRange

(* config_load_from_env refuses a capacity of 0, ... *)
Accepted(env) == ParseSize(env.sizes.capacity, 2048) # 0

(* Mutant of LoadConfig: a threshold above the capacity is kept. *)
LoadConfigUnclipped(env) ==
  [capacity  |-> ParseSize(env.sizes.capacity, 2048),
   threshold |-> ParseSize(env.sizes.threshold, 256),
   batch     |-> ParseSize(env.sizes.batch, 200),
   preview   |-> ParseSize(env.sizes.preview, 200)]

(* ... clips the threshold, and gives the two other sizes a minimum.       *)
LoadConfig(env) ==
  LET capacity  == ParseSize(env.sizes.capacity, 2048)
      threshold == ParseSize(env.sizes.threshold, 256)
      batch     == ParseSize(env.sizes.batch, 200)
      preview   == ParseSize(env.sizes.preview, 200)
  IN  [capacity  |-> capacity,
       threshold |-> IF threshold = 0 \/ threshold > capacity
                     THEN capacity ELSE threshold,
       batch     |-> IF batch = 0 THEN 1 ELSE batch,
       preview   |-> IF preview = 0 THEN 50 ELSE preview]

(* config_build_conninfo: each field was cut to 127 bytes when it was      *)
(* copied; 52 bytes of keywords join them in a buffer of 512.              *)
ConninfoFits(env) ==
  LET Kept(f) == IF env.lengths[f] < 128 THEN env.lengths[f] ELSE 127
  IN  52 + env.digits + Kept("host") + Kept("name") + Kept("user")
        + Kept("password") < 512

-----------------------------------------------------------------------------
(* Whatever the environment holds, a configuration that is accepted is one *)
(* that the engine can run with: a buffer of at least one log that a       *)
(* size_t can count, a threshold that the buffer can reach, batches and    *)
(* previews of at least one log.                                           *)
Runnable(config) ==
  /\ config.capacity \in 1..SizeRange - 1
  /\ config.threshold \in 1..config.capacity
  /\ config.batch \in 1..SizeRange - 1
  /\ config.preview \in 1..SizeRange - 1

=============================================================================
