-------------------------------- MODULE MCCli --------------------------------
(***************************************************************************)
(* A small session of Cli for TLC.  The environments spell the same engine *)
(* (a buffer of 3, batches of 1) in different ways, but for one that is    *)
(* refused and one whose connection string does not fit.                   *)
(***************************************************************************)
EXTENDS Cli

CONSTANTS sigint, sigterm

MCThreads == {Main}
MCMaxItems == {0}
MCFaults == {"refused", "committedDrop"}
MCSignals == {sigint, sigterm}

Spelled(capacity, threshold, batch, preview, length) ==
  [sizes |-> [s \in Sizes |->
      CASE s = "capacity"  -> capacity
        [] s = "threshold" -> threshold
        [] s = "batch"     -> batch
        [] s = "preview"   -> preview],
   lengths |-> [f \in DbFields |-> length],
   digits |-> 5]

MCEnvironments == {
  Spelled(Number(3), Number(0), Number(0), Number(0), 10),
  Spelled(Number(3), NoNumber, Number(1), Number(-5), 10),
  Spelled(Number(3 - SizeRange), Number(SizeRange), Number(0), Number(3), 10),
  Spelled(Number(0), Number(3), Number(1), Number(200), 10),
  Spelled(Number(3), Number(3), Number(1), Number(200), 200) }

=============================================================================
