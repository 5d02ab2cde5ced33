----------------------------- MODULE MCEngineApi -----------------------------
(***************************************************************************)
(* Small instances of EngineApi for TLC.  The threads differ in nothing    *)
(* but their names, so permuting them is a symmetry of the safety runs.    *)
(***************************************************************************)
EXTENDS EngineApi, TLC

CONSTANTS t1, t2

MCThreads == {t1, t2}
MCMaxItems == {0, 1}
AllFaults == DbFaults \cup {"noMemory"}

ThreadSymmetry == Permutations(MCThreads)

=============================================================================
