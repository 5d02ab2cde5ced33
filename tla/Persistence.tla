----------------------------- MODULE Persistence -----------------------------
(***************************************************************************)
(* The PostgreSQL layer, src/src/db/persistence.c, over libpq.             *)
(*                                                                         *)
(* The C code opens one connection in persistence_init, closes it in       *)
(* persistence_close, and between the two never resets it: once the        *)
(* connection has failed, every statement fails until the runtime is       *)
(* initialized again.  What one PQexec can do is libpq's and the server's  *)
(* choice; Faults says which bad outcomes a run allows:                    *)
(*   "refused"         the statement is not executed, the connection stays *)
(*   "drop"            the connection breaks before the commit             *)
(*   "committedDrop"   it breaks after the commit, before the answer       *)
(*   "committedError"  the statement committed, but libpq could not        *)
(*                     build its result (NULL, or an error status)         *)
(* Sequence rows holds the log_ids inserted since persistence_init was     *)
(* last called, and snapshot the last row it put into processing_metrics,  *)
(* all zero when there is none.                                            *)
(***************************************************************************)
EXTENDS Naturals, Sequences

CONSTANT Faults         \* the failures a run allows

DbFaults == {"refused", "drop", "committedDrop", "committedError"}

VARIABLES
  conn,                 \* persistence->conn: "none", "open" or "broken"
  rows,                 \* processed_logs
  snapshot,             \* the newest row of processing_metrics
  unsure                \* auxiliary: inserts that committed, reported failed

dbVars == <<conn, rows, snapshot, unsure>>

PersistenceTypeOK(Snapshots) ==
  /\ conn \in {"none", "open", "broken"}
  /\ rows \in Seq(Nat)
  /\ snapshot \in Snapshots
  /\ unsure \in Nat

Commits(k) == k \in {"committedDrop", "committedError"}

Breaks(k) == k \in {"drop", "committedDrop"}

(* How the next statement may fail: a broken connection refuses them all.  *)
Failures == IF conn = "open" THEN Faults \cap DbFaults ELSE {"refused"}

AfterFailure(k) == IF Breaks(k) THEN "broken" ELSE conn

-----------------------------------------------------------------------------
(* persistence_init when the connection and both CREATE TABLE succeed.     *)
PersistenceInit(empty) ==
  /\ conn = "none"
  /\ conn' = "open"
  /\ rows' = <<>>
  /\ snapshot' = empty
  /\ unsure' = 0

(* persistence_init when it cannot connect or create the tables: the       *)
(* connection is finished again.                                           *)
PersistenceInitFails(empty) ==
  /\ conn = "none"
  /\ rows' = <<>>
  /\ snapshot' = empty
  /\ unsure' = 0
  /\ UNCHANGED conn

(* persistence_close *)
PersistenceClose ==
  /\ conn' = "none"
  /\ UNCHANGED <<rows, snapshot, unsure>>

(* Mutant of InsertLog: the status of the result is not tested, and a      *)
(* statement that stored nothing is taken for one that did.                *)
InsertLogUnchecked(e) ==
  /\ conn = "open"
  /\ UNCHANGED dbVars

(* persistence_insert_processed_log returning 1 *)
InsertLog(e) ==
  /\ conn = "open"
  /\ rows' = Append(rows, e)
  /\ UNCHANGED <<conn, snapshot, unsure>>

(* persistence_insert_processed_log returning 0 *)
InsertLogFails(e, k) ==
  /\ conn # "none"
  /\ k \in Failures
  /\ conn' = AfterFailure(k)
  /\ IF Commits(k)
     THEN rows' = Append(rows, e) /\ unsure' = unsure + 1
     ELSE UNCHANGED <<rows, unsure>>
  /\ UNCHANGED snapshot

(* persistence_insert_metrics returning 1 *)
InsertMetrics(m) ==
  /\ conn = "open"
  /\ snapshot' = m
  /\ UNCHANGED <<conn, rows, unsure>>

(* persistence_insert_metrics returning 0 *)
InsertMetricsFails(m, k) ==
  /\ conn # "none"
  /\ k \in Failures
  /\ conn' = AfterFailure(k)
  /\ snapshot' = IF Commits(k) THEN m ELSE snapshot
  /\ UNCHANGED <<rows, unsure>>

(* persistence_ping returning 1 *)
Ping ==
  /\ conn = "open"
  /\ UNCHANGED dbVars

(* persistence_ping returning 0 *)
PingFails(k) ==
  /\ conn # "none"
  /\ k \in Failures
  /\ conn' = AfterFailure(k)
  /\ UNCHANGED <<rows, snapshot, unsure>>

(* Whatever the callers do, with entries and metrics of the given kinds.   *)
PersistenceStep(Entries, Snapshots) ==
  \/ \E empty \in Snapshots : PersistenceInit(empty) \/ PersistenceInitFails(empty)
  \/ PersistenceClose
  \/ \E e \in Entries : InsertLog(e) \/ \E k \in DbFaults : InsertLogFails(e, k)
  \/ \E m \in Snapshots :
       InsertMetrics(m) \/ \E k \in DbFaults : InsertMetricsFails(m, k)
  \/ Ping
  \/ \E k \in DbFaults : PingFails(k)

=============================================================================
