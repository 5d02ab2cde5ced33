---------------------------- MODULE FifoDelivery ----------------------------
(***************************************************************************)
(* What the engine promises of the logs it accepts, with no buffer, no     *)
(* threads, no batches and no lock: they are stored first in, first out,   *)
(* each at least once, and none is skipped or let go before the database   *)
(* has failed.  EngineApi is shown to implement it.                        *)
(***************************************************************************)
EXTENDS Naturals, Sequences

VARIABLES
  open,                 \* logs are being accepted
  accepted,             \* how many have been accepted: their ids are 1, 2, ...
  pending,              \* accepted and not yet known to be stored
  stored,               \* what the table holds
  troubled              \* the database has failed a store

deliveryVars == <<open, accepted, pending, stored, troubled>>

Fresh ==
  /\ accepted' = 0
  /\ pending' = <<>>
  /\ stored' = <<>>
  /\ troubled' = FALSE

Init ==
  /\ open = FALSE
  /\ accepted = 0
  /\ pending = <<>>
  /\ stored = <<>>
  /\ troubled = FALSE

(* The engine starts, or fails to. *)
Restart ==
  /\ ~open
  /\ open' \in BOOLEAN
  /\ Fresh

Accept ==
  /\ open
  /\ accepted' = accepted + 1
  /\ pending' = Append(pending, accepted + 1)
  /\ UNCHANGED <<open, stored, troubled>>

(* The oldest log is stored, and known to be. *)
Store ==
  /\ pending # <<>>
  /\ stored' = Append(stored, Head(pending))
  /\ pending' = Tail(pending)
  /\ UNCHANGED <<open, accepted, troubled>>

(* The store of the oldest log is reported failed: it stays pending, and   *)
(* may be in the table all the same.                                       *)
StoreFails ==
  /\ pending # <<>>
  /\ stored' \in {stored, Append(stored, Head(pending))}
  /\ troubled' = TRUE
  /\ UNCHANGED <<open, accepted, pending>>

(* Out of memory after a failed store, the oldest log is lost. *)
Lose ==
  /\ troubled
  /\ pending # <<>>
  /\ pending' = Tail(pending)
  /\ UNCHANGED <<open, accepted, stored, troubled>>

(* The engine stops.  It leaves nothing behind unless the database failed. *)
Close ==
  /\ open
  /\ troubled \/ pending = <<>>
  /\ open' = FALSE
  /\ pending' = <<>>
  /\ UNCHANGED <<accepted, stored, troubled>>

Next == Restart \/ Accept \/ Store \/ StoreFails \/ Lose \/ Close

Spec == Init /\ [][Next]_deliveryVars

=============================================================================
