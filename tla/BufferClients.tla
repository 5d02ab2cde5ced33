---------------------------- MODULE BufferClients ----------------------------
(***************************************************************************)
(* The buffer on its own, as buffer_engine.h offers it and as              *)
(* tests/test_buffer_engine.c uses it: any number of threads call it in    *)
(* any order with nothing but engine->mutex between them.  A thread that   *)
(* dequeued an entry owns it until it frees it or gives it back, and       *)
(* several may own one at the same time.                                   *)
(***************************************************************************)
EXTENDS BufferEngine, FiniteSets

CONSTANTS
  MaxLogs,              \* bound: logs accepted
  MaxErrors,            \* bound: errors and processed logs counted
  MaxHeld               \* bound: entries the clients own at one time

VARIABLES
  held,                 \* the entries the clients own
  freed,                \* auxiliary: the entries that were freed
  returned              \* auxiliary: the entries that were ever given back

clientVars == <<bufferVars, held, freed, returned>>

ClientInit ==
  /\ BufferZeroed
  /\ held = {} /\ freed = {} /\ returned = {}

(* The callers' side of the contract: nobody initializes a buffer that is  *)
(* up, or shuts one down, while a client holds an entry of it.  The code   *)
(* does not look.                                                          *)
Start ==
  /\ ~up /\ held = {}
  /\ BufferInit
  /\ freed' = {} /\ returned' = {}
  /\ UNCHANGED held

Stop ==
  /\ held = {}
  /\ BufferShutdown
  /\ freed' = freed \cup {queue[i] : i \in DOMAIN queue}
  /\ UNCHANGED <<held, returned>>

Put ==
  /\ nextLogId <= MaxLogs
  /\ Enqueue
  /\ UNCHANGED <<held, freed, returned>>

PutRefused ==
  /\ metrics.total_errors < MaxErrors
  /\ EnqueueRefused \/ EnqueueInvalid
  /\ UNCHANGED <<held, freed, returned>>

Take ==
  /\ \/ /\ Cardinality(held) < MaxHeld
        /\ Dequeue
        /\ held' = held \cup {Head(queue)}
     \/ DequeueEmpty /\ UNCHANGED held
  /\ UNCHANGED <<freed, returned>>

GiveBack(e) ==
  /\ RequeueFront(e)
  /\ held' = held \ {e}
  /\ returned' = returned \cup {e}
  /\ UNCHANGED freed

(* A refused requeue leaves the entry with its owner, who frees it. *)
GiveBackRefused(e) ==
  /\ RequeueRefused(TRUE)
  /\ held' = held \ {e}
  /\ freed' = freed \cup {e}
  /\ UNCHANGED returned

(* The owner is done with the entry, and counts it or not. *)
Consume(e) ==
  /\ \/ metrics.total_processed < MaxErrors /\ MarkProcessed
     \/ metrics.total_errors < MaxErrors /\ MarkError
  /\ held' = held \ {e}
  /\ freed' = freed \cup {e}
  /\ UNCHANGED returned

ClientNext ==
  \/ Start \/ Stop \/ Put \/ PutRefused \/ Take
  \/ \E e \in held : GiveBack(e) \/ GiveBackRefused(e) \/ Consume(e)

ClientSpec == ClientInit /\ [][ClientNext]_clientVars

-----------------------------------------------------------------------------
Queued == {queue[i] : i \in DOMAIN queue}

(* Every log accepted since buffer_engine_init has exactly one owner: it   *)
(* is once in the list, or in the hands of one client, or was freed; no    *)
(* interleaving of dequeues and requeues duplicates, leaks or frees twice. *)
SingleOwner ==
  up => /\ Queued \cup held \cup freed = 1..nextLogId - 1
        /\ Queued \cap held = {} /\ Queued \cap freed = {} /\ held \cap freed = {}
        /\ Cardinality(Queued) = Len(queue)

(* However many clients give entries back, and in whatever order, these    *)
(* come out before every log that was never dequeued, and those keep the   *)
(* order in which they were accepted.                                      *)
ReturnedGoFirst ==
  \A i, j \in DOMAIN queue :
    i < j => /\ queue[j] \in returned => queue[i] \in returned
             /\ queue[i] \notin returned => queue[i] < queue[j]

=============================================================================
