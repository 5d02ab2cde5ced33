----------------------------- MODULE EntryDeque -----------------------------
(***************************************************************************)
(* What the linked list is to its callers: a sequence of entries that      *)
(* push_back makes grow at the back and push_front at the front, that      *)
(* shrinks at the front, and is emptied from the front.  What was called   *)
(* is part of the state, so each call has the effect of its own name.      *)
(* BufferEngine uses the list as this sequence; LinkedList is shown to     *)
(* implement it.                                                           *)
(***************************************************************************)
EXTENDS Naturals, Sequences

CONSTANT Entries

VARIABLES
  call,                 \* the last call, with the entry it was given
  items,                \* the entries from front to back
  out,                  \* what the last pop returned: a sequence of at most one
  emptying              \* the entries are being freed

dequeVars == <<call, items, out, emptying>>

Init == call = <<>> /\ items = <<>> /\ out = <<>> /\ emptying = FALSE

PushBack(e) ==
  /\ ~emptying
  /\ call' = <<"push_back", e>>
  /\ items' = Append(items, e)
  /\ out' = <<>>
  /\ UNCHANGED emptying

PushFront(e) ==
  /\ ~emptying
  /\ call' = <<"push_front", e>>
  /\ items' = <<e>> \o items
  /\ out' = <<>>
  /\ UNCHANGED emptying

Pop ==
  /\ ~emptying
  /\ call' = <<"pop_front">>
  /\ out' = IF items = <<>> THEN <<>> ELSE <<Head(items)>>
  /\ items' = IF items = <<>> THEN <<>> ELSE Tail(items)
  /\ UNCHANGED emptying

Empty ==
  /\ ~emptying
  /\ call' = <<"clear">>
  /\ emptying' = TRUE
  /\ out' = <<>>
  /\ UNCHANGED items

FreeFront ==
  /\ emptying
  /\ items # <<>>
  /\ items' = Tail(items)
  /\ UNCHANGED <<call, out, emptying>>

Emptied ==
  /\ emptying
  /\ items = <<>>
  /\ emptying' = FALSE
  /\ UNCHANGED <<call, items, out>>

Next ==
  \/ \E e \in Entries : PushBack(e) \/ PushFront(e)
  \/ Pop \/ Empty \/ FreeFront \/ Emptied

Spec == Init /\ [][Next]_dequeVars

=============================================================================
