----------------------------- MODULE LinkedList -----------------------------
(***************************************************************************)
(* The doubly linked list under the buffer, src/src/core/linked_list.c, as *)
(* pointers into a heap of nodes.                                          *)
(*                                                                         *)
(* Nodes are the addresses calloc can return and live those it has handed  *)
(* out and not got back; an address may be handed out again.  Fields of a  *)
(* node that is not live keep their stale contents.  The callers hold      *)
(* engine->mutex, so every function but the loop of linked_list_clear is   *)
(* one step; the loop takes a step per node.                               *)
(***************************************************************************)
EXTENDS Naturals, Sequences, FiniteSets

CONSTANTS
  Nodes,                \* the addresses of nodes
  Entries,              \* the log entries of the callers
  Null                  \* the null pointer

ASSUME ListAssumption == Null \notin Nodes /\ Null \notin Entries

VARIABLES
  head, tail, size,     \* the LinkedList structure
  live,                 \* the allocated nodes
  next, prev, item,     \* the fields of the nodes (item is node->entry)
  clearing, cursor,     \* linked_list_clear is in its loop, at this node
  popped,               \* what the last linked_list_pop_front returned
  called                \* auxiliary: the last call, with the entry it was given

listVars == <<head, tail, size, live, next, prev, item, clearing, cursor, popped,
              called>>

Pointers == Nodes \cup {Null}

Calls == {<<>>, <<"pop_front">>, <<"clear">>}
           \cup ({"push_back", "push_front"} \X Entries)

ListTypeOK ==
  /\ head \in Pointers /\ tail \in Pointers
  /\ size \in Nat
  /\ live \subseteq Nodes
  /\ next \in [Nodes -> Pointers] /\ prev \in [Nodes -> Pointers]
  /\ item \in [Nodes -> Entries \cup {Null}]
  /\ clearing \in BOOLEAN /\ cursor \in Pointers
  /\ popped \in Entries \cup {Null}
  /\ called \in Calls

(* linked_list_init, and no node in use. *)
ListInit ==
  /\ head = Null /\ tail = Null /\ size = 0
  /\ live = {}
  /\ next = [n \in Nodes |-> Null] /\ prev = [n \in Nodes |-> Null]
  /\ item = [n \in Nodes |-> Null]
  /\ clearing = FALSE /\ cursor = Null
  /\ popped = Null
  /\ called = <<>>

-----------------------------------------------------------------------------
(* Mutant of AttachFirst: the tail is not set on an empty list. *)
AttachFirstKeepsTail(n) ==
  /\ next' = [next EXCEPT ![n] = head]
  /\ prev' = [m \in Nodes |-> IF m = n THEN Null ELSE IF m = head THEN n ELSE prev[m]]
  /\ head' = n
  /\ UNCHANGED tail

(* linked_list_attach_after with after == NULL: the node goes to the front. *)
AttachFirst(n) ==
  /\ next' = [next EXCEPT ![n] = head]
  /\ prev' = [m \in Nodes |-> IF m = n THEN Null ELSE IF m = head THEN n ELSE prev[m]]
  /\ head' = n
  /\ tail' = IF tail = Null THEN n ELSE tail

(* linked_list_attach_after with a node: behind it. *)
AttachBehind(n, after) ==
  /\ next' = [next EXCEPT ![n] = next[after], ![after] = n]
  /\ prev' = [m \in Nodes |-> IF m = n THEN after
                              ELSE IF m = next[after] THEN n ELSE prev[m]]
  /\ tail' = IF next[after] = Null THEN n ELSE tail
  /\ UNCHANGED head

(* What the two push functions share: a node is allocated for an entry     *)
(* that the caller owns.  When calloc fails they return 0 and nothing has  *)
(* changed.                                                                *)
NewNode(n, e) ==
  /\ ~clearing
  /\ n \notin live
  /\ live' = live \cup {n}
  /\ e \notin {item[m] : m \in live}
  /\ item' = [item EXCEPT ![n] = e]
  /\ size' = size + 1
  /\ popped' = Null
  /\ UNCHANGED <<clearing, cursor>>

(* Mutant of PushBack: the node is attached behind no other, at the front. *)
PushBackAtHead(n, e) ==
  /\ NewNode(n, e)
  /\ called' = <<"push_back", e>>
  /\ AttachFirst(n)

(* linked_list_push_back *)
PushBack(n, e) ==
  /\ NewNode(n, e)
  /\ called' = <<"push_back", e>>
  /\ IF tail = Null THEN AttachFirst(n) ELSE AttachBehind(n, tail)

(* linked_list_push_front *)
PushFront(n, e) ==
  /\ NewNode(n, e)
  /\ called' = <<"push_front", e>>
  /\ AttachFirst(n)

(* linked_list_pop_front of a list that is not empty. *)
PopFront ==
  /\ ~clearing
  /\ head # Null
  /\ popped' = item[head]
  /\ called' = <<"pop_front">>
  /\ head' = next[head]
  /\ tail' = IF head' = Null THEN Null ELSE tail
  /\ prev' = [m \in Nodes |-> IF m = head' THEN Null ELSE prev[m]]
  /\ size' = IF size > 0 THEN size - 1 ELSE size
  /\ live' = live \ {head}
  /\ UNCHANGED <<next, item, clearing, cursor>>

(* Mutant of PopEmpty: the size is decremented all the same. *)
PopEmptyUnderflow ==
  /\ ~clearing
  /\ head = Null
  /\ popped' = Null
  /\ called' = <<"pop_front">>
  /\ size' = size - 1
  /\ UNCHANGED <<head, tail, live, next, prev, item, clearing, cursor>>

(* linked_list_pop_front of an empty list returns NULL. *)
PopEmpty ==
  /\ ~clearing
  /\ head = Null
  /\ popped' = Null
  /\ called' = <<"pop_front">>
  /\ UNCHANGED <<head, tail, size, live, next, prev, item, clearing, cursor>>

(* linked_list_clear: the cursor starts at the head; the node is freed     *)
(* after its next pointer was read; at the end the structure is reset.     *)
ClearStart ==
  /\ ~clearing
  /\ clearing' = TRUE
  /\ cursor' = head
  /\ popped' = Null
  /\ called' = <<"clear">>
  /\ UNCHANGED <<head, tail, size, live, next, prev, item>>

ClearNode ==
  /\ clearing
  /\ cursor # Null
  /\ cursor' = next[cursor]
  /\ live' = live \ {cursor}
  /\ UNCHANGED <<head, tail, size, next, prev, item, clearing, popped, called>>

ClearEnd ==
  /\ clearing
  /\ cursor = Null
  /\ clearing' = FALSE
  /\ head' = Null /\ tail' = Null /\ size' = 0
  /\ UNCHANGED <<live, next, prev, item, cursor, popped, called>>

ListNext ==
  \/ \E n \in Nodes, e \in Entries : PushBack(n, e) \/ PushFront(n, e)
  \/ PopFront \/ PopEmpty
  \/ ClearStart \/ ClearNode \/ ClearEnd

ListSpec == ListInit /\ [][ListNext]_listVars

-----------------------------------------------------------------------------
First == IF clearing THEN cursor ELSE head

(* c is the list: all the live nodes, each once, along next from the first *)
(* one to NULL and, but while the list is being cleared, back along prev   *)
(* from tail to NULL, and size of them.                                    *)
Chain(c, k) ==
  /\ \A n \in live : \E i \in 1..k : c[i] = n
  /\ \A i, j \in 1..k : c[i] = c[j] => i = j
  /\ First = IF k = 0 THEN Null ELSE c[1]
  /\ \A i \in 1..k : next[c[i]] = IF i = k THEN Null ELSE c[i + 1]
  /\ ~clearing =>
       /\ size = k
       /\ tail = IF k = 0 THEN Null ELSE c[k]
       /\ \A i \in 1..k : prev[c[i]] = IF i = 1 THEN Null ELSE c[i - 1]

(* After any mix of pushes at both ends, pops and clears, with addresses   *)
(* used again, the live nodes are one well-formed list: none is leaked, no *)
(* pointer that will be followed leads to a freed node, and head, tail,    *)
(* size and the links agree at every boundary between no node, one node    *)
(* and more.                                                               *)
WellLinked == \E k \in 0..size : \E c \in [1..k -> live] : Chain(c, k)

(* The nodes met from the first one along the links, as far as there are   *)
(* nodes; one that was freed would lead nowhere.                           *)
Walk(first, links, nodes) ==
  LET at[i \in 1..Cardinality(nodes)] ==
        IF i = 1 THEN first
        ELSE IF at[i - 1] \in nodes THEN links[at[i - 1]] ELSE Null
  IN  at

Forward == Walk(First, next, live)

Carried(n) == IF n = Null THEN Null ELSE item[n]

Contents == [i \in DOMAIN Forward |-> Carried(Forward[i])]

Out == IF popped = Null THEN <<>> ELSE <<popped>>

(* Seen through its pointers the list is the deque its callers think it    *)
(* is: an entry goes to the end the called function names, and comes back  *)
(* from the front.                                                         *)
Deque ==
  INSTANCE EntryDeque WITH
    call <- called, items <- Contents, out <- Out, emptying <- clearing

ImplementsDeque == Deque!Spec

=============================================================================
