---------------------------- MODULE AcademicList ----------------------------
(***************************************************************************)
(* The integer list of src/legacy/academic/, a program that reads one      *)
(* command per line and runs one method of its only list, an IDll, on it.  *)
(*                                                                         *)
(* node is the heap: its domain are the addresses new has handed out and   *)
(* delete has not got back, so that to follow a pointer to a deleted node  *)
(* has no value.  The program has one thread; a command is one step, and a *)
(* line that inserts several items is a step for each.  The loops along    *)
(* next are recursive functions of the number of nodes they have met.      *)
(***************************************************************************)
EXTENDS Integers, SequencesExt

CONSTANTS
  Addresses,            \* where new can put a node
  Items,                \* the integers the lines mention
  Positions,            \* the positions the lines mention
  Null                  \* nullptr

ASSUME AcademicAssumption ==
  /\ Null \notin Addresses /\ IsFiniteSet(Addresses)
  /\ Items \subseteq Int /\ Positions \subseteq Int

VARIABLES
  n, head, tail,        \* the IDll
  node,                 \* the INodes by address
  line, answer,         \* the last line read and what it printed
  running               \* main has not returned

academicVars == <<n, head, tail, node, line, answer, running>>

live == DOMAIN node
INode == [item : Items, next : Addresses \cup {Null}, prev : Addresses \cup {Null}]

AcademicTypeOK ==
  /\ live \subseteq Addresses
  /\ node \in [live -> INode]
  /\ {head, tail} \subseteq live \cup {Null}
  /\ n \in 0..Cardinality(Addresses)
  /\ running \in BOOLEAN

Line(command, numbers) == [command |-> command, numbers |-> numbers]
Printed(word, numbers) == [says |-> word, numbers |-> numbers]
Silence == Printed("nothing", <<>>)
Says(what) == answer' = what /\ UNCHANGED <<n, head, tail, node, running>>

AcademicInit ==
  /\ n = 0 /\ head = Null /\ tail = Null
  /\ node = <<>>
  /\ line = Line("", <<>>) /\ answer = Silence
  /\ running = TRUE

(* The nodes from p on along the field next or prev, until a pointer that  *)
(* leads to no node, or one too many if the links go round.                *)
Walk(heap, p, field) ==
  LET at[i \in 0..Cardinality(DOMAIN heap)] ==
        IF i = 0 THEN p
        ELSE IF at[i - 1] \in DOMAIN heap THEN heap[at[i - 1]][field] ELSE Null
  IN  [i \in 1..Cardinality({j \in DOMAIN at : at[j] # Null}) |-> at[i - 1]]

Forward == Walk(node, head, "next")
ItemsOf(nodes) == [i \in DOMAIN nodes |-> node[nodes[i]].item]

-----------------------------------------------------------------------------
(* new INode(item), its links set by the caller. *)
New(heap, a, x, after, before) ==
  [b \in DOMAIN heap \cup {a} |->
     IF b = a THEN [item |-> x, next |-> after, prev |-> before] ELSE heap[b]]

Insert0(a, x) ==
  /\ node' = New(IF head = Null THEN node ELSE [node EXCEPT ![head].prev = a],
                 a, x, head, Null)
  /\ head' = a
  /\ tail' = IF tail = Null \/ n = 0 THEN a ELSE tail
  /\ n' = n + 1
  /\ answer' = Silence /\ UNCHANGED running

InsertEnd(a, x) ==
  /\ node' = New(IF tail = Null THEN node ELSE [node EXCEPT ![tail].next = a],
                 a, x, Null, tail)
  /\ tail' = a
  /\ head' = IF head = Null THEN a ELSE head
  /\ n' = n + 1
  /\ answer' = Silence /\ UNCHANGED running

Freed(heap, a) == Restrict(heap, live \ {a})

Delete0 ==
  /\ n # 0
  /\ LET second == node[head].next IN
     /\ head' = second
     /\ tail' = IF second = Null THEN Null ELSE tail
     /\ node' = Freed(IF second = Null THEN node ELSE [node EXCEPT ![second].prev = Null], head)
  /\ n' = n - 1
  /\ answer' = Silence /\ UNCHANGED running

(* Mutant of DeleteEnd: the head stays behind in a list that is empty now. *)
DeleteEndKeepsHead ==
  /\ n # 0
  /\ LET last == node[tail].prev IN
     /\ tail' = last
     /\ node' = Freed(IF last = Null THEN node ELSE [node EXCEPT ![last].next = Null], tail)
  /\ n' = n - 1
  /\ answer' = Silence /\ UNCHANGED <<head, running>>

DeleteEnd ==
  /\ n # 0
  /\ LET last == node[tail].prev IN
     /\ tail' = last
     /\ head' = IF last = Null THEN Null ELSE head
     /\ node' = Freed(IF last = Null THEN node ELSE [node EXCEPT ![last].next = Null], tail)
  /\ n' = n - 1
  /\ answer' = Silence /\ UNCHANGED running

(* Mutant of Unlink: the node behind still points back to the deleted one. *)
UnlinkForward(a) ==
  [node EXCEPT ![node[a].prev].next = node[a].next]

(* The two assignments of delete_pos in the middle of the list. *)
Unlink(a) ==
  [node EXCEPT ![node[a].prev].next = node[a].next,
               ![node[a].next].prev = node[a].prev]

(* delete_pos *)
DeletePos(pos) ==
  \/ /\ pos < 0 \/ pos >= n
     /\ Says(Printed("invalid", <<>>))
  \/ pos = 0 /\ pos < n /\ Delete0
  \/ pos > 0 /\ pos = n - 1 /\ DeleteEnd
  \/ /\ pos > 0 /\ pos < n - 1
     /\ node' = Freed(Unlink(Forward[pos + 1]), Forward[pos + 1])
     /\ n' = n - 1
     /\ answer' = Silence /\ UNCHANGED <<head, tail, running>>

(* The positions both loops of invert_range pick. *)
InRange(i, pos1, pos2) == i >= pos1 /\ i <= pos2

(* invert_range: the items of the range are copied out and written back    *)
(* from the other end; the nodes stay where they are.                      *)
InvertRange(pos1, pos2) ==
  \/ /\ pos1 < 0 \/ pos2 >= n \/ pos1 > pos2
     /\ Says(Printed("invalid", <<>>))
  \/ /\ pos1 >= 0 /\ pos2 < n /\ pos1 <= pos2
     /\ LET old == ItemsOf(Forward)
            heap[k \in 0..n] ==
              IF k = 0 THEN node
              ELSE IF InRange(k - 1, pos1, pos2)
              THEN [heap[k - 1] EXCEPT ![Forward[k]].item = old[pos1 + pos2 - (k - 1) + 1]]
              ELSE heap[k - 1]
        IN  node' = heap[pos2 + 1]
     /\ answer' = Silence /\ UNCHANGED <<n, head, tail, running>>

(* What clear does to a list that is not empty; the destructor does it too. *)
DeleteAll ==
  /\ node' = Restrict(node, live \ ToSet(Forward))
  /\ head' = Null /\ tail' = Null /\ n' = 0
  /\ answer' = Silence

Clear == n # 0 /\ DeleteAll /\ UNCHANGED running

(* delete_0, delete_end, print, find_max and clear of an empty list say so. *)
SayEmpty == n = 0 /\ Says(Printed("empty", <<>>))

Print0 == Says(IF head = Null THEN Silence ELSE Printed("first", <<node[head].item>>))
PrintEnd == Says(IF tail = Null THEN Silence ELSE Printed("last", <<node[tail].item>>))
PrintAll == n # 0 /\ Says(Printed("list", ItemsOf(Forward)))
Dim == Says(Printed("items", <<n>>))

(* find: pos is that of the first node with the item, or none. *)
Find(x) ==
  LET items == ItemsOf(Forward)
      pos[k \in 0..Len(items)] ==
        IF k = 0 THEN -1 ELSE IF pos[k - 1] = -1 /\ items[k] = x THEN k - 1 ELSE pos[k - 1]
      found == pos[Len(items)]
  IN  Says(IF found = -1 THEN Printed("not found", <<x>>) ELSE Printed("found", <<x, found>>))

(* Mutant of Exceeds: a later item of the same size takes over. *)
ExceedsOrEqual(x, y) == x >= y

Exceeds(x, y) == x > y

(* find_max *)
FindMax ==
  /\ n # 0
  /\ LET items == ItemsOf(Forward)
         max[k \in 0..Len(items)] ==
           IF k = 0 THEN 1 ELSE IF Exceeds(items[k], items[max[k - 1]]) THEN k ELSE max[k - 1]
         best == max[Len(items)]
     IN  Says(Printed("greatest", <<items[best], best - 1>>))

Reads(command, numbers) == line' = Line(command, numbers)

(* The end of the input: main returns and the destructor runs. *)
Return ==
  /\ Reads("", <<>>)
  /\ running' = FALSE
  /\ IF n # 0 THEN DeleteAll ELSE answer' = Silence /\ UNCHANGED <<n, head, tail, node>>

(* main: the line is the name of a command and the integers behind it; any *)
(* other line, and one that lacks an integer, is passed over.              *)
AcademicNext ==
  /\ running
  /\ \/ \E a \in Addresses \ live, x \in Items :
          \/ Reads("insert_0", <<x>>) /\ Insert0(a, x)
          \/ Reads("insert_end", <<x>>) /\ InsertEnd(a, x)
     \/ Reads("delete_0", <<>>) /\ Delete0
     \/ Reads("delete_end", <<>>) /\ DeleteEnd
     \/ Reads("clear", <<>>) /\ Clear
     \/ \E command \in {"delete_0", "delete_end", "clear", "print", "find_max"} :
          Reads(command, <<>>) /\ SayEmpty
     \/ Reads("print_0", <<>>) /\ Print0
     \/ Reads("print_end", <<>>) /\ PrintEnd
     \/ Reads("print", <<>>) /\ PrintAll
     \/ Reads("dim", <<>>) /\ Dim
     \/ Reads("find_max", <<>>) /\ FindMax
     \/ \E x \in Items : Reads("find", <<x>>) /\ Find(x)
     \/ \E pos \in Positions : Reads("delete_pos", <<pos>>) /\ DeletePos(pos)
     \/ \E pos1, pos2 \in Positions :
          Reads("invert_range", <<pos1, pos2>>) /\ InvertRange(pos1, pos2)
     \/ Return

AcademicSpec == AcademicInit /\ [][AcademicNext]_academicVars

-----------------------------------------------------------------------------
(* After any sequence of commands the n nodes in use are one list that can *)
(* be walked from the head along next and from the tail along prev, each   *)
(* node once: no command leaks a node, follows or leaves a pointer to a    *)
(* deleted one, or unlinks in one direction only, at the ends, in the      *)
(* middle, or when the list becomes or stops being empty.                  *)
LinkedBothWays ==
  /\ Len(Forward) = n
  /\ ToSet(Forward) = live /\ Cardinality(live) = n
  /\ Walk(node, tail, "prev") = Reverse(Forward)

(* Walked along its pointers the list is the sequence of integers the user *)
(* of the commands thinks of, and every answer (the first position of an   *)
(* item, the greatest one and its first position, the list after a range   *)
(* was inverted or a position deleted) is the one that sequence gives.     *)
AsSequence == INSTANCE IntegerList WITH list <- ItemsOf(Forward)
ImplementsIntegerList == AsSequence!Spec

=============================================================================
