----------------------------- MODULE IntegerList -----------------------------
(***************************************************************************)
(* What the commands of the academic program promise: a sequence of        *)
(* integers that is changed at its ends, at a position or in a range, and  *)
(* is asked for items, for its greatest item and for its length.           *)
(* AcademicList, with its pointers and loops, is shown to implement it.    *)
(* Positions count from 0, as the program prints them.                     *)
(***************************************************************************)
EXTENDS Integers, SequencesExt

CONSTANTS Items, Positions

VARIABLES
  list,                 \* the integers, first to last
  line,                 \* the line that was read last
  answer                \* and what it printed

intVars == <<list, line, answer>>

Line(command, numbers) == [command |-> command, numbers |-> numbers]
Printed(word, numbers) == [says |-> word, numbers |-> numbers]
Silence == Printed("nothing", <<>>)

Init == list = <<>> /\ line = Line("", <<>>) /\ answer = Silence

(* The command with these arguments turns the list into l and prints words. *)
Does(command, numbers, l, words) ==
  line' = Line(command, numbers) /\ list' = l /\ answer' = words

Change(command, numbers, l) == Does(command, numbers, l, Silence)
Ask(command, numbers, words) == Does(command, numbers, list, words)

Insert(x) ==
  \/ Change("insert_0", <<x>>, <<x>> \o list)
  \/ Change("insert_end", <<x>>, Append(list, x))

OnEmpty ==
  /\ list = <<>>
  /\ \/ \E command \in {"delete_0", "delete_end", "clear", "print", "find_max"} :
          Ask(command, <<>>, Printed("empty", <<>>))
     \/ \E command \in {"print_0", "print_end"} : Ask(command, <<>>, Silence)

FirstPlace(x) == (CHOOSE i \in DOMAIN list : list[i] = x /\ \A j \in 1..i - 1 : list[j] # x) - 1
Greatest == CHOOSE x \in ToSet(list) : \A y \in ToSet(list) : y <= x

OnItems ==
  /\ list # <<>>
  /\ \/ Change("delete_0", <<>>, Tail(list))
     \/ Change("delete_end", <<>>, Front(list))
     \/ Change("clear", <<>>, <<>>)
     \/ Ask("print_0", <<>>, Printed("first", <<Head(list)>>))
     \/ Ask("print_end", <<>>, Printed("last", <<Last(list)>>))
     \/ Ask("print", <<>>, Printed("list", list))
     \/ Ask("find_max", <<>>, Printed("greatest", <<Greatest, FirstPlace(Greatest)>>))

Dim == Ask("dim", <<>>, Printed("items", <<Len(list)>>))

Find(x) ==
  Ask("find", <<x>>, IF x \in ToSet(list) THEN Printed("found", <<x, FirstPlace(x)>>)
                                          ELSE Printed("not found", <<x>>))

Valid(pos) == pos + 1 \in DOMAIN list

DeletePos(pos) ==
  IF Valid(pos) THEN Change("delete_pos", <<pos>>, RemoveAt(list, pos + 1))
                ELSE Ask("delete_pos", <<pos>>, Printed("invalid", <<>>))

(* The items from pos1 to pos2 change places end to end. *)
InvertRange(pos1, pos2) ==
  IF Valid(pos1) /\ Valid(pos2) /\ pos1 <= pos2
  THEN Change("invert_range", <<pos1, pos2>>,
              SubSeq(list, 1, pos1) \o Reverse(SubSeq(list, pos1 + 1, pos2 + 1))
                \o SubSeq(list, pos2 + 2, Len(list)))
  ELSE Ask("invert_range", <<pos1, pos2>>, Printed("invalid", <<>>))

End == Change("", <<>>, <<>>)

Next ==
  \/ \E x \in Items : Insert(x) \/ Find(x)
  \/ OnEmpty \/ OnItems \/ Dim \/ End
  \/ \E pos1 \in Positions : DeletePos(pos1) \/ \E pos2 \in Positions : InvertRange(pos1, pos2)

Spec == Init /\ [][Next]_intVars

=============================================================================
