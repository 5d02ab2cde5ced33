---------------------------- MODULE MCLinkedList ----------------------------
(* Small instances of LinkedList for TLC: the addresses differ in nothing  *)
(* but their names, and so do the entries.                                 *)
EXTENDS LinkedList, TLC

CONSTANTS n1, n2, n3, n4, e1, e2, e3, e4

MCNodes == {n1, n2, n3, n4}
MCEntries == {e1, e2, e3, e4}

AddressSymmetry == Permutations(MCNodes) \cup Permutations(MCEntries)

=============================================================================
