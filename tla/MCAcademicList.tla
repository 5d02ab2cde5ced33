--------------------------- MODULE MCAcademicList ---------------------------
(* A small heap for TLC; the addresses differ in nothing but their names. *)
EXTENDS AcademicList

CONSTANTS a1, a2, a3, a4

MCAddresses == {a1, a2, a3, a4}
MCItems == -1..1
MCPositions == -1..4

AddressSymmetry == Permutations(MCAddresses)

=============================================================================
