\* Four addresses, three integers, positions from one before the first to one
\* behind the last.  The program ends with its input.
CONSTANTS
  a1 = a1
  a2 = a2
  a3 = a3
  a4 = a4
  Null = Null
  Addresses <- MCAddresses
  Items <- MCItems
  Positions <- MCPositions
SPECIFICATION AcademicSpec
SYMMETRY AddressSymmetry
CHECK_DEADLOCK FALSE
INVARIANTS
  AcademicTypeOK
  LinkedBothWays
PROPERTIES
  ImplementsIntegerList
