\* Four addresses, four entries: lists of up to four nodes, addresses reused.
CONSTANTS
  n1 = n1
  n2 = n2
  n3 = n3
  n4 = n4
  e1 = e1
  e2 = e2
  e3 = e3
  e4 = e4
  Null = Null
  Nodes <- MCNodes
  Entries <- MCEntries
SPECIFICATION ListSpec
SYMMETRY AddressSymmetry
INVARIANTS
  ListTypeOK
  WellLinked
PROPERTIES
  ImplementsDeque
