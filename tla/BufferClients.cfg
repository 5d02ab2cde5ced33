\* A buffer of two logs, clients that own up to three entries at a time.
CONSTANTS
  Capacity = 2
  MaxLogs = 4
  MaxErrors = 2
  MaxHeld = 3
SPECIFICATION ClientSpec
INVARIANTS
  BufferBounded
  SingleOwner
  ReturnedGoFirst
