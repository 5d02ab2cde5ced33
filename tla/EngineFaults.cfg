\* Two threads, a buffer of three logs, batches of two and every kind of fault.
CONSTANTS
  t1 = t1
  t2 = t2
  NoThread = NoThread
  Threads <- MCThreads
  MaxItems <- MCMaxItems
  Faults <- AllFaults
  Capacity = 3
  ProcessBatchSize = 2
  AutoProcessThreshold = 2
  MaxCalls = 6
SPECIFICATION Spec
SYMMETRY ThreadSymmetry
INVARIANTS
  EngineTypeOK
  BufferBounded
  Accounting
  RoomForRequeue
  DeliveryInOrder
  RowsAccounted
  AtLeastOnce
  BackPressure
  DrainedIsEmpty
  SnapshotBalanced
  CleanWhenDown
PROPERTIES
  DeliversFifo
  BoundedCalls
