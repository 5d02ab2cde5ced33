\* A buffer that is full after the database failed once.
CONSTANTS
  t1 = t1
  t2 = t2
  NoThread = NoThread
  Threads <- MCThreads
  MaxItems <- MCMaxItems
  Faults <- AllFaults
  Capacity = 2
  ProcessBatchSize = 1
  AutoProcessThreshold = 2
  MaxCalls = 5
SPECIFICATION Spec
PROPERTIES
  ThresholdStartsProcessing
