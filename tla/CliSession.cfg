\* One session: a buffer of three logs, batches of one, two kinds of database fault.
CONSTANTS
  sigint = sigint
  sigterm = sigterm
  Main = Main
  NoThread = NoThread
  Threads <- MCThreads
  Signals <- MCSignals
  Environments <- MCEnvironments
  MaxItems <- MCMaxItems
  Faults <- MCFaults
  SizeRange = 4096
  Capacity = 3
  ProcessBatchSize = 1
  AutoProcessThreshold = 3
  MaxCalls = 6
SPECIFICATION CliSpec
INVARIANTS
  CliTypeOK
  EnvironmentFits
  ExitStatusTells
PROPERTIES
  SignalEndsSession
  WindsDown
