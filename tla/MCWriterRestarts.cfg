SPECIFICATION Spec
CONSTANTS
  n1 = n1
  Node <- MCNode
  Configs <- MCConfigs
  MaxRows = 5
  MaxBlock = 3
  MaxRuns = 3
INVARIANTS
  TypeOK
  Contiguous
  InFlightBounded
  ShardsIntact
  ClosedIsReadable
  PublishedIsStaged
PROPERTIES
  ImplementsLog
  RunTerminates
CHECK_DEADLOCK FALSE
