SPECIFICATION Spec
CONSTANTS
  n1 = n1
  Node <- MCNode
  Configs <- MCConfigs
  MaxRows = 4
  MaxBlock = 2
  MaxRuns = 3
INVARIANTS
  ShardsIntact
  ClosedIsReadable
PROPERTIES
  ImplementsLog
CHECK_DEADLOCK FALSE
