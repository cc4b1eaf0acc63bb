SPECIFICATION Spec
CONSTANTS
  n1 = n1
  n2 = n2
  Node <- MCNode
  Configs <- MCConfigs
  MaxRows = 2
  MaxBlock = 1
  MaxRuns = 3
INVARIANTS
  KeptShardsAreDone
CHECK_DEADLOCK FALSE
