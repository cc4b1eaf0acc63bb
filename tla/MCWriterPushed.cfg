SPECIFICATION Spec
CONSTANTS
  n1 = n1
  Node <- MCNode
  Configs <- MCConfigs
  MaxRows = 3
  MaxBlock = 2
  MaxRuns = 2
INVARIANTS
  FinishedMeansPushed
CHECK_DEADLOCK FALSE
