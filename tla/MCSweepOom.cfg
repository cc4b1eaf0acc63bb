SPECIFICATION Spec
CONSTANTS
  Kinds = {"perturbed"}
  Layers = 1
  NRows = 6
  ShardRows = 3
  Group = 3
  Batches = {1, 2}
  Prefetch = 2
  MaxRetries = 1
  Dataset <- MCDataset
  MaxRuns = 1
PROPERTY OomIsRetried
CHECK_DEADLOCK FALSE
