SPECIFICATION Spec
CONSTANTS
  Kinds = {"perturbed", "activations", "ambient", "tangent", "variant", "direct", "bases", "distances", "stats", "det", "overlap", "sequences", "kvcache"}
  Layers = 2
  NRows = 8
  ShardRows = 3
  Group = 4
  Batches = {2, 3, 4}
  Prefetch = 2
  MaxRetries = 2
  Dataset <- MCDataset
  MaxRuns = 3
INVARIANTS TypeOK RowsInPlace OnlyUntrimmedRejected FinishedIsComplete
PROPERTIES RunEnds RetriedNearTheEnd
CHECK_DEADLOCK FALSE
