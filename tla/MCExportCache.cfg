SPECIFICATION Spec
CONSTANTS
  Nodes = {"mauao", "ruapehu"}
  Kinds = {"find", "sweep", "activations", "sample", "stats", "det"}
  Cap <- MCCap
  SweepCap <- MCSweepCap
  DefaultBatch = 8
  InitialTables <- MCTables
  Starts = {2, 5}
  Limits = {2, 4}
  MaxRetries = 1
  Sublayers = {"x", "y"}
  Sources = {"emb"}
  ShapeBatch = 2
  MaxRuns = 3
  MaxKills = 1
INVARIANTS TypeOK SessionServesRun SearchFindsMax ConfigKeepsUpdates WrittenBackFits PullbackMatchesSubgraph
CHECK_DEADLOCK FALSE
