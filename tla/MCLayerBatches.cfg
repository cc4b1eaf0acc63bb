SPECIFICATION Spec
CONSTANTS
    Layers   <- MCLayers
    SizeGb   <- MCSizeGb
    Output   <- MCOutput
    Commands <- MCCommands
    MaxRuns  = 2
    MaxFaults = 3
INVARIANTS
    TypeOK
    InputNeverLost
    PassedIsSaved
    OneBatchResident
    
PROPERTIES
    ReclaimsOnlySaved
    RunEnds
