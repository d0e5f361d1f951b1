SPECIFICATION Spec
CONSTANTS
    Nodes <- PairNodes
    StartNode = "start"
    Kind <- PairKind
    Routes <- PairRoutes
    Legacy <- NoLegacy
    Pooled = FALSE
    Workers = {w1}
    MaxAttempts = 2
    MaxJobs = 4
    MaxCopies = 1
    MaxCrashes = 0
    MaxStalls = 0
    MaxErrors = 1
    MaxPauses = 0
    MaxFaults = 1
CHECK_DEADLOCK FALSE
INVARIANTS DecisionsRecorded
