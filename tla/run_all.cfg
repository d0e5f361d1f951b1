SPECIFICATION Spec
CONSTANTS
    Nodes <- AllNodes
    StartNode = "start"
    Kind <- AllKind
    Routes <- AllRoutes
    Legacy <- ReviewLegacy
    Pooled = TRUE
    Workers = {w1, w2}
    MaxAttempts = 2
    MaxJobs = 4
    MaxCopies = 2
    MaxCrashes = 0
    MaxStalls = 0
    MaxErrors = 2
    MaxPauses = 1
    MaxFaults = 2
CHECK_DEADLOCK FALSE
INVARIANTS
    DecisionsRecorded
    FailureEarned
    SuccessComplete
    AskedOnce
PROPERTIES
    StoppedFrozen
