SPECIFICATION Spec
CONSTANTS
    Nodes <- ShortNodes
    StartNode = "start"
    Kind <- ShortKind
    Routes <- ShortRoutes
    Legacy <- NoLegacy
    Pooled = TRUE
    Workers = {w1, w2}
    MaxAttempts = 2
    MaxJobs = 3
    MaxCopies = 2
    MaxCrashes = 1
    MaxStalls = 0
    MaxErrors = 0
    MaxPauses = 0
    MaxFaults = 1
CHECK_DEADLOCK FALSE
INVARIANTS AskedOnce
