SPECIFICATION Spec
CONSTANTS
    Nodes <- AllNodes
    StartNode = "start"
    Kind <- AllKind
    Routes <- AllRoutes
    Legacy <- NoLegacy
    Pooled = FALSE
    Workers = {w1, w2}
    MaxAttempts = 2
    MaxJobs = 2
    MaxCopies = 1
    MaxCrashes = 0
    MaxStalls = 0
    MaxErrors = 0
    MaxPauses = 0
    MaxFaults = 0
CHECK_DEADLOCK FALSE
PROPERTIES StoppedEntersNoState
