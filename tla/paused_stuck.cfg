SPECIFICATION Spec
CONSTANTS
    Nodes <- BothNodes
    StartNode = "start"
    Kind <- BothKind
    Routes <- BothRoutes
    JoinOf <- BothJoins
    Legacy <- AskLegacy
    Pooled = FALSE
    MaxForks = 1
    MaxAsks = 3
    MaxCrashes = 0
    MaxErrors = 0
    MaxPauses = 1
    MaxAttempts = 3
CHECK_DEADLOCK FALSE
INVARIANT PausedResumable
