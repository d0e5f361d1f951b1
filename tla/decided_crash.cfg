SPECIFICATION Spec
CONSTANTS
    Nodes <- PairNodes
    StartNode = "start"
    Kind <- PairKind
    Routes <- PairRoutes
    JoinOf <- MeetOnly
    Legacy <- NoLegacy
    Pooled = FALSE
    MaxForks = 1
    MaxAsks = 3
    MaxCrashes = 1
    MaxErrors = 0
    MaxPauses = 0
    MaxAttempts = 3
CHECK_DEADLOCK FALSE
INVARIANT DecisionDurable
