SPECIFICATION Spec
CONSTANTS
    Nodes <- SplitNodes
    StartNode = "start"
    Kind <- SplitKind
    Routes <- SplitRoutes
    JoinOf <- MeetOnly
    Legacy <- NoLegacy
    Pooled = FALSE
    MaxForks = 1
    MaxAsks = 3
    MaxCrashes = 0
    MaxErrors = 0
    MaxPauses = 0
    MaxAttempts = 3
CHECK_DEADLOCK FALSE
INVARIANT JoinLeavesNothing
