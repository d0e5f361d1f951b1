SPECIFICATION FairSpec
CONSTANTS
    Nodes <- BothNodes
    StartNode = "start"
    Kind <- BothKind
    Routes <- BothRoutes
    JoinOf <- BothJoins
    Legacy <- AskLegacy
    Pooled = FALSE
    MaxForks = 1
    MaxAsks = 3
    MaxCrashes = 1
    MaxErrors = 2
    MaxPauses = 1
    MaxAttempts = 3
CHECK_DEADLOCK FALSE
INVARIANTS
    BranchesCarried
    JoinRunsOnce
    JoinLeavesNothing
    OutputsMerged
PROPERTY
    AnswersContinued
