SPECIFICATION FairSpec
CONSTANTS
    Nodes <- ShortNodes
    StartNode = "start"
    Kind <- ShortKind
    Routes <- ShortRoutes
    Legacy <- NoLegacy
    Pooled = TRUE
    Workers = {w1, w2}
    MaxAttempts = 2
    MaxJobs = 3
    MaxCopies = 2
    MaxCrashes = 2
    MaxStalls = 1
    MaxErrors = 0
    MaxPauses = 0
    MaxFaults = 2
CHECK_DEADLOCK FALSE
INVARIANTS
    SingleWriter
    NeverStranded
    StatesEnteredOnce
PROPERTIES
    ImplementsOwnership
    Settles
