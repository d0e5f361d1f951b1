SPECIFICATION FairSpec
CONSTANTS
    Workers = {w1, w2}
    Order <- JoinOrder
    Parents <- JoinParents
    MaxAttempts = 2
    MaxCrashes = 2
    MaxStalls = 0
CHECK_DEADLOCK FALSE
PROPERTY RunAlwaysEnds
