\* Two workers, a plan of three nodes, three attempts.
CONSTANTS
    Workers = {w1, w2}
    Order <- JoinOrder
    Parents <- JoinParents
    MaxAttempts = 3
    MaxCrashes = 2
    MaxStalls = 1
SPECIFICATION FairSpec
INVARIANT CheckpointExact
PROPERTY RunEnds
CHECK_DEADLOCK FALSE
