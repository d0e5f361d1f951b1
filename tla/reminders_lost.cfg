\* Deciding one branch cancels the reminders of the other: the poll sees the run queued.
SPECIFICATION Spec
CONSTANTS
    Members = 3
    Groups = {"vote", "pool"}
    Group <- VoteAndPool
    Mode <- InOrder
    Holders <- LateSecond
    ann = ann
    bob = bob
    cyn = cyn
    Users = {ann, bob}
    NoUser = NoUser
    Owner = ann
    Events = {"reminder"}
    Parallel = TRUE
    MaxMoves = 0
    MaxStops = 0
INVARIANT CancelledAtEnd
CHECK_DEADLOCK FALSE
