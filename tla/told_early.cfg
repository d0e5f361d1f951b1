\* A signer added to a vote in order is planned for, and told, before the turn comes.
SPECIFICATION Spec
CONSTANTS
    Members = 3
    Groups = {"vote", "pool"}
    Group <- VoteAndPool
    Mode <- InOrder
    Holders <- LateSecond
    ann = ann
    bob = bob
    cyn = cyn
    Users = {ann, bob}
    NoUser = NoUser
    Owner = ann
    Events = {"reminder"}
    Parallel = TRUE
    MaxMoves = 1
    MaxStops = 0
INVARIANT PlannedOnTurn
CHECK_DEADLOCK FALSE
