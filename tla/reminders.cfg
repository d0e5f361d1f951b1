\* A vote in order of two in a branch; a third may be added, and tasks change hands at any time.
SPECIFICATION FairSpec
CONSTANTS
    Members = 3
    Groups = {"vote"}
    Group <- OneVote
    Mode <- Sequential
    Holders <- LateThird
    ann = ann
    bob = bob
    cyn = cyn
    Users = {ann, bob, cyn}
    NoUser = NoUser
    Owner = ann
    Events = {"escalation"}
    Parallel = TRUE
    MaxMoves = 3
    MaxStops = 1
INVARIANTS NoticesFollowHolders ToldOnce NoticesKept
PROPERTY NoticesEnd
CHECK_DEADLOCK FALSE
