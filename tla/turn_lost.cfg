CONSTANTS
    ann = ann
    bob = bob
    cyn = cyn
    s1 = s1
    s2 = s2
    Users = {ann, bob, cyn}
    NoUser = NoUser
    Forms <- ThreeInOrder
    Sessions = {s1, s2}
    MaxTasks = 3
    MaxMoves = 1
    MaxMembers = 2
    MaxInactive = 1
    MaxPauses = 1
    MaxEvents <- EventsOf
SYMMETRY RequestSymmetry
SPECIFICATION Spec
INVARIANT CanSign
CHECK_DEADLOCK FALSE
