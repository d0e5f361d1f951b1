SPECIFICATION Spec
CONSTANTS
    Configs = {c1, c2}
    Tests = {t1}
    Edits = {e1, e2}
    Workers = {w1, w2}
    MaxAttempts = 2
    MaxCrashes = 0
    MaxStalls = 0
    MaxFaults = 1
CHECK_DEADLOCK FALSE
INVARIANT VerifiedEarned
