\* Two tests and one edit of a source, two workers, two attempts.
CONSTANTS
    Configs = {c1, c2}
    Tests = {t1, t2}
    Edits = {e1}
    Workers = {w1, w2}
    MaxAttempts = 2
    MaxCrashes = 1
    MaxStalls = 1
    MaxFaults = 1
SPECIFICATION FairSpec
INVARIANT VerifiedEarned
PROPERTIES DisabledKept TestEnds
CHECK_DEADLOCK FALSE
