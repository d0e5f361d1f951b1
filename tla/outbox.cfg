\* A notification and a state change under every kind of fault, three attempts, two processes.
CONSTANTS
    Events = {failure, stateChange}
    NoEvent = NoEvent
    Notifications = {failure}
    Workers = {w1, w2}
    MaxAttempts = 3
    MaxCrashes = 1
    MaxStalls = 1
    MaxErrors = 1
    MaxLost = 1
SPECIFICATION FairSpec
INVARIANT DeliveriesAccounted
PROPERTY EventuallySettled
CHECK_DEADLOCK FALSE
