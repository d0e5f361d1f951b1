\* Two processes, two calls each, one restart.
CONSTANTS
    Processes = {p1, p2}
    Tasks <- SharedTasks
    NoTask = NoTask
    MaxTries <- TriesOf
    Threshold <- ThresholdOf
    Limit <- LimitOf
    Retryable <- SafeToRetry
    MaxCalls = 2
    MaxRestarts = 1
SPECIFICATION FairCallsSpec
PROPERTIES OpenEarned CallsEnd
CHECK_DEADLOCK FALSE
