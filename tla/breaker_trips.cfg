\* One process, a read that opens the breaker at two failures.
CONSTANTS
    Processes = {p1}
    Tasks <- OneRead
    NoTask = NoTask
    MaxTries <- ReadTries
    Threshold <- ReadThreshold
    Limit <- ReadLimit
    Retryable <- OneRead
    MaxCalls = 1
    MaxRestarts = 0
SPECIFICATION CallsSpec

PROPERTY BreakerTrips
CHECK_DEADLOCK FALSE
