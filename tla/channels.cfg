\* Three channels of which only workflow jobs are known to end, two requests, both signals.
CONSTANTS
    Channels = {"workflow", "dataflow", "sourceTest"}
    Woken = {"workflow"}
    Prompt = {"workflow"}
    Signals = {SIGTERM, SIGINT}
    MaxRequests = 2
    MaxWork = 2
SPECIFICATION FairSpec
INVARIANT PoolOutlivesWork
PROPERTIES WorkTaken ShutdownEnds
CHECK_DEADLOCK FALSE
