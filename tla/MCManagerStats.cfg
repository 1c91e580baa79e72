SPECIFICATION Spec
CONSTANTS
    PendingCapacity = 3
    MaxSequence = 2
    ResponseTimeout = 1
    MaxRetries = 1
    MaxTime = 2
    MaxCount = 3
    StatsModes = {TRUE}
    MaxRequests = 3
    MaxCalls = 4
INVARIANT
    CountersExplainPending
