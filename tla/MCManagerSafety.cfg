SPECIFICATION FairSpec
CONSTANTS
    PendingCapacity = 2
    MaxSequence = 3
    ResponseTimeout = 2
    MaxRetries = 1
    MaxTime = 4
    MaxCount = 1
    StatsModes = {FALSE}
    MaxRequests = 4
    MaxCalls = 0
INVARIANTS
    TypeOK
    InitialisedStateIsValid
    ReuseIsDistant
PROPERTIES
    ImplementsLedger
    EveryRequestEnds
