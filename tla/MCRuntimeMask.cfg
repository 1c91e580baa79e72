SPECIFICATION Spec
CONSTANTS
    Modes = {"reconnect-exhausted"}
    QueueCapacity = 2
    Burst = 3
    MaxReconnects = 2
    MaxRetries = 1
    SocketCapacity = 2
    StreamReports = 2
INVARIANTS
    ResyncTimeoutIsFinal
