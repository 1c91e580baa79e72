SPECIFICATION FairSpec
CONSTANTS
    Modes = {"normal", "retry", "timeout", "rx-full", "stop-full", "disconnect", "idle",
             "stream", "reconnect", "reconnect-timeout", "reconnect-exhausted"}
    QueueCapacity = 1
    Burst = 3
    MaxReconnects = 2
    MaxRetries = 1
    SocketCapacity = 1
    StreamReports = 2
INVARIANTS
    TypeOK
    BackpressureLosesNothing
    OnlineIsConfirmed
    StaleSnapshotsNeverShow
    SuccessIsEarned
    ReconnectsOnlyAfterBreak
PROPERTIES
    ImplementsConnection
    ProgramEnds
