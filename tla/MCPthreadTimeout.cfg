SPECIFICATION Spec
CONSTANTS
    Frames = {f1}
    NoFrame = NoFrame
    Capacity = 1
    MaxCount = 2
    Producers = {p1}
    Consumers = {c1}
    StatsModes = {TRUE}
    MaxCalls = 4
    Faults = {}
    TimeoutMayConsumeSignal = FALSE
PROPERTY
    TimeoutMeansBlocked
