SPECIFICATION Spec
CONSTANTS
    Frames = {f1}
    NoFrame = NoFrame
    Capacity = 2
    MaxCount = 1
    Producers = {p1}
    Consumers = {c1, c2}
    StatsModes = {FALSE}
    MaxCalls = 0
    Faults = {}
    TimeoutMayConsumeSignal = TRUE
INVARIANT
    NoStrandedWaiter
