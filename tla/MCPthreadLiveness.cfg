SPECIFICATION FairSpec
CONSTANTS
    Frames = {f1}
    NoFrame = NoFrame
    Capacity = 1
    MaxCount = 1
    Producers = {p1}
    Consumers = {c1, c2}
    StatsModes = {FALSE}
    MaxCalls = 0
    Faults = {}
    TimeoutMayConsumeSignal = FALSE
PROPERTIES
    CloseReleasesAll
    DeadlineIsHonoured
