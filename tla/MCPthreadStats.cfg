SPECIFICATION Spec
CONSTANTS
    Frames = {f1}
    NoFrame = NoFrame
    Capacity = 1
    MaxCount = 3
    Producers = {p1, p2}
    Consumers = {c1, c2}
    StatsModes = {TRUE}
    MaxCalls = 5
    Faults = {"wait", "signal", "broadcast"}
    TimeoutMayConsumeSignal = TRUE
INVARIANTS
    TypeOK
    CountersExplainDepth
    EncountersCoverTimeouts
SYMMETRY Symmetry
