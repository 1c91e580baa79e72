SPECIFICATION Spec
CONSTANTS
    Frames = {f1, f2}
    NoFrame = NoFrame
    Capacity = 2
    MaxCount = 1
    Producers = {p1, p2}
    Consumers = {c1, c2}
    StatsModes = {FALSE}
    MaxCalls = 0
    Faults = {"init", "lock", "wait", "unlock"}
    TimeoutMayConsumeSignal = FALSE
INVARIANTS
    CoreStaysValid
    AllObjectsOrNone
    NoStrandedWaiter
PROPERTY
    ImplementsClosableFifo
SYMMETRY Symmetry
