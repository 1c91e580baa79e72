SPECIFICATION Spec
CONSTANTS
    Frames = {f1, f2}
    NoFrame = NoFrame
    Capacity = 3
    MaxCount = 4
INVARIANTS
    TypeOK
    ConfiguredIsValid
    CountersExplainDepth
    PeakIsHighWater
PROPERTY
    ImplementsFifo
SYMMETRY FrameSymmetry
