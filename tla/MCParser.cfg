SPECIFICATION Spec
CONSTANTS
    Base = 4
    ByteBits = 2
    Sync0 = 3
    Sync1 = 2
    Kinds = {1}
    MaxPayload = 1
    Crc <- Crc16
    Polynomial = 3
    InitialCrc = 15
    Capacity = 8
    ChunkSize = 3
    MaxCount = 6
    SentFrames <- MCSentFrames
    MaxSent = 2
    MaxFaults = 1
INVARIANTS
    TypeOK
    LeftmostFramesDelivered
    NeverStuck
    CleanLineIsLossless
    OnlyEncodingsAccepted
    CountersExplainBytes
