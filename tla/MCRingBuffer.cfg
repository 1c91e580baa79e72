SPECIFICATION Spec
CONSTANTS
    Bytes = {b1, b2}
    Capacity = 4
    MaxLength = 5
INVARIANTS
    TypeOK
    ConfiguredIsValid
PROPERTY
    ImplementsByteStream
