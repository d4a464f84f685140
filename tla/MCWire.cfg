SPECIFICATION Spec
CONSTANTS
    Sizes <- MCSizes
    FixedSize = 8
    Buffer = 5
INVARIANTS
    TypeOK
    InStep
PROPERTY
    EventuallyRead
CHECK_DEADLOCK FALSE
