SPECIFICATION Spec
CONSTANTS
    Commands <- MCCommands
    Long <- MCLong
    Cut <- MCCut
    Published <- MCPublished
    MaxInput = 2
    MaxPublished = 3
INVARIANTS
    TypeOK
    NothingSwallowed
    ToldInOrder
PROPERTY
    GetsThrough
CHECK_DEADLOCK FALSE
