SPECIFICATION Spec
CONSTANTS
    Text <- MCText
    Found <- MCFound
    Limit = 57
    MaxFrames = 2
INVARIANTS
    TypeOK
    InStep
    SameHeaders
    
\* A connection that has ended, or has sent all its frames, stays as it is.
CHECK_DEADLOCK FALSE
