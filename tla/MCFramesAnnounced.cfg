SPECIFICATION Spec
CONSTANTS
    Key <- MCKey
    KeyLen <- MCKeyLen
    Request <- MCRequest
    Limit = 46
    Found <- MCFound
    TimeLen = 1
    FromLen = 1
    CodeLen = 1
    AllocMayFail = TRUE
    NONE = NONE
INVARIANT
    AnnouncedSize
CHECK_DEADLOCK FALSE
