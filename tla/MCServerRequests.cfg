SPECIFICATION Spec
CONSTANTS
    c1 = c1
    c2 = c2
    c3 = c3
    NONE = NONE
    Conn = {c1, c2}
    Ptr = {p1, p2}
    Topic <- MCTopic
    Tag <- MCTag
    DefaultTag <- T0
    RequestsOf <- AllRequests
    MaxRequests <- TwoAndOne
    SocketBuffer = 2
    AcceptMayFail = TRUE
\* With all peers silent or gone the server waits for connections.
CHECK_DEADLOCK FALSE
SYMMETRY PtrSymmetry
INVARIANTS
    TypeOK
    TablesAgree
    WireIntegrity
PROPERTY
    ImplementsService
