SPECIFICATION Spec
CONSTANTS
    c1 = c1
    c2 = c2
    c3 = c3
    NONE = NONE
    Conn = {c1}
    Ptr = {p1}
    Topic <- MCTopic
    Tag <- MCTag
    DefaultTag <- T0
    RequestsOf <- InvalidSubscribe
    MaxRequests <- OneEach
    SocketBuffer = 2
    AcceptMayFail = FALSE
\* With all peers silent or gone the server waits for connections.
CHECK_DEADLOCK FALSE
INVARIANT
    SubAckTruthful
