SPECIFICATION Spec
CONSTANTS
    Sub <- MCSub
    TopicOf <- MCTopicOf
    Reader = {r1, r2}
    PubTopic <- MCPubTopic
    MallocMayFail = FALSE
    NULL = NULL
    Dangling = Dangling
SYMMETRY ReaderSymmetry
INVARIANTS
    TypeOK
    NoGarbage
    NoDanglingNode
    FindExact
