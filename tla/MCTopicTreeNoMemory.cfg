SPECIFICATION Spec
CONSTANTS
    Sub <- SmallSub
    TopicOf <- SmallTopicOf
    Reader = {r1, r2}
    PubTopic <- SmallPubTopic
    MallocMayFail = TRUE
    NULL = NULL
    Dangling = Dangling
\* The modelled execution ends where a failed allocation, or a freed node that it has
\* left a pointer to, leads to undefined behaviour or an exit.
CHECK_DEADLOCK FALSE
INVARIANTS
    ParentClosed
    Placed
PROPERTIES
    ImplementsSubscriptions
    FindTerminates
