SPECIFICATION Spec
CONSTANTS
    Subscriber = {"sub", "wild"}
    Publisher = {"pub"}
    TopicOf <- MCTopicOf
    MaxConnects = 2
    MaxLoops = 2
    MaxRequests = 2
    MaxOthers = 1
    NONE = NONE
INVARIANTS
    TypeOK
    RepliesMatched
    RunningAgrees
    MissedOnlyDuringCalls
PROPERTIES
    ConnectReturns
    Answered
    LoopsEnd
CHECK_DEADLOCK FALSE
