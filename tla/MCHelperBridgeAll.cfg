\* One call and everything that may happen around it.
SPECIFICATION LiveSpec
CONSTANTS
    Calls = {c1}
    Polls = {h1, h2}
    NoCall = NoCall
    NoPoll = NoPoll
    MaxId = 1
    Environment = {"silence", "pollFails", "responseLost", "dies",
                   "events", "rejects", "installFails", "close"}
INVARIANTS
    WokenHasAnswer
    PendingBelongsToLiveCall
PROPERTIES
    DisconnectIsPermanent
    EveryWaitEnds
    ImplementsRemoteCall
CHECK_DEADLOCK FALSE
