\* Three calls; the page abandons a /poll and polls again, or dies.
SPECIFICATION Spec
CONSTANTS
    Calls = {c1, c2, c3}
    Polls = {h1, h2}
    NoCall = NoCall
    NoPoll = NoPoll
    MaxId = 3
    Environment = {"pollFails", "dies"}
SYMMETRY Symmetry
INVARIANTS
    AnswersOwnCall
    ReceivedInQueueOrder
    IndInv
CHECK_DEADLOCK FALSE
