\* A call admitted before close() and registered after its sweep.
SPECIFICATION Spec
CONSTANTS
    Calls = {c1}
    Polls = {h1}
    NoCall = NoCall
    NoPoll = NoPoll
    MaxId = 1
    Environment = {"close"}
INVARIANTS
    ClosedLeavesNoWaiter
CHECK_DEADLOCK FALSE
