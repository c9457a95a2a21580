\* Two starts that check before either registers.
SPECIFICATION Spec
CONSTANTS
    Captures = {c1, c2}
    Stops = {p1}
    Requests = {q1}
    Bodies = {b1}
    Alone = {}
    Url <- MCUrl
    Streamed = {}
    Size <- MCSize
    MaxBytes = 1
    MaxEvents = 2
    NoCapture = NoCapture
INVARIANTS
    SingleOwner
CHECK_DEADLOCK FALSE
