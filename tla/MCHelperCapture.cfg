\* One capture of two requests, one of them streamed in up to three chunks and
\* clipped to two bytes, and of one page body that fits either.
SPECIFICATION Spec
CONSTANTS
    Captures = {c1}
    Stops = {p1}
    Requests = {q1, q2}
    Bodies = {b1}
    Alone = {}
    Url <- MCUrl
    Streamed = {q1}
    Size <- MCSize
    MaxBytes = 2
    MaxEvents = 2
    NoCapture = NoCapture
INVARIANTS
    TypeOK
    BodiesInOrder
    CapturesAgree
PROPERTIES
    StopAccountsForEverything
CHECK_DEADLOCK FALSE
