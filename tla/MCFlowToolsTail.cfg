\* One client tails, from a cursor or without one, with a page of one while
\* three flows go through a buffer of two.
SPECIFICATION TailSpec
CONSTANTS
    Flows = {f1, f2, f3}
    Replays = {}
    Wanted = {f1, f2}
    Statused = {f1, f2}
    Synthetic = {}
    NoSince = NoSince
    NoCursor = NoCursor
    Nobody = Nobody
    Limit = 1
    MaxFlows = 2
    MaxLog = 5
    Clients = {t1}
    Calls = {"start", "none"}
PROPERTIES
    TailIsExact
    TailCatchesUp
CHECK_DEADLOCK FALSE
