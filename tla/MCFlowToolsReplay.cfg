\* Two clients replay flows and clear the buffer while a flow is recorded and a
\* TLS handshake fails: five ids, four insertions, a buffer of two.
SPECIFICATION ToolsSpec
CONSTANTS
    Flows = {f1, r1, r2}
    Replays = {r1, r2}
    Wanted = {f1}
    Statused = {}
    Synthetic = {s1}
    NoSince = NoSince
    NoCursor = NoCursor
    Nobody = Nobody
    Limit = 2
    MaxFlows = 2
    MaxLog = 4
    Clients = {t1, t2}
    Calls = {"replay", "stop"}
SYMMETRY Symmetry
INVARIANTS
    RecorderInv
    AnswersAreRecorded
    ToolsTypeOK
    ReplayIsAnswered
CHECK_DEADLOCK FALSE
