\* A flow recorded between an empty listing and the cursor it returns.
SPECIFICATION ToolsSpec
CONSTANTS
    Flows = {f1}
    Replays = {}
    Wanted = {f1}
    Statused = {}
    Synthetic = {}
    NoSince = NoSince
    NoCursor = NoCursor
    Nobody = Nobody
    Limit = 1
    MaxFlows = 1
    MaxLog = 2
    Clients = {t1}
    Calls = {"none"}
INVARIANTS
    ListingMissesNothing
CHECK_DEADLOCK FALSE
