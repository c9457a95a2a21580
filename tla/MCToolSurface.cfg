SPECIFICATION SurfaceSpec
CONSTANTS
    Threads = {t1, t2}
    Tabbing = {"navigate", "close", "new", "select", "closeTab", "list", "frame", "unframe"}
    MaxWindows = 3
    MaxTabCalls = 2
    Scripting = {"evaluate", "async", "chrome", "python"}
    Timeouts = {1, 2}
    MaxScripts = 4
    Resolvers = {r1, r2}
    NoFile = NoFile
    CacheFaults = {"kill", "network", "archive", "disk"}
    Hosts = {h1, h2}
    Cookies = {c1}
    Values = {v1, v2}
    NoValue = NoValue
    MaxRedirects = 1
    MaxEntries = 2
    BodyCap = 2
    BodySizes = {2, 3}
    MaxChunks = 2
    MaxRoutings = 3
    PollTimeouts = {0, 2}
    MaxTime = 4
    MaxPolls = 3
    Origins = {o1, o2}
    Items = {i1, i2}
    Stored = {s1}
    Unset = Unset
    MaxStateCalls = 2
    MaxChanges = 3
    OutputDir <- MCOutputDir
    AllowedRoots <- MCRoots
    Unrestricted = FALSE
    Links <- MCLinks
    Given <- MCGiven
    Downloads <- MCDownloads
    Artifacts <- MCArtifacts
    Outside <- MCOutside
    MaxMade = 3
    MaxItems = 3
    InlineCap = 2
    RowCap = 2
    SnippetHalf = 1
    Letters = {x, y}
    MaxText = 5
    MaxNeedle = 3
SYMMETRY MCSymmetry
INVARIANTS
    SurfaceTypeOK
    FocusIsTrue
    LoansComeBack
    CacheIsClean
    CookiesGoToWhoSetThem
    HttpAnswersAreHonest
    TunnelEndsWhole
    ExitPolicyIsOfItsCallers
    PollsAreRight
    NothingOutside
    SharedFilesAreKept
    AnswersAreHonest
PROPERTY RestoreIsFaithful
CHECK_DEADLOCK FALSE
