\* Small bounds for every part; parts come to an end.
CONSTANTS
    d1 = d1  d2 = d2
    l1 = l1  l2 = l2
    t1 = t1  t2 = t2
    c0 = c0  c1 = c1
    tab = tab
    a = a  b = b
    none = none
    Docs = {d1, d2}
    Loops = {l1, l2}
    NoLoop = NoLoop
    MaxPuts = 4
    IdleAfter = 2
    MaxEvents = 2
    MaxTime = 2
    MaxSessions = 2
    MaxInputs = 1
    Tentacles = {t1, t2}
    NoTentacle = none
    MaxRev = 2
    MaxReqs = 3
    Preferences = {c0, c1}
    Default = c0
    Unset = none
    UiTerminals = {t1}
    MaxPatches = 1
    MaxCommits = 3
    MaxRefused = 1
    Paths = {a, b}
    Nowhere = none
    MaxPort = 2
    MaxStarts = 2
    Legacy <- LegacyPorts
    Terminals = {t1, t2}
    Sentiph = t1
    None = none
    MaxMoves = 2
    Sizes <- PaneSizes
    DefaultSize <- PtySize
    Keep = 2
    MaxAttempts = 2
    MaxOutput = 3
    MaxConnects = 2
    MaxResizes = 1
    Pages = {tab}
    Jobs = {1, 2}
    MaxRelease = 2
    LogTerminals = {t1, t2}
    MaxStamp = 2
    MaxWrites = 3
SPECIFICATION PartsSpec
INVARIANTS
    RegistrySafe
    NoStrandedDocument
    RestingFileIsNewest
    AgentSafe
    GitSafe
    UiSafe
    GithubSafe
    StartupSafe
    CanvasSafe
    StreamSafe
    UpdateSafe
    CliSafe
    MetricsSafe
PROPERTIES
    WritesInOrder
    HandedOverIsWritten
    StepsForward
    AgentsFollowThrough
    PageFollowsThrough
CHECK_DEADLOCK FALSE
