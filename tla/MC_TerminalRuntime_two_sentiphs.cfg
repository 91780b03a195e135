\* Two terminals, one of them with Sentiph's id; nobody is attached.
CONSTANTS
    t1 = t1  t2 = t2  t3 = t3
    c1 = c1  c2 = c2
    p1 = p1  p2 = p2
    Ids = {t1, t2}
    Sockets = {}
    Pids = {p1, p2}
    NoId = NoId
    NoPid = NoPid
    SentiphId = t1
    ClaudeIds = {}
    NoClaude = NoClaude
    SessionLimit = 2
    MaxChildren = 1
    Requests <- SentiphRequests
    RemovalMayFail = FALSE
    SpawnMayFail = TRUE
    LogMayFail = FALSE
SPECIFICATION Spec
INVARIANTS
    SentiphIsSingleton
CHECK_DEADLOCK FALSE
