\* Two terminals, two spawns, one socket, any number of crashes and restarts.
CONSTANTS
    t1 = t1  t2 = t2
    c1 = c1
    p1 = p1  p2 = p2  a1 = a1
    Ids = {t1, t2}
    Sockets = {c1}
    Pids = {p1, p2}
    NoId = NoId
    NoPid = NoPid
    SentiphId = NoId
    ClaudeIds = {a1}
    NoClaude = NoClaude
    SessionLimit = 2
    MaxChildren = 0
    Requests <- RecoveryRequests
    RemovalMayFail = FALSE
    SpawnMayFail = TRUE
    LogMayFail = TRUE
    PidReuse = TRUE
SPECIFICATION RecoverySpec
SYMMETRY Symmetry
CONSTRAINT Bounded
INVARIANTS
    AfterRestart
    OnlyIdsUnsaved
    CloseLeavesNothingRunning
CHECK_DEADLOCK FALSE
