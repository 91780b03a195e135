\* The cascade instance whose worktree removals may fail.
CONSTANTS
    t1 = t1  t2 = t2  t3 = t3
    c1 = c1  c2 = c2
    p1 = p1  p2 = p2
    Ids = {t1, t2, t3}
    Sockets = {}
    Pids = {p1, p2}
    NoId = NoId
    NoPid = NoPid
    SentiphId = NoId
    ClaudeIds = {}
    NoClaude = NoClaude
    SessionLimit = 2
    MaxChildren = 2
    Requests <- CascadeRequests
    RemovalMayFail = TRUE
    SpawnMayFail = FALSE
    LogMayFail = FALSE
SPECIFICATION Spec
SYMMETRY Symmetry3
PROPERTIES
    DeleteTakesDescendants
CHECK_DEADLOCK FALSE
