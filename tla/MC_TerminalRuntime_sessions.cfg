\* Two terminals, two sockets, two spawns: who is attached to what, and what must
\* happen; a third terminal while nobody is attached: how many Sentiphs there are.
\* Liveness is checked, so there is no symmetry.
CONSTANTS
    t1 = t1  t2 = t2  t3 = t3
    c1 = c1  c2 = c2
    p1 = p1  p2 = p2
    Ids = {t1, t2, t3}
    Sockets = {c1, c2}
    Pids = {p1, p2}
    NoId = NoId
    NoPid = NoPid
    SentiphId = t1
    ClaudeIds = {}
    NoClaude = NoClaude
    SessionLimit = 1
    MaxChildren = 1
    Requests <- SessionRequests
    RemovalMayFail = FALSE
    SpawnMayFail = TRUE
    LogMayFail = FALSE
SPECIFICATION Spec
CONSTRAINT Bounded
INVARIANTS
    TypeOK
    RunningMatchesSession
    ProcessesAccountedFor
    SocketsAccountedFor
    SentiphHasOneDouble
PROPERTIES
    UnattendedSessionEnds
    ExitIsNoticed
CHECK_DEADLOCK FALSE
