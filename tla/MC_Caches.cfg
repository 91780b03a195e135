\* Usage: two requests, three refreshes, the usage seen at two moments.
\* Events: two terminals, two refetches and a connection that breaks once.
\* The requests of the one are the terminals of the other: a1 and a2.
CONSTANTS
    a1 = a1  a2 = a2
    r1 = r1  r2 = r2  r3 = r3
    f1 = f1  f2 = f2
    Readers = {a1, a2}
    Refreshes = {r1, r2, r3}
    NoRefresh = NoRefresh
    MaxUsage = 2
    MaxInvalidations = 1
    MaxDirects = 1
    Ids = {a1, a2}
    Fetches = {f1, f2}
    Hydration = f1
    FetchMayFail = TRUE
    MaxChanges = 3
SPECIFICATION CachesSpec
SYMMETRY Symmetry
INVARIANTS
    CacheTypeOK
    RefreshesBounded
    InFlightIsRunning
    FreshIsNewest
    PersistedIsServed
    TypeOK
    EventsKeepUp
    AgentStateKeepsUp
