\* The same, asked about what happens while the client is disconnected.
CONSTANTS
    t1 = t1  t2 = t2
    f1 = f1  f2 = f2
    Ids = {t1, t2}
    Fetches = {f1, f2}
    Hydration = f1
    FetchMayFail = FALSE
    MaxChanges = 3
SPECIFICATION Spec
SYMMETRY Symmetry
INVARIANTS
    ReconnectCatchesUp
