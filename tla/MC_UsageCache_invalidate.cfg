\* One request at a time and one invalidation.
CONSTANTS
    q1 = q1
    r1 = r1  r2 = r2  r3 = r3
    Readers = {q1}
    Refreshes = {r1, r2, r3}
    NoRefresh = NoRefresh
    MaxUsage = 1
    MaxInvalidations = 1
    MaxDirects = 0
SPECIFICATION CacheSpec
PROPERTIES
    InvalidationForcesFetch
