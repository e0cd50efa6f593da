SPECIFICATION FairSpec
CONSTANTS
    Callers = {c1, c2}
    v1 = v1
    v2 = v2
    Videos = {v1, v2}
    Batches <- MCBatches
    Records = {r1}
    Keys = {k1, k2}
    Sizes = {3, 5}
    maxCacheMB = 2
    MB = 2
    IntRange = 8
    MaxNow = 1
    MaxCalls = 3
    MaxFaults = 1
    MaxCrashes = 1
INVARIANTS
    TypeOK
    OnlySavesAtRisk
    CacheWithinLimit
PROPERTIES
    SavedWhole
    ClearedWhole
    JustCachedStays
    CallReturns
