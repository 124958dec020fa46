SPECIFICATION Spec
CONSTANTS
    i1 = i1
    i2 = i2
    NoRate = NoRate
    Currencies = {"eur", "xxx"}
    Published = {"eur"}
    LastDay = 3
    SeedDays = {2}
    Instances = {i1, i2}
    Chunk = 1
    Concurrency = 1
    MaxRevision = 2
INVARIANTS
    NoHistoryGap
    CacheIsAuthoritative
    OnlyCrossedSyncsRegress
