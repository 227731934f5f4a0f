\* Two threads refresh a source that ages again and again and look at one that stays fresh; four
\* starts with two packages and one death; two request threads and three generations; six catalogs, two exports
\* and a fault; two generations of six products.
SPECIFICATION FairCatalogSpec
CONSTANTS
    t1 = t1 t2 = t2 k1 = k1 k2 = k2 Manual = Manual None = None Empty = Empty Blank = Blank Bad = Bad
    Packages = {k1, k2} MaxStarts = 4 MaxDeaths = 1
    Callers = {t1, t2} Capacity = 1 MaxGeneration = 3 MaxCalls = 4
    Threads = {t1, t2}
    Sources <- TwoSources
    Shared <- Nobody
    Cadence <- DailyAndYearly
    MaxTime = 4
    MaxVersion = 1
    MaxQueries = 3
INVARIANTS OneChecker FetchedOncePerCadence ServesOneCatalog CatalogIsWhole
PROPERTIES EveryQueryReturns
CHECK_DEADLOCK FALSE
