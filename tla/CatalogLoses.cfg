\* Two threads refresh two sources at the same time.
SPECIFICATION CatalogSpec
CONSTANTS
    t1 = t1 t2 = t2 k1 = k1 k2 = k2 Manual = Manual None = None Empty = Empty Blank = Blank Bad = Bad
    Packages = {k1, k2} MaxStarts = 4 MaxDeaths = 1
    Callers = {t1} Capacity = 1 MaxGeneration = 3 MaxCalls = 4
    Threads = {t1, t2}
    Sources <- TwoSources
    Shared <- Nobody
    Cadence <- DailyBoth
    MaxTime = 2
    MaxVersion = 0
    MaxQueries = 2
PROPERTIES RetainsUnrelated
CHECK_DEADLOCK FALSE
