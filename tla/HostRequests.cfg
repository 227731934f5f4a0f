\* One session and every kind of input.
CONSTANTS
    s1 = s1 s2 = s2 o1 = o1 o2 = o2 p1 = p1 p2 = p2
    Sessions = {s1}
    Plans = {p1, p2}
    Owner <- Mine
    Product <- Distinct
    PlanLists <- Lists
    Kinds = {"fill", "revise", "change", "new", "back", "model", "summary", "approve", "run", "typed", "retryform", "retry"}
    Limit = 9
    RetryLimit = 1
    MaxInputs = 4
    MaxFaults = 1
    MaxCrashes = 0
SPECIFICATION Spec
INVARIANT JobsRemembered
PROPERTIES RunsWhatWasShown BackNeverCrosses
CHECK_DEADLOCK FALSE
