\* Two people, each with a session of their own, whose requests lead to the same plans.
CONSTANTS
    s1 = s1 s2 = s2 o1 = o1 o2 = o2 p1 = p1 p2 = p2
    Sessions = {s1, s2}
    Plans = {p1, p2}
    Owner <- Each
    Product <- Distinct
    PlanLists <- Alike
    Kinds = {"fill", "run"}
    Limit = 2
    RetryLimit = 0
    MaxInputs = 4
    MaxFaults = 1
    MaxCrashes = 1
SPECIFICATION FairSpec
INVARIANT NoApprovalIsLeft
PROPERTIES EveryRunIsReported
CHECK_DEADLOCK FALSE
