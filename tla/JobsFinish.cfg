\* A job of two outputs and its retry through a crash of the process; nobody cancels.
SPECIFICATION FairSpec
CONSTANTS
    j1 = j1 j2 = j2 c1 = c1 c2 = c2 w1 = w1 w2 = w2 None = None
    Jobs = {j1, j2}
    Clients = {c1}
    Workers = {w1}
    Keys = {k}
    Outputs <- TwoOutputs
    Requests <- BothOutputs
    MaxCrashes = 1
    MaxCancels = 0
    MaxDamages = 0
    MaxFaults = 0
INVARIANTS RetryIsDisjoint
PROPERTIES EveryJobFinishes
CHECK_DEADLOCK FALSE
