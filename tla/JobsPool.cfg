\* Two workers and two request threads contend for two jobs; a crash and a cancel.
SPECIFICATION Spec
CONSTANTS
    j1 = j1 j2 = j2 c1 = c1 c2 = c2 w1 = w1 w2 = w2 None = None
    Jobs = {j1, j2}
    Clients = {c1, c2}
    Workers = {w1, w2}
    Keys = {k}
    Outputs <- OneOutput
    Requests <- FirstOutput
    MaxCrashes = 1
    MaxCancels = 1
    MaxDamages = 0
    MaxFaults = 0
SYMMETRY Symmetric
INVARIANTS SingleRun KeyNamesOneJob NoOrphan
PROPERTIES CancelSticks
CHECK_DEADLOCK FALSE
