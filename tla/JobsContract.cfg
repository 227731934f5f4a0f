\* One job of two outputs: a cancel, a crash, a damaged file and a failed bundle write.
SPECIFICATION Spec
CONSTANTS
    j1 = j1 j2 = j2 c1 = c1 c2 = c2 w1 = w1 w2 = w2 None = None
    Jobs = {j1}
    Clients = {c1}
    Workers = {w1}
    Keys = {k}
    Outputs <- TwoOutputs
    Requests <- BothOrFlawed
    MaxCrashes = 1
    MaxCancels = 1
    MaxDamages = 1
    MaxFaults = 1
INVARIANTS ResultsAreTrue
PROPERTIES ProducedKept ImplementsContract
CHECK_DEADLOCK FALSE
