\* Polling until a job is finished and then reading its bundle, while another caller cancels it.
SPECIFICATION Spec
CONSTANTS
    j1 = j1 j2 = j2 c1 = c1 c2 = c2 w1 = w1 w2 = w2 None = None
    Jobs = {j1}
    Clients = {c1}
    Workers = {w1}
    Keys = {k}
    Outputs <- OneOutput
    Requests <- FirstOutput
    MaxCrashes = 0
    MaxCancels = 1
    MaxDamages = 0
    MaxFaults = 0
PROPERTIES CancelKeepsResults
CHECK_DEADLOCK FALSE
