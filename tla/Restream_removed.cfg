SPECIFICATION Spec
CONSTANTS
    Url = {u1}
    MaxId = 1
    MaxEgress = 2
    MaxRequests = 1
    MaxRetriers = 1
    MaxTargets = 1
    RetryLimit = 1
    MaxFaults = 0
    Env = {}
INVARIANT RemovedIsSilent
CHECK_DEADLOCK FALSE
