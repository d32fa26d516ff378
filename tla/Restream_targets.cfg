SPECIFICATION FairSpec
CONSTANTS
    Url = {u1}
    MaxId = 1
    MaxEgress = 2
    MaxRequests = 2
    MaxRetriers = 2
    MaxTargets = 1
    RetryLimit = 2
    MaxFaults = 1
    Env = {"room", "sql", "lk", "lost", "restart"}
INVARIANTS TypeOK OneEgressPerTarget RetriesWithinLimit
PROPERTIES QuietStopIsFinal PromisedRetryComes
CHECK_DEADLOCK FALSE
