SPECIFICATION FairSpec
CONSTANTS
    Job = {1, 2}
    NoJob = 0
    Workers = 1
    ChanCap = 1
    MaxRequests = 1
    MaxNoise = 1
    Configs <- DeletingConfigs
    Env = {"dup", "sql", "crash", "edit", "delete", "start", "stop", "s3", "lost"}
INVARIANTS TypeOK OnePlace RecordingSurvives OpenSessionReaches
PROPERTIES ImplementsJobPool UploadSettles
CHECK_DEADLOCK FALSE
