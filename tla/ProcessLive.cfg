CONSTANTS
    Requests = {r1}
    r1 = r1
    NoReq = NoReq
    MinWorkers = 1
    MaxWorkers = 1
    MaxJobs = 0
    RequestTimeout = TRUE
    MemoryLimit = FALSE
    MaxID = 2
    MaxReloads = 1
    MaxFaults = 1
    MaxReplacers = 1
    Ticking = FALSE
    StopCalled = TRUE
SPECIFICATION FairSpec
INVARIANTS
    NoWorkerLost
    NoOrphanProcess
PROPERTIES
    ExecReturns
    PoolRecovers
    StopEndsProcess
CHECK_DEADLOCK FALSE
