CONSTANTS
    Requests = {r1,r2}
    r1 = r1
    r2 = r2
    NoReq = NoReq
    MinWorkers = 1
    MaxWorkers = 2
    MaxJobs = 2
    RequestTimeout = TRUE
    MemoryLimit = TRUE
    MaxID = 2
    MaxReloads = 0
    MaxFaults = 1
    MaxReplacers = 1
    Ticking = TRUE
    StopCalled = FALSE
SPECIFICATION Spec
SYMMETRY Symmetry
INVARIANTS
    TypeOK
    AnswerIsMine
    InStep
    NoWorkerLost
    NoOrphanProcess
    LimitsAreInvisible
PROPERTIES
    ImplementsLease
CHECK_DEADLOCK FALSE
