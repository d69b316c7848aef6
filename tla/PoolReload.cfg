CONSTANTS
    c1 = c1
    c2 = c2
    Clients = {c1, c2}
    MinWorkers = 1
    MaxWorkers = 2
    MaxJobs = 1
    Mode = "worker"
    MaxID = 3
    MaxReloads = 1
    ShutdownSignal = FALSE
    DeadlineExpires = FALSE
    PromptStop = FALSE
SPECIFICATION Spec
SYMMETRY Symmetry
CHECK_DEADLOCK FALSE
INVARIANTS
    TypeOK
    SoleCustody
    NoWorkerLost
    NoOrphanEngine
    EngineUpWhileRunning
    RecycleBound
PROPERTIES
    ImplementsLease
