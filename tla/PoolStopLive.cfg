CONSTANTS
    c1 = c1
    Clients = {c1}
    MinWorkers = 1
    MaxWorkers = 1
    MaxJobs = 0
    Mode = "worker"
    MaxID = 2
    MaxReloads = 1
    ShutdownSignal = TRUE
    DeadlineExpires = TRUE
    PromptStop = FALSE
SPECIFICATION FairSpec
CHECK_DEADLOCK FALSE
PROPERTIES
    ShutdownCompletes
    StopReachesAll
