CONSTANTS
    c1 = c1
    Clients = {c1}
    MinWorkers = 1
    MaxWorkers = 2
    MaxJobs = 1
    Mode = "worker"
    MaxID = 4
    MaxReloads = 0
    ShutdownSignal = TRUE
    DeadlineExpires = FALSE
    PromptStop = FALSE
SPECIFICATION Spec
CHECK_DEADLOCK FALSE
INVARIANTS
    GracefulShutdown
