CONSTANTS
    c1 = c1
    Clients = {c1}
    MinWorkers = 1
    MaxWorkers = 2
    MaxJobs = 0
    Mode = "worker"
    MaxID = 2
    MaxReloads = 1
    ShutdownSignal = FALSE
    DeadlineExpires = FALSE
    PromptStop = FALSE
SPECIFICATION Spec
CHECK_DEADLOCK FALSE
INVARIANTS
    ReloadIsInvisible
