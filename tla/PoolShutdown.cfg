CONSTANTS
    c1 = c1
    c2 = c2
    Clients = {c1, c2}
    MinWorkers = 1
    MaxWorkers = 2
    MaxJobs = 1
    Mode = "worker"
    MaxID = 3
    MaxReloads = 0
    ShutdownSignal = TRUE
    DeadlineExpires = TRUE
    PromptStop = FALSE
SPECIFICATION Spec
SYMMETRY Symmetry
CHECK_DEADLOCK FALSE
INVARIANTS
    EngineUpWhileRunning
    NoFailedRequest
