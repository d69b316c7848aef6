CONSTANTS
    c1 = c1
    c2 = c2
    c3 = c3
    Clients = {c1, c2, c3}
    MinWorkers = 1
    MaxWorkers = 3
    MaxJobs = 0
    Mode = "worker"
    MaxID = 4
    MaxReloads = 0
    ShutdownSignal = FALSE
    DeadlineExpires = FALSE
    PromptStop = TRUE
SPECIFICATION FairSpec
INVARIANTS
    SizeWithinBounds
    SendsNeverBlock
PROPERTIES
    ExecReturns
