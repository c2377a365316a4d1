SPECIFICATION FairSpec
CONSTANTS
    a = a
    b = b
    Task = {a, b}
    Job = {i, j}
    Nobody = Nobody
    NoTask = NoTask
    MaxReceives = 2
    Attempts = 1
    Prompt = TRUE
    Plan <- TwoChunks
    Smoke = TRUE
    MaxWorkers = 2
    FailureCap = 2

INVARIANTS
    AbortsWithoutProgress
CHECK_DEADLOCK FALSE
