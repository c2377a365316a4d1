SPECIFICATION Spec
CONSTANTS
    a = a
    b = b
    Task = {a, b}
    Job = {i, j}
    Nobody = Nobody
    NoTask = NoTask
    MaxReceives = 2
    Attempts = 2
    Prompt = TRUE
    Plan <- TwoChunks
    Smoke = TRUE
    MaxWorkers = 2
    FailureCap = 2
SYMMETRY Symmetry
INVARIANTS
    TypeOK OneExecutor NoRecompute DeletedIsDone ReturnedComplete
PROPERTIES
    ImplementsLeasedQueue
CHECK_DEADLOCK FALSE
