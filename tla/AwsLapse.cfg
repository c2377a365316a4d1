SPECIFICATION FairSpec
CONSTANTS
    a = a
    b = b
    Task = {a}
    Job = {i, j}
    Nobody = Nobody
    NoTask = NoTask
    MaxReceives = 3
    Attempts = 2
    Prompt = FALSE
    Plan <- OneChunk
    Smoke = FALSE
    MaxWorkers = 2
    FailureCap = 2
INVARIANTS
    DeletedIsDone
PROPERTIES
    CrashLoopEnds
CHECK_DEADLOCK FALSE
