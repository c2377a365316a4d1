CONSTANTS
    a = a
    b = b
    a1 = a1
    a2 = a2
    Task = {a, b, a1, a2}
    Worker = {v, w}
    NoTask = NoTask
    MaxRedeliveries = 1
    Forced = FALSE
    Prompt = TRUE
    Plan <- TwoChunks
    Parts <- PartsOfA
    Smoke = TRUE
    Handler = TRUE
    Remediate = TRUE
    Remediations = {"retry_with", "resplit", "skip", "report"}
    MaxRemediations = 1
    MaxWorkers = 2
SPECIFICATION Spec
SYMMETRY Symmetry
INVARIANTS
    TypeOK
    NoneForgotten
    ReturnedComplete
    ManifestExact
    GateFirst
    Barrier
    FailsJustly
CHECK_DEADLOCK FALSE
