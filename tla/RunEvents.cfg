CONSTANTS
    a = a
    b = b
    Task = {a, b}
    Worker = {v, w}
    NoTask = NoTask
    Controller = Controller
    MaxRedeliveries = 0
    Forced = FALSE
    Prompt = TRUE
    Plan <- TwoChunks
    Parts <- NoParts
    Smoke = TRUE
    Handler = TRUE
    Remediate = TRUE
    Remediations = {"retry_with", "skip"}
    MaxRemediations = 1
    MaxWorkers = 2
SPECIFICATION EventsSpec
INVARIANTS
    InStep
    RunDoneLast
    AllAnnounced
PROPERTY EndIsAnnounced
CHECK_DEADLOCK FALSE
