CONSTANTS
    Task = {a, b}
    Worker = {u, v, w}
    NoTask = NoTask
    MaxRedeliveries = 1
    Forced = FALSE
    Prompt = FALSE
SPECIFICATION Spec
SYMMETRY Symmetry
INVARIANTS
    TypeOK
    NotLost
    ShownTrue
    OneExecutor
    NoRecompute
    DeadIsFinal
PROPERTIES
    ImplementsLeasedQueue
    ImplementsTaskPlane
CHECK_DEADLOCK FALSE
