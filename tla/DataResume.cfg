SPECIFICATION Spec
CONSTANTS
    Reads <- Fork
    Target <- PackKeepPack
    Cap = 2
    Worker = {w1, w2}
    Idle = Idle
    Weights = {1, 3}
    MaxMembers = 2
    MaxRuns = 2
    MaxFixes = 1
SYMMETRY Symmetry
INVARIANTS
    TypeOK PackSound ResumeComplete
PROPERTIES
    DoneIsFrozen
CHECK_DEADLOCK FALSE
