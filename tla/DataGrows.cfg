SPECIFICATION Spec
CONSTANTS
    Reads <- Chain
    Target <- NoneTwo
    Cap = 2
    Worker = {w1, w2}
    Idle = Idle
    Weights = {1, 3}
    MaxMembers = 3
    MaxRuns = 2
    MaxFixes = 0
INVARIANT SkippedIsDone
CHECK_DEADLOCK FALSE
