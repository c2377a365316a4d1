CONSTANTS
    v = v
    w = w
    d1 = d1
    d2 = d2
    Worker = {v, w}
    Disk = {d1, d2}
    Sites <- ThreeSites
    Asks <- TwoAsks
    MaxRounds = 4
    MaxCrashes = 2
    None = None
    Torn = Torn
SPECIFICATION FairSpec
INVARIANTS
    StoredWhole
    FitAnswers
    ResumesAtLatest
    RestoresWhole
PROPERTY FitReturns
CHECK_DEADLOCK FALSE
