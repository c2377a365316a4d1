SPECIFICATION Spec
CONSTANTS
    h = h
    flaky = flaky
    s = s
    t = t
    Hook = {h, flaky}
    Streamer = {s, t}
    Asked <- AskedHere
    Flaky = {flaky}
    Kinds <- KindsHere
    MaxEvents = 2
INVARIANTS
    TypeOK HooksHearAll StreamsHearAll
PROPERTIES
    StayersAreTold
CHECK_DEADLOCK FALSE
