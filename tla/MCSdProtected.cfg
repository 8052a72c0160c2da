SPECIFICATION Spec
CONSTANTS
    t1 = t1
    t2 = t2
    Thread <- OneThread
    None = None
    Faults = {}
    MaxQueue = 1
    MaxLives = 0
    DirectMount = TRUE
    Overlap = TRUE
INVARIANT ProtectedStaysShut
CHECK_DEADLOCK FALSE
