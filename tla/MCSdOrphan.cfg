SPECIFICATION Spec
CONSTANTS
    t1 = t1
    t2 = t2
    Thread <- OneThread
    None = None
    Faults = {"orphan"}
    MaxQueue = 1
    MaxLives = 1
    DirectMount = TRUE
    Overlap = FALSE
INVARIANT DecoderCovered
CHECK_DEADLOCK FALSE
