SPECIFICATION FairSpec
CONSTANTS
    t1 = t1
    t2 = t2
    Thread <- OneThread
    None = None
    Faults = {}
    MaxQueue = 1
    MaxLives = 0
    DirectMount = FALSE
    Overlap = FALSE
PROPERTIES SwitchResolves GatesReopen
CHECK_DEADLOCK FALSE
