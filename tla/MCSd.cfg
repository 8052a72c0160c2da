SPECIFICATION Spec
CONSTANTS
    t1 = t1
    t2 = t2
    Thread <- OneThread
    None = None
    Faults = {"stuck"}
    MaxQueue = 2
    MaxLives = 1
    DirectMount = TRUE
    Overlap = FALSE
INVARIANTS HostAlone IntentRecorded GatesShut DecoderCovered ProtectedStaysShut
PROPERTIES RefinesOwner RevokedStaysShut RestartQuiet PoweroffQuiet
CHECK_DEADLOCK FALSE
