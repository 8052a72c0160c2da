SPECIFICATION Spec
CONSTANTS
    user = user
    session = session
    swipe_thresh = swipe_thresh
    gain = gain
    x = x
    y = y
    Key <- Keys
    Val <- Values
    Pair <- Account
    Reset <- Tuned
    SwipeKey = swipe_thresh
    None = None
    Absent = Absent
    Unsaid = Unsaid
    Long = Long
    Cap = 3
    MaxPending = 2
    Faults = {"write", "sync", "read", "cut"}
SYMMETRY Sym
INVARIANTS CleanMeansSaved SavedIsDurable WholeBatches
CHECK_DEADLOCK FALSE
