SPECIFICATION Spec
CONSTANTS
    b1 = b1
    Bundle <- Bundles
    Flashed = Flashed
    Torn = Torn
    None = None
    Faults = {"io", "signal", "late", "cut", "decay"}
    MaxLaunches = 2
INVARIANTS VerifiedOnly Heals OneUi RecordTrue
PROPERTIES AUiComesUp
