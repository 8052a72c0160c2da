SPECIFICATION FairSpec
CONSTANTS
    b1 = b1
    b2 = b2
    b3 = b3
    Bundle <- One
    None = None
    Torn = Torn
    Flashed = Flashed
    Stock = Stock
    Epoch <- MCEpoch
    Version <- MCVersion
    MinUi = 0
    MaxBoots = 2
    Keep = 8
    MaxStarts = 1
    MaxCuts = 1
    Faults = {}
PROPERTIES TrialResolved StagedDecided
CHECK_DEADLOCK FALSE
