SPECIFICATION Spec
CONSTANTS
    p1 = p1
    p2 = p2
    k1 = k1
    k2 = k2
    Play <- Plays
    Cred <- Keys
    None = None
    Cap = 2
    MaxGen = 3
    MaxLives = 1
    Faults = {"full", "cut"}
INVARIANTS Kept SessionFits
PROPERTIES RefinesOutbox WipesOwn ResendsUnsure
CHECK_DEADLOCK FALSE
SYMMETRY Alike
