SPECIFICATION FairSpec
CONSTANTS
    p1 = p1
    p2 = p2
    k1 = k1
    k2 = k2
    Play <- Plays
    Cred <- OneKey
    None = None
    Cap = 1
    MaxGen = 3
    MaxLives = 1
    Faults = {}
PROPERTIES AuthSettles QueueDrains
CHECK_DEADLOCK FALSE
