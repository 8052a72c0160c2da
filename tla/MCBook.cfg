SPECIFICATION Spec
CONSTANTS
    b1 = b1
    s1 = s1
    Book <- OneBook
    Song <- OneSong
    NoTrack = NoTrack
    NoBook = NoBook
    MaxPos = 2
    QLen = 1
    MaxIds = 2
PROPERTIES BookmarkOwn BookmarkKept
CHECK_DEADLOCK FALSE
