CONSTANTS
    None = None
    Required = {"db"}
    Optional = {"feed"}
    MaxSequence = 1
    MaxTime = 1
    MaxSeen = 3
SPECIFICATION MCSpec
INVARIANTS
    OrderFree
    JournalSound
PROPERTIES
    NewsMovesForward
    EventuallyAnnounced
CHECK_DEADLOCK FALSE
