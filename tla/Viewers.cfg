CONSTANTS
    v1 = v1
    v2 = v2
    Viewers <- MCViewerSet
    QueueSize = 1
    Grace = 0
    MaxFrame = 2
    MaxPending = 2
    MaxDrops = 1
SPECIFICATION FairSpec
INVARIANTS
    TypeOK
    EndsWithNewest
    WantedStreams
PROPERTIES
    GoneLeaves
    UnwatchedStops
CHECK_DEADLOCK FALSE
