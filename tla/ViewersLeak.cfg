CONSTANTS
    v1 = v1
    v2 = v2
    Viewers <- MCViewerSet
    QueueSize = 1
    Grace = 1
    MaxFrame = 2
    MaxPending = 2
    MaxDrops = 1
SPECIFICATION Spec
INVARIANTS
    RegisteredIsServed
