CONSTANTS
    d1 = d1
    s1 = s1
    s2 = s2
    None = None
    Devices <- MCOneDevice
    Sockets <- MCSockets
    SocketOf <- MCAllOfOne
    MaxFaults = 1
    MaxRestarts = 1
    MaxHeartbeats = 2
    MaxDeactivations = 1
SPECIFICATION FairSpec
ACTION_CONSTRAINT
    Bounded
INVARIANTS
    TypeOK
    OpenIsRegistered
    EndedIsOffline
PROPERTIES
    LiveNotEvicted
    DeadIsUnregistered
    SilentGoesOffline
