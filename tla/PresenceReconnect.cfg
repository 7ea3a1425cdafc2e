CONSTANTS
    d1 = d1
    s1 = s1
    s2 = s2
    None = None
    Devices <- MCOneDevice
    Sockets <- MCSockets
    SocketOf <- MCAllOfOne
    MaxFaults = 0
    MaxRestarts = 0
    MaxHeartbeats = 0
    MaxDeactivations = 0
SPECIFICATION Spec
INVARIANTS
    ServedIsOnline
