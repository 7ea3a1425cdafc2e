CONSTANTS
    d1 = d1
    u1 = u1
    u2 = u2
    c1 = c1
    c2 = c2
    None = None
    Devices <- MCDevices
    Users <- MCUsers
    Calls <- MCCalls
    TTL = 2
    MaxSteps = 2
SPECIFICATION FairSpec
INVARIANTS
    TypeOK
PROPERTIES
    NotTakenByOthers
    AbandonedLapses
    Undisturbed
