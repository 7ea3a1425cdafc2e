CONSTANTS
    d1 = d1
    Devices <- MCOneDevice
    NumRuns = 2
    DevOf <- MCSameDevice
    Prio <- MCLaterFirst
    DispatchLimit = 2
    MaxFaults = 0
    MaxCrashes = 1
SPECIFICATION FairSpec
PROPERTIES
    QueuedIsDispatched
