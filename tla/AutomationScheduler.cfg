CONSTANTS
    d1 = d1
    Devices <- MCOneDevice
    NumRuns = 2
    DevOf <- MCSameDevice
    Prio <- MCLaterFirst
    DispatchLimit = 2
    MaxFaults = 1
    MaxCrashes = 1
SPECIFICATION Spec
ACTION_CONSTRAINT OneMishap
INVARIANTS
    TypeOK
    RunningIsWatched
    NotSentTwice
PROPERTIES
    OutcomeStays
    TakesFreeDevices
