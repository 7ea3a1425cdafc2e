\* All executions end, and a device that is gone may stay away.
CHECK_DEADLOCK FALSE
CONSTANTS
    d1 = d1
    d2 = d2
    x1 = x1
    x2 = x2
    None = None
    Execs <- MCExecs
    Devices <- MCDevices
    Matches <- MCMatches
    Requested <- MCRequested
    MaxRetries = 2
    MaxMishaps = 2
SPECIFICATION Spec
INVARIANTS
    TypeOK
    WithinBudget
    LockIsWatched
    RunningIsWatched
CONSTRAINT Small
