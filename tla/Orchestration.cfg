CONSTANTS
    d1 = d1
    d2 = d2
    t1 = t1
    p1 = p1
    p2 = p2
    q1 = q1
    s1 = s1
    o1 = o1
    None = None
    Devices <- MCDevices
    Types <- MCTypes
    Ids <- MCIds
    Calls <- MCCalls
    Asked <- MCAsked
    Reports <- MCReports
    MaxTrouble = 1
    Sessions <- MCSessions
    Members <- MCMembers
    Operators <- MCOperators
    MaxDrops = 1
SPECIFICATION MCSpec
INVARIANTS
    ActiveIsWhole
PROPERTIES
    Resumes
