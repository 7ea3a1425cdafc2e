CONSTANTS
    d1 = d1
    d2 = d2
    d3 = d3
    t1 = t1
    p1 = p1
    p2 = p2
    p3 = p3
    q1 = q1
    q2 = q2
    x1 = x1
    x2 = x2
    x3 = x3
    c1 = c1
    c2 = c2
    k1 = k1
    k2 = k2
    k3 = k3
    g1 = g1
    g2 = g2
    r1 = r1
    r2 = r2
    h1 = h1
    i1 = i1
    i2 = i2
    u1 = u1
    u2 = u2
    a1 = a1
    a2 = a2
    o1 = o1
    None = None
    Unset = Unset
    NoStream = NoStream
    NoKey = NoKey
    NoImage = NoImage
    Devices <- MCDevices
    Types <- MCTypes
    Ids <- MCIds
    Calls <- MCCalls
    Asked <- MCAsked
    MaxTrouble = 2
    StreamDevices <- MCStreamDevices
    Streams <- MCStreams
    Enders <- MCEnders
    MaxLost = 1
    ApiKeys <- MCKeys
    Tags <- MCTags
    Requests <- MCRequests
    TokenRequests <- MCTokenRequests
    AccessLife = 1
    RefreshLife = 2
    Delay = 1
    MaxTime = 6
    Shots <- MCShots
    Images <- MCImages
    Uploads <- MCUploads
    Serials <- MCSerials
    Resolvers <- MCResolvers
    Screens <- MCScreens
    Views <- MCViews
    PerPage = 1
    MaxRows = 3
SPECIFICATION MCSpec
INVARIANTS
    GraphFollowsRows
    RelatedIsComponent
    RoundTrip
    OfflineEndsActive
    ReplacedStaysOut
    ReplacedKeyLapses
    RowDescribesFile
    WalkMissesNothing
CHECK_DEADLOCK FALSE
