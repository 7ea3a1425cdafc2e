CONSTANTS
    e1 = e1
    e2 = e2
    e3 = e3
    t1 = t1
    t2 = t2
    f = f
    g = g
    Star = Star
    Events <- MCEvents
    Types <- MCTypes
    TypeOf <- MCTypeOf
    Subscriptions <- MCSubscriptions
    MaxQueue = 2
SPECIFICATION FairSpec
INVARIANTS
    TypeOK
    OneEventAtATime
    SeesAll
PROPERTIES
    AcceptedIsDispatched
    DeliversInOrder
