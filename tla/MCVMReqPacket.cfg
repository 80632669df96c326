SPECIFICATION FairSpec
CONSTANTS
    r1 = r1
    r2 = r2
    p1 = p1
    p2 = p2
    p3 = p3
    EMT = EMT
    NIL = NIL
    Requesters <- TwoRequesters
    Kinds <- CallKinds
    Packets <- ThreePackets
    Recycled <- TwoFree
    cLists = 1
    cMaxFree = 2
    MaxCalls <- CallLimits
CHECK_DEADLOCK FALSE
INVARIANTS
    TypeOK
    PacketsAccounted
    SignalFindsWaiter
    WaitTruthful
PROPERTIES
    RequestsEnd
