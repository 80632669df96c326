CONSTANTS
    Emts = {e1}
    IoThreads = {i1}
    MaxNest = 2
    NIL = NIL
SPECIFICATION FairSpec
PROPERTIES
    LeavesTakeEffect
