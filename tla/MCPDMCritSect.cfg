CONSTANTS
    Emts = {e1, e2}
    IoThreads = {i1}
    MaxNest = 2
    NIL = NIL
SYMMETRY Symmetry
SPECIFICATION Spec
INVARIANTS
    TypeOK
    MutualExclusion
    AssertionsHold
    NestingsMatch
    QueuedOnce
    LockersMatch
    IsOwnerSound
PROPERTIES
    NoBarging
    IsRecursiveLock
