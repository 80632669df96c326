CONSTANTS
    cCpus = 2
    r1 = r1
    r2 = r2
    r3 = r3
    Reqs <- ThreeReqs
    MaxCalls = 3
    Calls <- CallProcess
    VMStates = {"running"}
    AsyncNotify = {}
    NIL = NIL
SYMMETRY Symmetry
SPECIFICATION Spec
INVARIANTS
    TypeOK
    ExactlyOnePlace
    NothingStranded
    NoLostWakeup
PROPERTIES
    CpuQueueIsFifo
