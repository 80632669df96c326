SPECIFICATION FairSpec
CONSTANTS
    t1 = t1
    t2 = t2
    Threads <- TwoThreads
    Mine <- OfDriver
    MaxCalls = 5
    MaxFaults = 1
    NIL = NIL
CHECK_DEADLOCK FALSE
INVARIANTS
    TypeOK
    SuspendedStaysOut
    FailsOnlyIfLate
PROPERTIES
    CallsEnd
    TerminatingEnds
