CONSTANTS
    cCpus = 1
    r1 = r1
    r2 = r2
    r3 = r3
    Reqs <- TwoReqs
    MaxCalls = 2
    Calls <- CallAsync
    VMStates = {"running", "suspended"}
    AsyncNotify = {"never", "none"}
    NIL = NIL
SPECIFICATION FairSpec
PROPERTIES
    AsyncWaitEnds
