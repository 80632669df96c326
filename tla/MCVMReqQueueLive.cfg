CONSTANTS
    cCpus = 2
    r1 = r1
    r2 = r2
    r3 = r3
    Reqs <- TwoReqs
    MaxCalls = 2
    Calls <- CallLive
    VMStates = {"running", "suspended"}
    AsyncNotify = {}
    NIL = NIL
SPECIFICATION FairSpec
PROPERTIES
    RequestsComplete
