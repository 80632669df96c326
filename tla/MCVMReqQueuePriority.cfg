CONSTANTS
    cCpus = 1
    r1 = r1
    r2 = r2
    r3 = r3
    Reqs <- OneReq
    MaxCalls = 1
    Calls <- CallNormal
    VMStates = {"running", "suspended"}
    AsyncNotify = {"never"}
    NIL = NIL
SPECIFICATION FairTimeoutSpec
PROPERTIES
    RequestsComplete
