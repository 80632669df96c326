SPECIFICATION FairSpec
CONSTANTS
    cCpus = 3
    Flags <- CallFlags
    Codes <- CallbackCodes
    MaxCalls = 2
    MaxPrio = 1
    NIL = NIL
CHECK_DEADLOCK FALSE
INVARIANTS
    TypeOK
    RunsAsAsked
    StatusReachesAll
    EverySignalTaken
    NestedCallsRefused
PROPERTIES
    IsGathering
    EveryoneComesBack
