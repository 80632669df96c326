SPECIFICATION Spec
CONSTANTS
    e1 = e1
    e2 = e2
    p1 = p1
    p2 = p2
    NIL = NIL
    Emts <- TwoEmts
    Producers <- TwoProducers
    Contexts = {"R3", "R0"}
    cItems = 2
    Slack = 1
    MaxAllocs = 3
    MaxRefusals = 1
CHECK_DEADLOCK FALSE
SYMMETRY Symmetry
INVARIANTS TypeOK OneFlusher NobodyRacesUs EachItemOnce
PROPERTY InOrder
