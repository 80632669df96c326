SPECIFICATION Spec
CONSTANTS
    e1 = e1
    e2 = e2
    p1 = p1
    p2 = p2
    NIL = NIL
    Emts <- TwoEmts
    Producers <- TwoProducers
    Contexts = {"R3"}
    cItems = 2
    Slack = 1
    MaxAllocs = 3
    MaxRefusals = 0
CHECK_DEADLOCK FALSE
INVARIANT InsertsAreCaught
