SPECIFICATION SceneSpec
CONSTANTS
    NNodes = 3
    Attackers = {0}
    Tolerance = 0
    Depth = 8
    MaxHeight = 4
    Peers <- Row
    Fanout = 80
    WithPower = {0, 1, 2}
    Selfish = TRUE
    ConcealDepth = 2
    MaxMined = 5
INVARIANTS ConcealedIsOwn EndsInAgreement
PROPERTIES DeliveriesProgress
CHECK_DEADLOCK FALSE
