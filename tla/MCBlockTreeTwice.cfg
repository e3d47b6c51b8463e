SPECIFICATION Spec
CONSTANTS
    NNodes = 3
    Attackers = {0}
    Tolerance = 1
    Depth = 8
    MaxHeight = 5
    MaxBlocks = 10
    MaxOrphans = 1
    Steps = {1}
    MineAgain = TRUE
    Me = 0
    Network <- MiningBranches
INVARIANTS OneBlockPerHeight
CHECK_DEADLOCK FALSE
