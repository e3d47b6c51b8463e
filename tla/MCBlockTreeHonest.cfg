SPECIFICATION SceneSpec
CONSTANTS
    NNodes = 3
    Attackers = {2}
    Tolerance = 1
    Depth = 5
    MaxHeight = 11
    MaxBlocks = 20
    MaxOrphans = 9
    Steps = {0, 1}
    MineAgain = TRUE
    Me = 1
    Network <- EveryBlock
INVARIANTS LinksAreRight MainIsBest OneBlockPerHeight
CHECK_DEADLOCK FALSE
