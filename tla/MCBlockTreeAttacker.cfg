SPECIFICATION Spec
CONSTANTS
    NNodes = 3
    Attackers = {0}
    Tolerance = 1
    Depth = 5
    MaxHeight = 10
    MaxBlocks = 20
    MaxOrphans = 1
    Steps = {1}
    MineAgain = FALSE
    Me = 0
    Network <- LateBranches
INVARIANTS NeverAborts StatsMatchMain
PROPERTIES OwnBlocksAreKept
CHECK_DEADLOCK FALSE
