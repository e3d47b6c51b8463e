SPECIFICATION LaunchSpec
CONSTANTS
  MaxLps = 4
  MaxNodes = 1
  Cores = 3
  DEPTH_TO_KEEP = 200
  HashOptions = {30, 101}
  ToleranceOptions = {1, 201}
  DepthOptions = {2}
  HashPowers = {1, 2}
CHECK_DEADLOCK FALSE
INVARIANTS ReportIsWhole
