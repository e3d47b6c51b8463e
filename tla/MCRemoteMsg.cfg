SPECIFICATION RemoteSpec
CONSTANTS
  Threads = {1, 2, 3}
  Nodes = {0, 1}
  NodeOf <- OneAndTwo
  Seeds <- FirstSeeds
  MaxT = 2
  MaxSent = 2
  MaxRounds = 3
INVARIANTS InFlightIsLive GvtIsSafe AntisAndMessagesMeet CountIsExact
