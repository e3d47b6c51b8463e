SPECIFICATION FairSpec
CONSTANTS
  Threads = {1, 2}
  Master = 1
  MaxT = 2
INVARIANTS GvtIsLowerBound RoundAgrees
PROPERTIES RoundCompletes
