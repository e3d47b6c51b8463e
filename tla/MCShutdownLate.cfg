SPECIFICATION FairSpec
CONSTANTS
  Threads = {1, 2}
  Master = 1
  MaxT = 1
  TermTime = 2
  Stops = 0
  LateTimer = TRUE
CHECK_DEADLOCK FALSE
PROPERTIES FlushCompletes
