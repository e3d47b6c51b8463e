SPECIFICATION FairSpec
CONSTANTS
  Threads = {1, 2, 3}
  Master = 1
  MaxT = 1
  TermTime = 1
  Stops = 1
  LateTimer = TRUE
CHECK_DEADLOCK FALSE
INVARIANTS LoopIsOverBeforeDrain ReductionsAreOver
PROPERTIES ShutdownCompletes
