SPECIFICATION Spec
CONSTANTS
  Threads = {1, 2}
  Master = 1
  MaxT = 1
  TermTime = 2
  Stops = 0
  LateTimer = FALSE
CHECK_DEADLOCK FALSE
INVARIANTS RowsAgree
