SPECIFICATION PartsSpec
CONSTANTS
  Msgs = {m1, m2, m3}
  B_TOTAL_EXP = 3
  B_BLOCK_EXP = 1
  CkptHdr = 3
  PtrSize = 1
  BuddyHdr = 16
  Addrs = {1, 2}
  Values = {1}
  MaxPtrs = 3
  MaxMsgs = 2
  MaxCalls = 4
  LPs = {1, 2, 3}
  MaxTime = 3
  TermTime = 3
  HEAP_K = 2
  Normal = {0}
  EndAtInit = {1}
  CkptAt = {1, 3}
  Delays = {1, 2}
  MaxLog = 6
  Miners = {0, 1}
  TXN_NUMBER = 4
  DelayTo <- ZeroAndOne
  MaxNow = 4
  MaxMined = 4
  Slots = 5
  Threads = {t1, t2, t3, t4}
  MaxLps = 4
  MaxNodes = 2
  Cores = 3
  DEPTH_TO_KEEP = 200
  HashOptions = {30, 101}
  ToleranceOptions = {1, 201}
  DepthOptions = {2}
  HashPowers = {1, 2}
  Procs = {0, 1, 2}
  ThreadsOf <- OneTwoOne
  MaxRows = 1
INVARIANTS NoUseAfterFree QueuedOnce ShutdownFreesOnce
INVARIANTS HeapIsRight NobodyIsLeftBehind OneLeader
INVARIANTS TreeIsExact ContentIsKept
INVARIANTS RetractablesAgree EndsAreExact VoteIsFinal
INVARIANTS ExecutedOnce HostedOnce PowerIsWhole StatsAreGathered
CHECK_DEADLOCK FALSE
