SPECIFICATION FairSpec
CONSTANTS
  Threads = {1, 2}
  LPs = {"a", "b", "c"}
  Rid <- MCRid
  Msgs = {1,2,3,4,5,6,7,8,9,10,11,12,13,14}
  MaxT = 4
  InitTy = 9
  CkptInterval = 2
  GvtValues = {2}
  MaxSteps = 10
  Handler <- MCHandler
  InitAddr <- MCInitAddr
INVARIANTS StateMatchesLog CheckpointReachable GvtIsSafe CommittedIsSerial
PROPERTIES EndsAsSerial ImplementsMsgLife
