SPECIFICATION FairSpec
CONSTANTS
  MaxAddr = 6
  RamSize = 4
  PageSize = 2
  NProc = 2
  Functions <- MCFunctions
  MaxFunctions = 1
  Frames <- MCFrames
  CrtlQueueMax = 4
  WriteBackSize = 1
  DramDepth = 2
  HostAddrs = {2}
  HostOps = 2
  Warm <- MCWarm
  NoFunction = NoFunction
INVARIANTS
  TypeOK
  ExclusiveAccess
  IdleMeansUnlocked
  StageHasRequest
  StopIsClean
PROPERTIES
  NoRequestDropped
  FunctionCompletes
  HostAnswered
