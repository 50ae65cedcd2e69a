SPECIFICATION FairSpec
CONSTANTS
  MaxAddr = 3
  Traces <- MCTraces
  Stride = 2
  WindowSize = 2
  MshrSize = 1
  L1Assoc = 1
  LlcAssoc = 2
  WriteBackSize = 0
  InspQueueMax = 3
  MaxRefused = 2
  MaxIdle = 1
INVARIANTS
  TypeOK
  InOrderOnce
  WaitingIsServed
  WaitingInMshr
PROPERTY TraceEnds
