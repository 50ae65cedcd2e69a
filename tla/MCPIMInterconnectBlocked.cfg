SPECIFICATION FairSpec
CONSTANTS
  Kernel = kernel
  Hosts = {h1}
  NoPort = NoPort
  ReadBufferSize = 2
  WriteBufferSize = 3
  WriteHighThreshold = 2
  WriteLowThreshold = 1
  MinWritesPerSwitch = 2
  TouchesLocked = TRUE
PROPERTIES
  RefusedIsRetried
CHECK_DEADLOCK FALSE
