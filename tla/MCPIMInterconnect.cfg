SPECIFICATION FairSpec
CONSTANTS
  Kernel = kernel
  Hosts = {h1, h2}
  NoPort = NoPort
  ReadBufferSize = 2
  WriteBufferSize = 3
  WriteHighThreshold = 2
  WriteLowThreshold = 1
  MinWritesPerSwitch = 2
  TouchesLocked = FALSE
INVARIANTS
  TypeOK
  QueuesBounded
  RefusedIsRemembered
  AssertionsHold
  SomeoneWakes
  ReadsAreServed
PROPERTY RefusedIsRetried
