SPECIFICATION Spec
CONSTANTS
  CoherenceGranularity = 2
  Addrs <- MCAddrs
  WordSize = 2
  Commands <- MCCommands
  LineSize = 2
  MaxPending = 2
INVARIANTS
  TypeOK
  FlushedOperandsInMemory
  HostCoherent
  OneSnapshot
CHECK_DEADLOCK FALSE
