SPECIFICATION FairSpec
CONSTANTS
  CoherenceGranularity = 1
  Addrs <- MCAddrs
  WordSize = 2
  Commands <- MCCommands
  KernelType = "adder"
  Latency = 2
  Refusable = {"PIMRead"}
  MaxFailed = 2
INVARIANTS
  TypeOK
  AssertionsHold
  RunningIsRegistered
  OperandsCurrent
  PacketConservation
  RegistrationCount
PROPERTIES
  SendOnlyWhenFree
  ImplementsOffload
  CommandCompletes
