SPECIFICATION Spec
CONSTANTS
  CoherenceGranularity = 1
  Addrs <- MCAddrs
  WordSize = 2
  Commands <- MCCommands
  KernelType = "adder"
  Latency = 2
  Refusable = {"PIMRead"}
  MaxFailed = 1
INVARIANTS
  IdleLeavesNothingBlocked
