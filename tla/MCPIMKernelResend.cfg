SPECIFICATION Spec
CONSTANTS
  CoherenceGranularity = 1
  Addrs <- MCAddrs
  WordSize = 2
  Commands <- MCCommands
  KernelType = "adder"
  Latency = 2
  Refusable = {"PIMRead", "PIMWrite"}
  MaxFailed = 1
PROPERTIES
  SendOnlyWhenFree
