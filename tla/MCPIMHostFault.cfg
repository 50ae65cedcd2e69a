SPECIFICATION Spec
CONSTANTS
  CoherenceGranularity = 1
  Addrs <- MCAddrs
  Commands <- MCCmds
  Programs <- MCPrograms
  ProgramLength = 3
  None = None
  MayFault = TRUE
  EarlyComplete = FALSE
  MaxSent = 4
INVARIANT RetriedOnce

