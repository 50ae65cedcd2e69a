SPECIFICATION Spec
CONSTANTS
  CoherenceGranularity = 1
  Addrs <- MCAddrs
  Commands <- MCCmds
  Programs <- MCPrograms
  ProgramLength = 4
  None = None
  MayFault = FALSE
  EarlyComplete = TRUE
  MaxSent = 4
INVARIANT OneFetchOutstanding

