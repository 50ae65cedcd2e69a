SPECIFICATION FairSpec
CONSTANTS
  CoherenceGranularity = 1
  Addrs <- MCAddrs
  Commands <- MCCmds
  Programs <- MCPrograms
  ProgramLength = 4
  None = None
  MayFault = TRUE
  EarlyComplete = FALSE
  MaxSent = 3
INVARIANTS
  TypeOK
  OneFetchOutstanding
  SleepHasReason
  NoAccessInFlightToLocked
  SentInOrder
  NothingLost
PROPERTY HostFinishes
CHECK_DEADLOCK FALSE
