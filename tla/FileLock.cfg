SPECIFICATION FairSpec
CONSTANTS
  Procs = {p1, p2, p3}
  NoFile = NoFile
  Win32 = FALSE
  UnlinkMayFail = TRUE
  MayStall = FALSE
INVARIANTS
  IInv
  ExclusionUntilStale
  ExclusionUnlessStolen
PROPERTIES
  TheftStartsWithRecovery
  EveryWaitEnds
CHECK_DEADLOCK FALSE
