SPECIFICATION Spec
CONSTANTS
  Sessions = {s1}
  Runners = {r1}
  Phases = {solution, learning}
  Kinds = {"talk"}
  MinNewUserMsgs = 2
  SigWindow = 2
  MaxLen = 2
  MaxGens = 1
  MaxJobs = 2
  MaxMishaps = 1
  None = None
  MaxAttempts = 1
  MaxQueue = 1
  MaxAge = 0
  ClaimTime = 1
  Backoff <- OneTry
SYMMETRY Symmetry
INVARIANTS
  CoveredUnlessBlind
  NothingHidden
