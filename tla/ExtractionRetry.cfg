SPECIFICATION Spec
CONSTANTS
  Sessions = {s1}
  Runners = {r1, r2}
  Phases = {solution}
  Kinds = {"brief", "correction", "noise", "inject"}
  MinNewUserMsgs = 2
  SigWindow = 1
  MaxLen = 2
  MaxGens = 1
  MaxJobs = 2
  MaxMishaps = 0
  None = None
  MaxAttempts = 1
  MaxQueue = 1
  MaxAge = 0
  ClaimTime = 1
  Backoff <- OneTry
SYMMETRY Symmetry
INVARIANTS
  TypeOK
  CoveredUnlessBlind
  NothingHidden
PROPERTY CursorMovesBackOnlyOnReplacement
