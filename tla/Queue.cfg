SPECIFICATION FairSpec
CONSTANTS
  Sessions = {s1, s2, s3}
  Phases = {solution}
  Workers = {w1, w2}
  Idle = Idle
  MaxJobs = 3
  MaxCrashes = 1
  MaxAttempts = 3
  MaxQueue = 2
  MaxAge = 1
  ClaimTime = 1
  Backoff <- ThreeStepBackoff
INVARIANTS
  TypeOK
  QueueShape
  ClaimExclusion
  NothingVanishes
PROPERTY QueueDrains
