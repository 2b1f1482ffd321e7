SPECIFICATION RunnerFairSpec
CONSTANTS
  Runners = {r1, r2}
  Hooks = {h1, h2}
  Free = Free
  MayFailOpen = TRUE
  MaxSize = 2
  MaxCrashes = 1
INVARIANTS
  RunnerIInv
  OneRunner
CHECK_DEADLOCK FALSE
PROPERTY NeedServed
