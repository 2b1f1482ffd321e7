SPECIFICATION LoopFairSpec
CONSTANTS
  Sessions = {s1, s2}
  StopRules = {r1}
  NoLoop = NoLoop
  Nobody = Nobody
  Threshold = 2
  Offenders = {s1}
  MaxBlocks = 1
  MaxStories = 1
  MaxEvents = 1
INVARIANTS
  RuleBlocksBounded
PROPERTIES
  LoopSettled
  EveryStopEnds
