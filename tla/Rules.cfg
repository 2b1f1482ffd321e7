SPECIFICATION Spec
CONSTANTS
  r1 = r1
  h = h
  n1 = n1
  n2 = n2
  c1 = c1
  c2 = c2
  k1 = k1
  k2 = k2
  Rules <- MCRules
  Hard = {h}
  Known <- MCKnown
  Procs = {p1, p2}
  Cands = {c1, c2}
  Before <- MCBefore
  Keys = {k1, k2}
  Merged = Merged
  None = None
  MaxOps = 3
SYMMETRY Symmetry
INVARIANTS
  OffIsExplained
  HardRuleStays
  MergedIntoARule
  UsedHasItsRule
  OneRulePerKey
PROPERTIES
  SuppressedStaysOff
CHECK_DEADLOCK FALSE
