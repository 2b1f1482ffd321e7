SPECIFICATION Spec
CONSTANTS
  u = u
  w1 = w1
  w2 = w2
  Sessions = {w1, w2, u}
  Wrapped = {w1, w2}
  MaxToken = 1
  MaxRate = 1
  None = None
  MaxLimits = 2
SYMMETRY Symmetry
INVARIANTS
  OneRestartPerLimit
  
CHECK_DEADLOCK FALSE
