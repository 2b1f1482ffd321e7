SPECIFICATION Spec
CONSTANTS
  s1 = s1
  s2 = s2
  Solutions = {s1, s2}
  Score <- MCScore
  MinScore = 1
  MaxAttributed = 1
  MaxPerSession = 2
  Procs = {p1}
  None = None
  MaxPrompts = 2
  MaxEvents = 0
  MaxFaults = 0
SYMMETRY Symmetry
PROPERTIES
  UnknownAtSessionEnd
CHECK_DEADLOCK FALSE
