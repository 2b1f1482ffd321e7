SPECIFICATION Spec
CONSTANTS
  s1 = s1
  s2 = s2
  Solutions = {s1, s2}
  Score <- MCScore
  MinScore = 1
  MaxAttributed = 1
  MaxPerSession = 2
  Procs = {p1, p2, p3}
  None = None
  MaxPrompts = 2
  MaxEvents = 2
  MaxFaults = 1
SYMMETRY Symmetry
INVARIANTS
  OneVerdict
  OneError
  NothingVanishes
  InjectedOnce
PROPERTIES
  VerdictsAreFinal
CHECK_DEADLOCK FALSE
