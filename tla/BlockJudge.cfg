SPECIFICATION Spec
CONSTANTS
  v1 = v1
  v2 = v2
  v3 = v3
  a = a
  b = b
  r = r
  Violations = {v1, v2, v3}
  SessionOf <- MCSessionOf
  RuleOf <- MCRuleOf
  Rules = {r}
  None = None
  SessionCap = 1
  DayCap = 1
  DemoteMinJudged = 1
  MaxOdd = 1
INVARIANTS
  CapsHold
PROPERTIES
  UsersWordStands
  MarksLapse
CHECK_DEADLOCK FALSE
