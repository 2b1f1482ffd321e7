SPECIFICATION SettingsSpec
CONSTANTS
  Procs = {p1, p2, p3}
  Free = Free
  Nobody = Nobody
  MaxDeaths = 1
SYMMETRY Symmetry
INVARIANTS
  OneHolder
PROPERTY EntriesSurvive
CHECK_DEADLOCK FALSE
