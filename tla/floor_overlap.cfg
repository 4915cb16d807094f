\* Two requests at a time on one order: two confirmations, an inspection.
SPECIFICATION Spec
CONSTANTS
  s1 = s1
  s2 = s2
  Planned = 2
  UseFactor = 1
  Stations = {s1}
  Amounts = {1, 2}
  Keys = {k1, k2}
  At <- MCAt
  Operators = {"ana", "beto"}
  Granted = {"ana"}
  Holds = {}
  Fais = {f1}
  FaiRequired = TRUE
  Workers = {w1, w2}
  Crashes = TRUE
  None = None
INVARIANTS TypeOK NeverOvercounted NoUnitBeforeFirstPiece
SYMMETRY Symmetry
CHECK_DEADLOCK FALSE
