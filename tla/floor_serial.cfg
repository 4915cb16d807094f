\* One request at a time on one order: two holds, two stations that can run short.
SPECIFICATION Spec
CONSTANTS
  s1 = s1
  s2 = s2
  Planned = 1
  UseFactor = 1
  Stations = {s1, s2}
  Amounts = {0, 1}
  Keys = {k1, k2}
  At <- MCAt
  Operators = {"ana", "beto"}
  Granted = {"ana"}
  Holds = {h1, h2}
  Fais = {f1}
  FaiRequired = TRUE
  Workers = {w1}
  Crashes = FALSE
  None = None
INVARIANTS OpenHoldBlocks ShortageBlocks 
SYMMETRY Symmetry
CHECK_DEADLOCK FALSE
