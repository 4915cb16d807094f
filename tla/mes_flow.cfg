\* Two stations, a confirmation each that may be sent twice, undone or lost.
SPECIFICATION Spec
CONSTANTS
  N = 2
  Quantity = 2
  Requests = {"r1", "r2", "r3"}
  Dto <- MCDto
  Incidents = {i1, i2}
  Reports <- MCReports
  Andons = {a1}
  Calls <- MCStops
  Crashes = TRUE
  Delivered <- MCDelivered
  LineTank = 1
  Workers = {w1, w2}
  Nobody = Nobody
INVARIANTS TypeOK ForwardWip  UnitsAccounted 
SYMMETRY Symmetry
CHECK_DEADLOCK FALSE
