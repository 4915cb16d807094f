\* Two requests at a time that may crash, one of which imports calls: two tasks
\* of one unit for a store that has one.
SPECIFICATION FairSpec
CONSTANTS
  Workers = {w1, w2}
  Importers = {w1}
  TenantOf <- OneTenant
  Calls = {c1}
  CallQty <- MCCallQty
  Quantities = {1}
  Picks = {1}
  MinStock = 0
  MaxStock = 1
  InStore = 1
  MaxTasks = 2
  None = None
INVARIANTS TypeOK NextNumberFree ImportedOnce CompletedMoved
PROPERTIES DeliveryCloses
