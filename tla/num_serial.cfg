\* One request at a time: allocations, lazy provisioning, admin edits, months.
SPECIFICATION Spec
CONSTANTS
  Allocators = {a1, a2}
  Admins = {d1}
  RowIds = {r1, r2}
  InitRows <- Unprovisioned
  BlockSizes = {1, 2}
  StartValues = {1, 2}
  Edits <- SafeEdits
  Default <- YearlyDefault
  LastMonth = 2
  YearOf <- MCYearOf
  MaxNext = 5
  OneAtATime = TRUE
  NoRow = NoRow
  Nobody = Nobody
  Keep = Keep
INVARIANTS UniqueFolios TotalCountsIssued
PROPERTY CounterNeverBackwards
CHECK_DEADLOCK FALSE
