\* Concurrent allocations of a provisioned yearly type across two years.
SPECIFICATION Spec
CONSTANTS
  Allocators = {a1, a2, a3}
  Admins = {}
  RowIds = {r1}
  InitRows <- Provisioned
  BlockSizes = {1, 2}
  StartValues = {1, 2}
  Edits <- NoEdits
  Default <- YearlyDefault
  LastMonth = 4
  YearOf <- MCYearOf
  MaxNext = 5
  OneAtATime = FALSE
  NoRow = NoRow
  Nobody = Nobody
  Keep = Keep
INVARIANTS TypeOK UniqueFolios
CHECK_DEADLOCK FALSE
