\* Two requests at a time: receipts, issues, transfers, supplies, holds, failures.
SPECIFICATION FairSpec
CONSTANTS
  Clients = {c1, c2}
  Places = {"store", "rack", "LINE"}
  LinePlaces = {"LINE"}
  Lots = {"L1"}
  RowIds = {1, 2, 3, 4}
  InitRows <- TwoStores
  Transactions <- Mixed
  Supplies <- SupplyLine
  Holdable = {"store"}
  MaxJobs = 3
  OneAtATime = FALSE
  NoRow = NoRow
  NoPlace = NoPlace
  NoLot = NoLot
  Unset = Unset
  Clean = Clean
  Nothing = Nothing
INVARIANTS TypeOK  LedgerExplains SupplyExact
PROPERTY RequestsEnd
CHECK_DEADLOCK FALSE
