\* One request at a time, with lots, explicit statuses and quality holds.
SPECIFICATION Spec
CONSTANTS
  Clients = {c1}
  Places = {"store", "rack", "LINE"}
  LinePlaces = {"LINE"}
  Lots = {"L1"}
  RowIds = {1, 2, 3, 4}
  InitRows <- StoreWithLot
  Transactions <- AllMoves
  Supplies <- SupplyLine
  Holdable = {"store", "rack"}
  MaxJobs = 3
  OneAtATime = TRUE
  NoRow = NoRow
  NoPlace = NoPlace
  NoLot = NoLot
  Unset = Unset
  Clean = Clean
  Nothing = Nothing
PROPERTIES HoldsBlockMovement HoldsStay ImplementsLedger
CHECK_DEADLOCK FALSE
