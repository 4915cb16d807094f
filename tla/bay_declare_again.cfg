\* One request at a time: report, declare, report, declare.
SPECIFICATION Spec
CONSTANTS
  Clients = {c1}
  Bays = {"bay1"}
  Parts = {"part"}
  Mounted <- EveryBay
  Supplied = 3
  TankStock = 3
  StagedStock = 3
  Target = 2
  Requests = {"k1", "k2"}
  EventIds = {1, 2, 3}
  Reports <- SameBay
  Declarations <- DeclareSome
  Reverting = FALSE
  MaxJobs = 4
  OneAtATime = TRUE
  NoEvent = NoEvent
  NoWip = NoWip
  Nothing = Nothing
INVARIANT DeclaredWithinProduced
CHECK_DEADLOCK FALSE
