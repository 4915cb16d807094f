\* One request at a time: the whole life of a kit.
SPECIFICATION Spec
CONSTANTS
  Clients = {c1}
  Bays = {"bay1", "bay2"}
  Parts = {"p1", "p2"}
  Mounted <- OneBay
  Supplied = 3
  TankStock = 3
  StagedStock = 3
  Target = 2
  Requests = {"k1", "k2", "k3"}
  EventIds = {1, 2, 3}
  Reports <- Sizes
  Declarations <- DeclareNone
  Reverting = TRUE
  MaxJobs = 4
  OneAtATime = TRUE
  NoEvent = NoEvent
  NoWip = NoWip
  Nothing = Nothing
INVARIANTS KitFollowsEvents
 
CHECK_DEADLOCK FALSE
