\* Two requests at a time on two bays: reports, retries, reverts, failures.
SPECIFICATION FairSpec
CONSTANTS
  Clients = {c1, c2}
  Bays = {"bay1", "bay2"}
  Parts = {"part"}
  Mounted <- EveryBay
  Supplied = 2
  TankStock = 3
  StagedStock = 2
  Target = 2
  Requests = {"k1", "k2"}
  EventIds = {1, 2, 3, 4}
  Reports <- Retried
  Declarations <- DeclareSome
  Reverting = TRUE
  MaxJobs = 4
  OneAtATime = FALSE
  NoEvent = NoEvent
  NoWip = NoWip
  Nothing = Nothing
INVARIANTS TypeOK MaterialBalance OncePerRequest
PROPERTIES ImplementsLog 
CHECK_DEADLOCK FALSE
