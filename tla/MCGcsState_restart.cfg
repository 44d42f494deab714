SPECIFICATION Spec
CONSTANTS
  MaxCounter = 2
  MaxOpen = 2
  MaxParts = 1
  MaxFaults = 2
  MaxQueue = 2
  RemovalFails = TRUE
  MaxBatch = 2
  Torn = Torn
  Scheduler = Scheduler
  Dashboard = Dashboard
  None = None
INVARIANTS TypeOK UniqueIds OpenIsNotDone StoreInv SavedWhenQuiet
CHECK_DEADLOCK FALSE
