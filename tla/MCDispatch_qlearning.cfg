SPECIFICATION Spec
CONSTANTS
  MaxTask = 2
  BatchSizes = {1, 2}
  QueueLimit = 2
  Deps <- NoDeps
  Worker = {w1, s1}
  OnDemand = {w1}
  Crashable = {s1}
  NoWorker = NoWorker
  Mode = "q_learning"
  LoadVaries = FALSE
  BootOutlastsPoll = TRUE
INVARIANTS TypeOK NothingLost NothingDuplicated NoLeakedClaim ExclusiveClaim PollFindsTask ArrivalOrder
PROPERTY RefinesLeases
