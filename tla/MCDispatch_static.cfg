SPECIFICATION FairSpec
CONSTANTS
  MaxTask = 2
  BatchSizes = {2}
  QueueLimit = 2
  Deps <- NoDeps
  Worker = {w1, s1}
  OnDemand = {w1}
  Crashable = {}
  NoWorker = NoWorker
  Mode = "static"
  LoadVaries = FALSE
  BootOutlastsPoll = TRUE
INVARIANT ClaimInv
PROPERTY EveryTaskCompletes
