SPECIFICATION Spec
CONSTANTS
  Job = {j1, j2}
  Small = {}
  MaxSplits = 2
  MaxAttempts = 1
  MaxLosses = 0
  Worker = {w1, s1}
  OnDemand = {w1}
  Breakable = {w1, s1}
  FullDisk = {}
  NoWorker = NoWorker
  NoTask = NoTask
INVARIANTS TypeOK NoLeakedClaim
PROPERTIES SkipsFinished MergesWhatWasSaved
SYMMETRY JobSymmetry
CHECK_DEADLOCK FALSE
