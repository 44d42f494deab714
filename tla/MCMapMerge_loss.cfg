SPECIFICATION Spec
CONSTANTS
  Job = {j1}
  Small = {}
  MaxSplits = 2
  MaxAttempts = 2
  MaxLosses = 1
  Worker = {w1, s1}
  OnDemand = {w1}
  Breakable = {s1}
  FullDisk = {w1}
  NoWorker = NoWorker
  NoTask = NoTask
INVARIANT MapInv
PROPERTY RefinesForkJoin
CHECK_DEADLOCK FALSE
