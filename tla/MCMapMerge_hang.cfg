SPECIFICATION FairSpec
CONSTANTS
  Job = {j1, j2}
  Small = {j2}
  MaxSplits = 2
  MaxAttempts = 2
  MaxLosses = 0
  Worker = {w1, s1}
  OnDemand = {w1}
  Breakable = {}
  FullDisk = {}
  NoWorker = NoWorker
  NoTask = NoTask
PROPERTY LossIsNoticed
CHECK_DEADLOCK FALSE
