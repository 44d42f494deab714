SPECIFICATION Spec
CONSTANTS
  Job = {j1}
  Small = {}
  MaxSplits = 2
  MaxAttempts = 2
  MaxLosses = 0
  Worker = {w1, s1, s2}
  OnDemand = {w1}
  Breakable = {}
  FullDisk = {}
  NoWorker = NoWorker
  NoTask = NoTask
PROPERTY MergeAveragesAll
CHECK_DEADLOCK FALSE
