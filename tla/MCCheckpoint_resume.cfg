SPECIFICATION Spec
CONSTANTS
  Epochs = 3
  Attempts = 3
  Kinds = {"task", "map"}
  Torn = Torn
  None = None
INVARIANTS TypeOK CheckpointsCount FullTraining
CHECK_DEADLOCK FALSE
