SPECIFICATION Spec
CONSTANTS
  Epochs = 3
  Attempts = 2
  Kinds = {"task"}
  Torn = Torn
  None = None
INVARIANTS ResumesForTheRest
CHECK_DEADLOCK FALSE
