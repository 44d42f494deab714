SPECIFICATION FairSpec
CONSTANTS
  Modes = {"static", "dynamic", "q_learning"}
  Names <- Three
  MaxScale = 2
  Patience = 2
  DockerFails = TRUE
  Sticky <- First
  NoName = NoName
INVARIANTS TypeOK ScaleLimit
PROPERTY ScalesToZero
