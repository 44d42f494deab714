SPECIFICATION FairSpec
CONSTANTS
  Spot = {s1}
  OnDemand = {w1}
  Intervals = {1, 5}
  Threshold = 3
  Retry = 3
  Boot = 1
  Delay = 2
  MaxAge = 8
  MaxBoots = 1
  RemovalFails = TRUE
INVARIANTS TypeOK MembershipInv
PROPERTIES StaleEntriesGo SpotsReturn
