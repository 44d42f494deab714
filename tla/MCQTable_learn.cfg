SPECIFICATION FairSpec
CONSTANTS
  Thread = {t1, t2}
  State = {s1, s2}
  Top = 2
  MaxValue = 2
  MaxBoots = 1
  DiskFull = TRUE
  NoRow = NoRow
  Torn = Torn
  None = None
INVARIANTS TypeOK RowIsThere SavedTable
PROPERTY EpsilonReachesMin
