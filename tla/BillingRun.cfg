SPECIFICATION LiveSpec
CONSTANTS
  Account = {a1, a2}
  Pass = {p1, p2}
  NoAccount = NoAccount
  MaxResumes = 2
  ResumesAtOnce = 1
  MaxPosts = 2
  MaxCrashes = 0
  QueueMayFail = TRUE
INVARIANTS
  RatedOnce
  StatusTellsItems
  BilledItemHasBill
PROPERTIES
  PostingFinishes
CHECK_DEADLOCK FALSE
