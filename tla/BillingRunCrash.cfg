SPECIFICATION LiveSpec
CONSTANTS
  Account = {a1, a2}
  Pass = {p1, p2}
  NoAccount = NoAccount
  MaxResumes = 0
  ResumesAtOnce = 0
  MaxPosts = 1
  MaxCrashes = 2
  QueueMayFail = FALSE
INVARIANTS
  OneGenerationPass
PROPERTIES
  ZombieIsReclaimed
CHECK_DEADLOCK FALSE
