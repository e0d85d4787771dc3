SPECIFICATION LiveSpec
CONSTANTS
  Sweeper = {tonight, lastNight}
  Clerk = {c1}
  Tier = {1, 2}
  ShutOffs = {2}
  Reconnects = {2}
  MaxActions = 1
  MaxLeaves = 1
  MaxFailures = 2
PROPERTIES
  ClosedWithReconnection
  EpisodeCloses
CHECK_DEADLOCK FALSE
