SPECIFICATION LadderLiveSpec
CONSTANTS
  Evaluator = {job, route}
  Job = job
  Bill = {0, 1}
  Plannable = {0}
  MaxTier = 2
  TierDays = 1
  Notices = {1}
  Charging = {1, 2}
  Replacing = {2}
  MaxEvents = 2
  MaxDay = 2
INVARIANTS
  FeeOncePerTier
PROPERTIES
  EveryBillIsCharged
CHECK_DEADLOCK FALSE
