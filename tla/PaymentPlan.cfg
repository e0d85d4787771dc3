SPECIFICATION LiveSpec
CONSTANTS
  MaxDebits = 2
  Arrears = {1}
  Sweeper = {s1}
  MaxDay = 3
  MaxPlans = 1
  MaxCrashes = 1
  Face = 1
  DaysToPay = 0
  MaxStartDays = 1
  Counts = {1, 2}
  Downs = {0, 1}
  Period = 1
  GraceDays = 1
  MissedBeforeDefault = 1
  PartialCounts = FALSE
  CurrentBillCounts = TRUE
  AllowSecondPlan = FALSE
PROPERTIES
  ClosedForACause
  SettledIsClosed
  BrokenIsEnded
CHECK_DEADLOCK FALSE
