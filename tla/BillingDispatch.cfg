SPECIFICATION DispatchSpec
CONSTANTS
  MonthDays <- ShortMonths
  DayHours = 3
  BillDay = 3
  RunHour = 1
  Zones <- ThreeZones
  Retention = 21
  MaxFaults = 1
INVARIANTS
  BilledByMonthEnd
  UnbilledIsToldOnce
CHECK_DEADLOCK FALSE
