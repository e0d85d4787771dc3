SPECIFICATION DispatchSpec
CONSTANTS
  MonthDays <- ShortMonths
  DayHours = 3
  BillDay = 3
  RunHour = 1
  Zones <- Utc
  Retention = 21
  MaxFaults = 1
PROPERTIES
  StaysDispatchable
CHECK_DEADLOCK FALSE
