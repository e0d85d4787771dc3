SPECIFICATION LiveSpec
CONSTANTS
  Rows = 2
  Unparsable = {1}
  Chunk = 1
  Pass = {p1, p2}
  Operator = {o1}
  MaxRetries = 1
  MaxCrashes = 1
  MaxFaults = 1
  MaxLost = 1
  MaxMeetings = 1
INVARIANTS
  SummaryTellsRows
  RowImportedOnce
PROPERTIES
  BatchEnds
CHECK_DEADLOCK FALSE
