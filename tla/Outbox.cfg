SPECIFICATION LiveSpec
CONSTANTS
  Caller = {page, run}
  Drain = {d1, d2}
  MaxRows = 2
  MaxAttempts = 3
  MaxFaults = 1
INVARIANTS
  ResentByFailedClaims
PROPERTIES
  EveryRowSettles
CHECK_DEADLOCK FALSE
