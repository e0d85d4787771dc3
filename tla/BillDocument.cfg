SPECIFICATION Spec
CONSTANTS
  Generator = {g1, g2}
  Store = {s1, s2}
  MaxVersion = 2
  MaxClaims = 3
  MaxFailures = 2
INVARIANTS
  DocumentIsReadable
  CreatedOnce
PROPERTIES
  FinishedStays
CHECK_DEADLOCK FALSE
