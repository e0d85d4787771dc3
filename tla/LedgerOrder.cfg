SPECIFICATION Spec
CONSTANTS
  MaxEntries = 4
  MaxAmount = 2
  LastDay = 2
  MaxCovered = 2
  Bill = {}
PROPERTIES
  PaymentOrder
CHECK_DEADLOCK FALSE
