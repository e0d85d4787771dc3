SPECIFICATION Spec
CONSTANTS
  MaxEntries = 4
  MaxAmount = 3
  LastDay = 1
  MaxCovered = 0
  Bill = {b1}
INVARIANTS
  OpenItemBalance
  OpenWithinAmount
  NetPosition
  DepositIsolation
  ReversedIsSettled
PROPERTIES
  ChargesAbsorbCredit
  ConcessionsDoNotSpill
  HistoryIsKept
  RefundStaysBacked
  ImplementsPosition
CHECK_DEADLOCK FALSE
