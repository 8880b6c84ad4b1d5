SPECIFICATION Spec
CONSTANTS
  Ids = {d1}
  Requests = {r1, r2}
  Nil = Nil
  Applications <- PlainApplication
  Splits <- OneSplit
  Holdbacks <- OneHoldback
  UtilityBills <- Bills
  MaxHistory = 7
PROPERTY ClosedIsFinal
CHECK_DEADLOCK FALSE
