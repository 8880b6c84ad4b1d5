SPECIFICATION Spec
CONSTANTS
  Ids = {d1}
  Requests = {r1, r2}
  Nil = Nil
  Applications <- MCApplications
  Splits <- TwoSplits
  Holdbacks <- OneHoldback
  UtilityBills <- Bills
  MaxHistory = 7
INVARIANTS TypeOK HistoryJustified AuditMatchesHistory NoNilDereference PledgeBacksPayout LastProposerRecorded
PROPERTY ClosedIsFinalAtRest
CHECK_DEADLOCK FALSE
