SPECIFICATION NoticeSpec
CONSTANTS
  Ids = {d1}
  Requests = {r1}
  Nil = Nil
  Applications <- MCApplications
  Splits <- TwoSplits
  Holdbacks <- WholeHoldback
  UtilityBills <- SteepBills
  MaxHistory = 7
  Trusteeships <- MCTrusteeships
  MaxOutbox = 2
CONSTRAINT CashInTrust
INVARIANTS UtilityProposalDividesReservation PapersAreTrue
PROPERTIES KeepsContract SubscriberCatchesUp
CHECK_DEADLOCK FALSE
