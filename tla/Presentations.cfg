SPECIFICATION PresentationsSpec
CONSTANTS
  Ids = {d1, d2}
  Requests = {r1, r2}
  Nil = Nil
  Applications <- MCApplication
  Splits <- MCSplits
  Holdbacks <- MCHoldbacks
  UtilityBills <- MCBills
  MaxHistory = 6
  Sessions = {s1}
  Tokens = {t1}
  Creds = {c1}
  Workers = {w1}
  Store = "postgres"
  ListSize = 2
  MaxIndex = 1
  VpSessions = {v1}
CONSTRAINT FewEntries
SYMMETRY Interchangeable
INVARIANTS WalletEntriesBacked VpSessionSingleUse
PROPERTY PresentedIsActive
CHECK_DEADLOCK FALSE
