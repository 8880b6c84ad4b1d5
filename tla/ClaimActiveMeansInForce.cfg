SPECIFICATION SmoothSpec
CONSTANTS
  Ids = {d1}
  Requests = {r1}
  Nil = Nil
  Applications <- MCApplication
  Splits <- MCSplits
  Holdbacks <- MCHoldbacks
  UtilityBills <- MCBills
  MaxHistory = 5
  Sessions = {s1}
  Tokens = {t1}
  Creds = {c1}
  Workers = {w1}
  Store = "postgres"
  ListSize = 2
  MaxIndex = 2
PROPERTY ActiveMeansInForce
CHECK_DEADLOCK FALSE
