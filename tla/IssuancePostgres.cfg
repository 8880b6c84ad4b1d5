SPECIFICATION ListSpec
CONSTANTS
  Deposits = {d1, d2}
  Sessions = {s1, s2}
  Tokens = {t1, t2, t3}
  Creds = {c1, c2}
  Workers = {w1, w2}
  Store = "postgres"
  ListSize = 4
  MaxIndex = 5
  ByteSize = 2
  Nil = Nil
SYMMETRY Interchangeable
INVARIANTS TypeOK IndicesUnique NoDoubleIssuance HeldIsRecorded StatusSourcesAgree ListTellsTheTruth
PROPERTIES RevocationIsPermanent KeepsRegistry
CHECK_DEADLOCK FALSE
