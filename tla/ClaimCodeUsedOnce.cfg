SPECIFICATION Spec
CONSTANTS
  Deposits = {d1, d2}
  Sessions = {s1, s2}
  Tokens = {t1, t2, t3}
  Creds = {c1, c2, c3}
  Workers = {w1, w2}
  Store = "postgres"
  ListSize = 2
  MaxIndex = 3
  Nil = Nil
SYMMETRY Interchangeable
PROPERTY CodeUsedOnce
CHECK_DEADLOCK FALSE
