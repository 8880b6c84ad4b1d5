SPECIFICATION Spec
CONSTANTS
  Kids = {k1}
  Supported = {k1}
  Requests = {r1, r2}
  TTL = 2
  MaxLatency = 1
  MaxTime = 5
  Nil = Nil
SYMMETRY Interchangeable
INVARIANTS WithdrawnKeysExpire SettledKeyIsFound
CHECK_DEADLOCK FALSE
