SPECIFICATION HookSpec
CONSTANTS
  Ids = {d1}
  Requests = {r1, r2}
  Nil = Nil
  Applications <- MCApplication
  Splits = {}
  Holdbacks = {}
  UtilityBills = {}
  MaxHistory = 6
  Sdks = {"go", "ts", "rust", "java"}
  Hooks = {h1, h2}
  Outcomes = {"PENDING", "VERIFIED", "FAILED"}
  MaxFaults = 1
INVARIANTS IdentityBackedByEvent OkMeansRecorded AcknowledgedReachesCallback
PROPERTIES RecordedOnce AcceptedIsRecorded
CHECK_DEADLOCK FALSE
