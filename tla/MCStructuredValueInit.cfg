SPECIFICATION Spec
CHECK_DEADLOCK FALSE
CONSTANTS
  t1 = t1
  t2 = t2
  Types <- MCTypes
  Threads = {t1, t2}
  Overlapping = {}
  MaxCalls = 1
  MaxCrashes = 0
  GroupAddress = 2305
INVARIANTS
  OwnAddressOnly
