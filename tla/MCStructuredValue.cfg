SPECIFICATION Spec
CHECK_DEADLOCK FALSE
CONSTANTS
  t1 = t1
  t2 = t2
  Types <- MCTypes
  Threads = {t1, t2}
  Overlapping <- MCOverlapping
  MaxCalls = 2
  MaxCrashes = 1
  GroupAddress = 2305
SYMMETRY Symmetry
INVARIANTS
  RawKeepsSize
  FieldsAgree
  RestartLosesNothing
  FieldsWhole
