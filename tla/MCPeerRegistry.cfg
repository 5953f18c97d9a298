\* Operations are bounded by MaxOps, so the system comes to rest.
CONSTANTS
  Serials = {s1, s2}
  Groups = {g}
  MaxIds = 4
  Deleters = {d}
  None = None
  MaxObjects = 6
  MaxOps = 3
SPECIFICATION Spec
INVARIANTS
  IndexesAgree
  PacketsReachPeer
  OneRowPerDevice
PROPERTIES
  ImportsComplete
SYMMETRY DeviceSymmetry
CHECK_DEADLOCK FALSE
