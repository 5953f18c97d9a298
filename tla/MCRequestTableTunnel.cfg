\* Calls are bounded by MaxCalls, so the system comes to rest.
CONSTANTS
  Senders = {s1, s2}
  Relays = {f}
  Queriers = {}
  QueryKeys = {}
  Requests = {1, 2, 3, 4, 5, 6, 7}
  SeqMod = 2
  FailLimit = 2
  MaxCalls = 3
  MaxEvents = 0
  None = None
  Torn = Torn
SPECIFICATION Spec
INVARIANTS
  ConfirmationBelongs
  NoLeftover
PROPERTIES
  FramesInOrder
SYMMETRY ThreadSymmetry
CHECK_DEADLOCK FALSE
