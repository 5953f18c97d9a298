\* Calls are bounded by MaxCalls, so the system comes to rest.
CONSTANTS
  Senders = {s1}
  Relays = {f}
  Queriers = {q1, q2}
  QueryKeys = {"STATE", "CONNECT", "DISCONNECT"}
  Requests = {1, 2, 3, 4, 5, 6, 7}
  SeqMod = 2
  FailLimit = 2
  MaxCalls = 2
  MaxEvents = 1
  None = None
  Torn = Torn
SPECIFICATION Spec
INVARIANTS
  TypeOK
  LiveEntry
  ReadyHasResponse
  NoCrossTalk
  NoTornRead
  OnlyAskerHoldsUp
  AloneForcesReconnect
SYMMETRY ThreadSymmetry
CHECK_DEADLOCK FALSE
