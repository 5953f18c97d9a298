\* Calls are bounded by MaxCalls, so the system comes to rest.
CONSTANTS
  Senders = {s1}
  Relays = {f}
  Queriers = {q1}
  QueryKeys = {"STATE"}
  Requests = {1, 2, 3, 4, 5, 6, 7}
  SeqMod = 2
  FailLimit = 2
  MaxCalls = 2
  MaxEvents = 0
  None = None
  Torn = Torn
SPECIFICATION FairSpec
PROPERTIES
  ImplementsSlots
  CallsReturn
CHECK_DEADLOCK FALSE
