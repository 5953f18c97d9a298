\* Reads are bounded by MaxReads, so the system comes to rest.
CONSTANTS
  Readers = {worker, rpc}
  PacketThreads = {p1, p2}
  Channels = {c1, c2}
  Names = {x, y}
  None = None
  MaxReads = 2
SPECIFICATION FairSpec
INVARIANTS
  ReadsOwnVariable
  WaitIsAnswerable
PROPERTIES
  ReadsEnd
CHECK_DEADLOCK FALSE
