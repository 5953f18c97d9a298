CONSTANTS
  Clients = {a, b}
  None = None
  ChanMod = 256
  SeqMod = 3
  MaxConnects = 3
SPECIFICATION FairSpec
INVARIANTS
  InStep
  ManagementHasClient
PROPERTIES
  ManagementReleased
