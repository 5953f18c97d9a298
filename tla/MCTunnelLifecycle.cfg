CONSTANTS
  Channels = {c1, c2}
  SeqMod = 2
  MaxEvents = 1
  MaxStarts = 2
  Timely = FALSE
SPECIFICATION Spec
INVARIANTS
  OpenHasTunnel
  
  SocketUnused
PROPERTIES
  ChannelKept
SYMMETRY ChannelSymmetry
