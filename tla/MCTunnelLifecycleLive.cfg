CONSTANTS
  Channels = {c1, c2}
  SeqMod = 2
  MaxEvents = 1
  MaxStarts = 1
  Timely = TRUE
SPECIFICATION FairSpec
PROPERTIES
  StopEnds
  Recovers
