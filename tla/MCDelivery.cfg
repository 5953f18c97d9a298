SPECIFICATION Spec
CHECK_DEADLOCK FALSE
CONSTANTS
  Samples <- MCSamples
  Groups <- MCGroups
  Addresses <- MCAddresses
  Informations = {0, 3}
INVARIANTS
  WellFormed
  Delivered
  FaithfulFloat
