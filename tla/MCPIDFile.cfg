SPECIFICATION FairSpec
CONSTANTS
  Sups = {s1, s2}
  Clients = {c1}
  Inodes = {i1, i2, i3}
  None = None
INVARIANTS StaleNeverSignalled StopSound
PROPERTIES StopReturns ImplementsOwnership
