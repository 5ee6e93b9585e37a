SPECIFICATION Spec
CONSTANTS
  Requests <- SmallRequests
  MaxFD = 7
  MaxSparse = 2
INVARIANTS
  NoLeak HandoffFaithful AcceptedIsServable AllOrNothing
