CONSTANTS
  Sups = {s1, s2, old}
  Legacy = {old}
  Clients = {c1}
  Files = {f1, f2, f3}
  None = None
SPECIFICATION Spec
SYMMETRY FileSymmetry
CHECK_DEADLOCK FALSE
INVARIANT OwnerNamed
PROPERTIES RefusalNamesHolder ImplementsOwnership
