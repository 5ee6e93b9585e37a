CONSTANTS
  Supervisors = {s1, s2}
  NoOne = NoOne
  NoFile = NoFile
  MaxGeneration = 2
  MaxCrashes = 0
SPECIFICATION Spec
SYMMETRY HandoverSymmetry
CHECK_DEADLOCK FALSE
PROPERTY StatusKept
