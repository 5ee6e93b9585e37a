CONSTANTS
  Supervisors = {s1, s2, s3}
  NoOne = NoOne
  NoFile = NoFile
  MaxGeneration = 2
  MaxCrashes = 1
SPECIFICATION Spec
SYMMETRY HandoverSymmetry
CHECK_DEADLOCK FALSE
INVARIANT HandoverSound
PROPERTY StatusOwn
