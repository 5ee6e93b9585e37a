CONSTANTS
  MaxInt = 4095
  Second = 10
  Inputs <- MCInputs
  Dirs <- MCDirs
  Root = "/"
  Above <- MCAbove
  None = None
  CommandPaths <- MCCommandPaths
  Trees <- MCTrees
  PIDPaths <- MCPIDPaths
SPECIFICATION MCSpec
INVARIANTS IntervalUsable ValidatedIsExecuted WalkIsExact WalkersAgree FDsBalanced
