SPECIFICATION FairLaunchSpec
CONSTANTS
  PathErrors = {"ENOENT", "EACCES", "ENOTDIR", "ELOOP", "ENAMETOOLONG"}
  MaxChanges = 3
INVARIANTS GivenUpForCause ReapedOnce
PROPERTY StartEnds
