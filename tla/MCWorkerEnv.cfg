CONSTANTS
  GENERATION = GENERATION
  READY_FD = READY_FD
  dot = dot
  Names <- MCNames
  DotFiles <- MCDotFiles
  Protocol <- MCProtocol
  ReadyFD = READY_FD
  Ambient <- MCAmbient
  MaxEdits = 2
  MaxGeneration = 3
SPECIFICATION Spec
CHECK_DEADLOCK FALSE
INVARIANT HangupFresh
PROPERTY StopsOnlyForCause
