CONSTANTS
  Pids = {p1, p2}
  NoPid = NoPid
  NoFile = NoFile
  Configs <- WithTimer
  NumListeners = 0
  MaxEvents = 1
  Callers = {c1}
SPECIFICATION LiveRestartSpec
INVARIANT RestartSound
PROPERTIES
  RestartHasSuccessor RestartReturns HangupServed ShutdownCompletes
