CONSTANTS
  Pids = {p1, p2, p3}
  NoPid = NoPid
  NoFile = NoFile
  Configs <- MainConfigs
  NumListeners = 1
  MaxEvents = 4
SPECIFICATION Spec
SYMMETRY PidSymmetry
INVARIANTS
  NoWorkerLost PendingHangupKept StatusExact KilledBeforeRelease ExitReleasesAll
  TimerKeepsRunning
PROPERTY ImplementsGracefulRestart
