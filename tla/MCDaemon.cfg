SPECIFICATION FairDaemonSpec
CONSTANT MaxSignals = 3
INVARIANTS LauncherTruthful CleanExit
PROPERTIES LauncherReturns TermHandled HupServed
