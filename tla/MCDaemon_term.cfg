SPECIFICATION FairDaemonSpec
CONSTANT MaxSignals = 2
PROPERTIES TermNeverLost
