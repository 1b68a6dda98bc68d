SPECIFICATION FairSpec
CONSTANTS
  Callers = {"iarm", "rbus"}
  LegacyModes <- BothModes
  Failures = {"conf", "iarm", "merge", "load", "status", "listen"}
  MaxSignals = 2
PROPERTY ReadyMeansServing
PROPERTY StartupEnds
PROPERTY ExitsWhenSignalled
CHECK_DEADLOCK FALSE
