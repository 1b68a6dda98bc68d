SPECIFICATION Spec
CONSTANTS
  Keys = {"k1", "k2"}
  NPKeys = {"n1"}
  Values = {"a", "b"}
  None = None
  Defaults <- MCDefaults
  Patterns <- MCPatterns
  Ops = {"webpa", "rfc", "iarm", "np", "session", "clearParam", "external", "reboot"}
  CrashPoints = {"idle", "job", "open"}
  IOFaults <- SomeFaults
  NoDefaults = TRUE
INVARIANT LocalWritesKept
INVARIANT RestartSafe
INVARIANT SemaphoreReturned
PROPERTY SessionExact
PROPERTY ServedStable
