SPECIFICATION FairSpec
CONSTANTS
  None = None
  Values = {"a", "b"}
  Sets <- MCSets
  Loads <- MCLoads
  MaxChecks = 5
  MaxReads = 5
  MaxThreads = 2
INVARIANTS FeatureApplied SecureDebugFollows DownloadOwnSettings TunnelOneRequest StartTimeCurrent
PROPERTY ManageableSent
CHECK_DEADLOCK TRUE
