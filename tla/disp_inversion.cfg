SPECIFICATION Spec
CONSTANTS
  Threads = {"iarm", "client"}
  Params <- MCParams
  Prefixes <- MCPrefixes
  Managers <- MCManagers
  DeviceMgr = "deviceMgr"
  Unknown <- Unnamed
  None = "none"
  Covers <- MCCovers
  Confs <- ShippedConfs
  Loads <- InvertingLoads
  MacParam = "mac"
INVARIANT NoWaitCycle
