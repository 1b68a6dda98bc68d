SPECIFICATION FairSpec
CONSTANTS
  Threads = {"iarm", "rbus", "updater", "client"}
  Params <- MCParams
  Prefixes <- MCPrefixes
  Managers <- MCManagers
  DeviceMgr = "deviceMgr"
  Unknown <- Unnamed
  None = "none"
  Covers <- MCCovers
  Confs <- MCConfs
  Loads <- MCLoads
  MacParam = "mac"
INVARIANTS NoWaitCycle DeviceInfoExcludes RoutesToOwner
PROPERTY CallsReturn
