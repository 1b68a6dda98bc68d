CONSTANTS
  Keys = {"pid", "k1"}
  PartnerIdKey = "pid"
  RfcOnly = {}
  Values = {"", "a", "b", "p1", "p2"}
  Partners = {"p1", "p2"}
  None = None
  Empty = ""
  Dash = "-"
  Firmwares = {"f1"}
  Generic <- MCGeneric
  Device <- MCDevice
  Ops = {"setPartner", "auth", "watch"}
  CrashPoints = {}
  IOFaults = {"append", "set.open", "jrn.open", "rm.open"}
SPECIFICATION FairSpec
PROPERTY EveryCallReturns
