CONSTANTS
  Keys = {"pid", "k1", "k2"}
  PartnerIdKey = "pid"
  RfcOnly = {"k1", "k2"}
  Values = {"", "a", "b", "p1", "p2"}
  Partners = {"p1", "p2"}
  None = None
  Empty = ""
  Dash = "-"
  Firmwares = {"f1", "f2"}
  Generic <- MCGeneric
  Device <- MCDevice
  Ops = {"override", "auth", "watch", "upgrade"}
  CrashPoints <- AllPoints
  IOFaults = {}
SPECIFICATION Spec
INVARIANT DefaultServed
INVARIANT StoreSynced
INVARIANT StoreMutualExclusion
