CONSTANTS
  Keys = {"pid", "k2"}
  PartnerIdKey = "pid"
  RfcOnly = {"k2"}
  Values = {"", "a", "b", "p1", "p2"}
  Partners = {"p1", "p2"}
  None = None
  Empty = ""
  Dash = "-"
  Firmwares = {"f1"}
  Generic <- MCGenericKnown
  Device <- MCDevice
  Ops = {"override", "clear", "setPartner", "auth"}
  CrashPoints = {}
  IOFaults = {"append", "set.open", "rm.open", "clr.open", "end.open"}
SPECIFICATION Spec
INVARIANT OverrideActive
