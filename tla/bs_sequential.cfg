CONSTANTS
  Keys = {"pid", "k1", "k2"}
  PartnerIdKey = "pid"
  RfcOnly = {"k2"}
  Values = {"", "a", "b", "p1", "p2"}
  Partners = {"p1", "p2"}
  None = None
  Empty = ""
  Dash = "-"
  Firmwares = {"f1", "f2"}
  Generic <- MCGeneric
  Device <- MCDevice
  Ops = {"override", "clear", "setPartner", "auth", "upgrade"}
  CrashPoints <- BetweenRewrites
  IOFaults = {}
SPECIFICATION Spec
INVARIANT OverrideActive
INVARIANT DefaultServed
INVARIANT FirmwareRecorded
INVARIANT StoreSynced
PROPERTY RfcSessionExact
