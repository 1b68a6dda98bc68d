---------------------------- MODULE ProfileMoCA ----------------------------
(***************************************************************************)
(* The Device.MoCA profile.  Every getter asks the MoCA driver through a   *)
(* handle it opens anew; none has a backup, so none reports a change.  A   *)
(* getter without a handle mostly answers OK and leaves the message as it  *)
(* was, and some do so when the driver refuses.                            *)
(***************************************************************************)
EXTENDS Getters

(* A SetAttributes leaves its entry in the notify table.                   *)
Attributes == "kept"

Driver(unopened, refused) == Handle(unopened, refused)

(* Device.MoCA.Interface.{i}: one object, whatever the instance number. *)
IdentityGetters ==
    All({"InterfaceNumberOfEntries"}, Fixed)
    @@ ("Enable" :> Via(Driver("void", "void"), "m_bEnable"))
    @@ All({"Status", "Name"}, Driver("void", "nok")) @@ All({"LastChange"}, Driver("nok", "nok"))
    @@ ("Alias" :> Memo("m_i8Alias")) @@ All({"LowerLayers"}, Void)
    @@ ("Upstream" :> Memo("m_bEnable"))
RateGetters ==
    All({"MACAddress", "FirmwareVersion", "MaxBitRate", "MaxIngressBW", "MaxEgressBW",
         "CurrentVersion"}, Driver("nok", "nok"))
    @@ ("HighestVersion" :> Via(Driver("nok", "nok"), "m_HighestVersion"))
NetworkGetters ==
    All({"NetworkCoordinator", "NodeID"}, Driver("nok", "nok"))
    @@ ("MaxNodes" :> Memo("m_HighestVersion"))
    @@ All({"PreferredNC", "BackupNC", "PrivacyEnabledSetting", "PrivacyEnabled"},
           Driver("void", "nok"))
FrequencyGetters ==
    All({"FreqCapabilityMask"}, Driver("void", "nok"))
    @@ All({"FreqCurrentMaskSetting", "FreqCurrentMask", "CurrentOperFreq", "LastOperFreq"},
           Driver("nok", "nok"))
    @@ All({"KeyPassphrase"}, Fixed)
PowerGetters ==
    All({"TxPowerLimit", "PowerCntlPhyTarget", "BeaconPowerLimit"}, Driver("nok", "nok"))
    @@ All({"NetworkTabooMask", "NodeTabooMask"}, Driver("void", "nok"))
CapabilityGetters ==
    All({"TxBcastRate", "TxBcastPowerReduction", "QAM256Capable", "PacketAggregationCapability",
         "AssociatedDeviceNumberOfEntries", "MeshTableNumberOfEntries"}, Driver("nok", "nok"))
ChannelGetters ==
    All({"PrimaryChannelFreq", "SecondaryChannelFreq", "TurboMode", "NodePowerState"},
        Driver("nok", "nok"))
InterfaceGetters == IdentityGetters @@ RateGetters @@ NetworkGetters @@ FrequencyGetters
                    @@ PowerGetters @@ CapabilityGetters @@ ChannelGetters
IdentityGets  == Same(DOMAIN IdentityGetters \cup DOMAIN RateGetters)
InterfaceGets == IdentityGets @@ Same(DOMAIN InterfaceGetters)
PollsOfIdentity ==
    Same({"Enable", "Status", "Alias", "Name", "LastChange", "LowerLayers", "Upstream",
          "MACAddress", "FirmwareVersion", "MaxBitRate", "MaxIngressBW", "MaxEgressBW",
          "HighestVersion"})
PollsOfNetwork ==
    Same({"CurrentVersion", "NetworkCoordinator", "NodeID", "MaxNodes", "PreferredNC",
          "BackupNC", "PrivacyEnabledSetting", "PrivacyEnabled", "FreqCapabilityMask",
          "FreqCurrentMaskSetting", "FreqCurrentMask", "CurrentOperFreq", "LastOperFreq"})
PollsOfPower ==
    Same({"KeyPassphrase", "TxPowerLimit", "PowerCntlPhyTarget", "BeaconPowerLimit",
          "NetworkTabooMask", "NodeTabooMask", "TxBcastRate", "TxBcastPowerReduction",
          "QAM256Capable", "PacketAggregationCapability"})
InterfacePolls == PollsOfIdentity @@ PollsOfNetwork @@ PollsOfPower
(* Enable and PreferredNC refuse the type their getter reports, so a       *)
(* client cannot set them; Alias keeps the parameter's name, not the       *)
(* value.  Without a handle the others answer OK.                          *)
SwitchSetters ==
    All({"Enable", "PreferredNC"}, NotWritten) @@ All({"Alias", "LowerLayers"}, NoEffect)
DriverSetters ==
    All({"PrivacyEnabledSetting", "FreqCurrentMaskSetting", "KeyPassphrase", "TxPowerLimit",
         "PowerCntlPhyTarget", "BeaconPowerLimit"}, Setter("ok", "nok", "self"))
InterfaceSetters == SwitchSetters @@ DriverSetters
InterfaceSets    == Same(DOMAIN InterfaceSetters)
InterfaceClass   == Class("one", "lazy", Attributes)

(* Stats, QoS, QoS.FlowStats.{j}, AssociatedDevice.{j}, MeshTable.{j}. *)
StatsLow ==
    All({"BytesSent", "BytesReceived", "PacketsSent", "PacketsReceived", "ErrorsSent",
         "ErrorsReceived", "UnicastPacketsSent", "UnicastPacketsReceived"}, Driver("nok", "nok"))
StatsHigh ==
    All({"DiscardPacketsSent", "DiscardPacketsReceived", "MulticastPacketsSent",
         "MulticastPacketsReceived", "BroadcastPacketsSent", "BroadcastPacketsReceived",
         "UnknownProtoPacketsReceived"}, Driver("nok", "nok"))
StatsGetters == StatsLow @@ StatsHigh
StatsGets  == Same(DOMAIN StatsGetters)
LowPolls   == Same(DOMAIN StatsLow)
StatsPolls == LowPolls @@ Same(DOMAIN StatsHigh)

FlowGetters ==
    All({"FlowID", "PacketDA", "MaxRate", "MaxBurstSize", "LeaseTime", "LeaseTimeLeft",
         "FlowPackets"}, Stub)
QoSGetters ==
    All({"EgressNumFlows", "IngressNumFlows", "FlowStatsNumberOfEntries"}, Stub)
FlowGets  == Same(DOMAIN FlowGetters \cup DOMAIN QoSGetters)
FlowPolls == Same(DOMAIN FlowGetters)
QoSPolls  == Same(DOMAIN QoSGetters)

PeerRates ==
    All({"MACAddress", "NodeID", "PreferredNC", "HighestVersion", "PHYTxRate", "PHYRxRate"},
        Driver("nok", "nok"))
PeerPower ==
    All({"TxPowerControlReduction", "RxPowerLevel", "TxBcastRate", "RxBcastPowerLevel",
         "TxPackets", "RxPackets"}, Driver("nok", "nok"))
PeerFlags ==
    All({"RxErroredAndMissedPackets", "QAM256Capable", "PacketAggregationCapability", "RxSNR",
         "Active"}, Driver("nok", "nok"))
PeerGetters == PeerRates @@ PeerPower @@ PeerFlags
PeerGets    == Same(DOMAIN PeerGetters)
RatePolls   == Same(DOMAIN PeerRates)
PeerPolls   == RatePolls @@ Same(DOMAIN PeerPower \cup DOMAIN PeerFlags)

(* The mesh table is read again only when the last reading is old, and a   *)
(* refusal leaves the old table.                                           *)
MeshRow     == Cached
MeshGetters == [p \in {"MeshTxNodeId", "MeshRxNodeId", "MeshPHYTxRate", "BondedChannel"} |->
                    Via(MeshRow, p)]
MeshGets    == Same(DOMAIN MeshGetters)
RowClass    == Class("shared", "lazy", Attributes)
=============================================================================
