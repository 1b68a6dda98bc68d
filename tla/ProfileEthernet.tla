-------------------------- MODULE ProfileEthernet --------------------------
(***************************************************************************)
(* The Device.Ethernet profile.                                            *)
(***************************************************************************)
EXTENDS Getters

(* A SetAttributes frees the entry it has inserted in the notify table.    *)
Attributes == "freed"

(* Device.Ethernet.Interface.{i}: the static structure stEthInterface is   *)
(* cleared and then filled from /sys; what cannot be read stays cleared.   *)
LinkFields  == Live("default")
LinkGetters ==
    SharedAll({"Enable", "Status", "Name"}, LinkFields) @@ All({"LastChange"}, Stub)
RateGetters ==
    All({"LowerLayers"}, Stub)
    @@ SharedAll({"Upstream", "MACAddress", "MaxBitRate", "DuplexMode"}, LinkFields)
InterfaceGetters == LinkGetters @@ RateGetters
InterfaceGets    == Same(DOMAIN InterfaceGetters)
InterfacePolls   == Same(DOMAIN InterfaceGetters)

(* The command is for interface eth-1, whichever instance is set. *)
InterfaceSetters ==
    All({"Enable"}, Setter("ok", "ok", "none"))
    @@ All({"Alias", "LowerLayers", "MaxBitRate", "DuplexMode"}, NotWritten)
InterfaceSets ==
    [Same({"Enable", "Alias", "LowerLayers", "DuplexMode", "MaxBitRate"})
        EXCEPT !["MaxBitRate"] = "Enable"]
InterfaceClass == Class("own", "reinit", Attributes)

(* Device.Ethernet.Interface.{i}.Stats.: only the byte counters name a     *)
(* file; the others open a path that starts with "cat ", which fails, and  *)
(* report what the static structure held from the start.  A file that      *)
(* cannot be read leaves the counter of the interface asked before.        *)
ByteCounter(p)   == Via(Live("stale"), p)
PacketCounter(p) == Memo(p)
StatsLow ==
    [p \in {"BytesSent", "BytesReceived"} |-> Tracked(ByteCounter(p), p)]
    @@ [p \in {"PacketsSent", "PacketsReceived", "ErrorsReceived"} |-> Tracked(PacketCounter(p), p)]
    @@ ("ErrorsSent" :> Tracked(PacketCounter("ErrorsSent"), "ErrorSent"))
(* Four counters compare with the backup of another counter. *)
StatsMiddle ==
    ("UnicastPacketsSent" :> Tracked(PacketCounter("UnicastPacketsSent"), "ErrorsSent"))
    @@ ("UnicastPacketsReceived" :>
            Tracked(PacketCounter("UnicastPacketsReceived"), "UnicastPacketsReceived"))
    @@ ("DiscardPacketsSent" :> Tracked(PacketCounter("DiscardPacketsSent"), "UnicastPacketsSent"))
    @@ ("DiscardPacketsReceived" :>
            Tracked(PacketCounter("DiscardPacketsReceived"), "DiscardPacketsReceived"))
    @@ ("MulticastPacketsSent" :>
            Tracked(PacketCounter("MulticastPacketsSent"), "UnicastPacketsReceived"))
StatsHigh ==
    [p \in {"MulticastPacketsReceived", "BroadcastPacketsSent", "BroadcastPacketsReceived"} |->
        Tracked(PacketCounter(p), p)]
    @@ ("UnknownProtoPacketsReceived" :>
            Tracked(PacketCounter("UnknownProtoPacketsReceived"), "MulticastPacketsSent"))
StatsGetters == StatsLow @@ StatsMiddle @@ StatsHigh
StatsGets    == Same(DOMAIN StatsGetters)
LowPolls     == Same(DOMAIN StatsLow)
StatsPolls   == LowPolls @@ Same(DOMAIN StatsMiddle \cup DOMAIN StatsHigh)
StatsClass   == Class("own", "reinit", Attributes)
=============================================================================
