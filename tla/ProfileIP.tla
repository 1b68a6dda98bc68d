----------------------------- MODULE ProfileIP -----------------------------
(***************************************************************************)
(* The Device.IP profile: for every class its getters and setters in the   *)
(* terms of Getters, and the names its if-chains and the handler's poll    *)
(* send to them.  Names are those after the last instance number.          *)
(***************************************************************************)
EXTENDS Getters

(* A SetAttributes frees the entry it has inserted in the notify table.    *)
Attributes == "freed"

(* Device.IP.Interface.{i}.  The answers go through the static structure   *)
(* stIPInterfaceInstance that all interfaces share.  The name of an        *)
(* interface is also asked for by the interface stack and the DHCP client, *)
(* which know nothing of this profile's lock.                              *)
InterfaceFlags ==
    SharedAll({"Enable"}, Live("default"))
    @@ [p \in {"IPv4Enable", "IPv6Enable"} |->
            Overwrites(Tracked(Via(Live("default"), p), p), "Status")]
InterfaceState ==
    SharedAll({"Status"}, Live("default")) @@ SharedAll({"Name"}, Bare(Live("default")))
    @@ All({"ULAEnable", "Alias"}, Stub)
InterfaceLayers ==
    All({"LastChange", "LowerLayers", "Router"}, Stub)
    @@ SharedAll({"Reset"}, Fixed) @@ SharedAll({"MaxMTUSize"}, Live("default"))
InterfaceKind == SharedAll({"Type", "Loopback"}, Live("default"))
InterfaceCounts ==
    [p \in {"IPv4AddressNumberOfEntries", "IPv6AddressNumberOfEntries",
             "IPv6PrefixNumberOfEntries"} |-> Via(Live("default"), p)]
    @@ All({"AutoIPEnable"}, Void)
InterfaceGetters == InterfaceFlags @@ InterfaceState @@ InterfaceLayers
                    @@ InterfaceKind @@ InterfaceCounts
InterfaceGets == Same(DOMAIN InterfaceGetters)

(* IPv4Enable brings the whole interface up or down; Reset only bounces it. *)
InterfaceSwitches ==
    All({"Enable"}, Unchecked) @@ All({"IPv4Enable"}, Moves(Unchecked, "Enable"))
    @@ All({"ULAEnable", "Alias", "LowerLayers", "Router"}, NotWritten)
InterfaceTuning ==
    All({"Reset"}, NoEffect) @@ All({"MaxMTUSize"}, Unchecked)
    @@ All({"Loopback", "AutoIPEnable"}, NotWritten)
InterfaceSetters == InterfaceSwitches @@ InterfaceTuning
InterfaceSets == Same({"Enable", "IPv4Enable", "Reset", "MaxMTUSize"})

(* The poll asks for a setting by its name; the counts are not polled. *)
StatePolls ==
    Same({"Enable", "IPv4Enable", "IPv6Enable", "ULAEnable", "Status", "Alias", "Name"})
InterfacePolls ==
    StatePolls @@ Same({"LastChange", "LowerLayers", "Router", "Reset", "MaxMTUSize", "Type",
                        "Loopback", "AutoIPEnable"})
InterfaceClass == Renamed(Class("own", "excludes", Attributes))

(* Device.IP.Interface.{i}.Stats.: a counter whose file cannot be read is  *)
(* reported as 0.                                                          *)
NetStatistic == Live("default")
StatsLow ==
    SharedAll({"BytesSent", "BytesReceived", "PacketsSent", "PacketsReceived"}, NetStatistic)
StatsErrors == SharedAll({"ErrorsSent", "ErrorsReceived"}, NetStatistic)
StatsMiddle ==
    SharedAll({"UnicastPacketsSent", "UnicastPacketsReceived", "DiscardPacketsSent",
               "DiscardPacketsReceived", "MulticastPacketsSent"}, NetStatistic)
StatsHigh ==
    SharedAll({"MulticastPacketsReceived", "BroadcastPacketsSent",
               "BroadcastPacketsReceived", "UnknownProtoPacketsReceived"}, NetStatistic)
StatsGetters == StatsLow @@ StatsErrors @@ StatsMiddle @@ StatsHigh
StatsGets    == Same(DOMAIN StatsGetters)
(* BroadcastPacketsReceived is polled with the getter of                   *)
(* BroadcastPacketsSent, and the branch for BroadcastPacketsSent tests the *)
(* name PacketsSent, which an earlier branch has taken.                    *)
LowPolls   == Same(DOMAIN StatsLow \cup DOMAIN StatsErrors)
StatsPolls ==
    LowPolls
    @@ [p \in DOMAIN StatsGetters \ {"BroadcastPacketsSent"} |->
           IF p = "BroadcastPacketsReceived" THEN "BroadcastPacketsSent" ELSE p]
StatsClass == Class("own", "excludes", Attributes)

(* Device.IP.Interface.{i}.IPv4Address.{j}: one object per interface, so   *)
(* its addresses share the backups.                                        *)
IPv4StateGetters ==
    TrackedAll({"Enable", "Status"}, Live("fact")) @@ All({"Alias"}, Stub)
IPv4AddressGetters == TrackedAll({"IPAddress", "SubnetMask"}, InWords(Live("nok")))
IPv4OriginGetters  == TrackedAll({"AddressingType"}, Live("nok"))
IPv4Getters == IPv4StateGetters @@ IPv4AddressGetters @@ IPv4OriginGetters
IPv4Gets    == Same(DOMAIN IPv4Getters)
(* An address is only changed while the last AddressingType reported, at   *)
(* first "Static", is static; the answer is OK in any case.                *)
IPv4Setters ==
    All({"Enable"}, Unchecked) @@ All({"Alias"}, NotWritten)
    @@ All({"IPAddress", "SubnetMask"}, While(Unchecked, "AddressingType", TRUE))
IPv4Sets  == Same({"Enable", "IPAddress", "SubnetMask"})
IPv4Class == Class("shared", "excludes", Attributes)

(* Device.IP.Interface.{i}.IPv6Address.{j} and IPv6Prefix.{j}: two tables  *)
(* over one object; a prefix getter has a backup of its own and the called *)
(* flag of the address getter.                                             *)
IPv6StateGetters ==
    TrackedAll({"Address.Enable", "Address.Status"}, Live("fact"))
    @@ All({"Address.IPAddressStatus"}, Live("nok"))
IPv6AddressGetters ==
    All({"Address.Alias"}, Stub)
    @@ TrackedAll({"Address.IPAddress"}, InWords(Live("nok")))
    @@ TrackedAll({"Address.Origin"}, Live("nok"))
(* Asked of the ip command; only a command or a line that is missing is an *)
(* error, a lifetime that is not in the line is reported as unknown.       *)
IPv6Lifetime == Live("nok")
IPv6LifetimeGetters ==
    All({"Address.Prefix"}, Live("nok"))
    @@ All({"Address.PreferredLifetime", "Address.ValidLifetime"}, IPv6Lifetime)
    @@ All({"Address.Anycast"}, Fixed)
IPv6PrefixStateGetters ==
    [p \in {"Prefix.Enable", "Prefix.Status"} |->
        Flagged(Live("fact"), p, IF p = "Prefix.Enable" THEN "Address.Enable"
                                                        ELSE "Address.Status")]
    @@ All({"Prefix.PrefixStatus"}, Live("nok"))
IPv6PrefixGetters ==
    All({"Prefix.Alias"}, Stub)
    @@ ("Prefix.Prefix" :> Flagged(Live("nok"), "Prefix.Prefix", "Address.IPAddress"))
    @@ ("Prefix.Origin" :> Flagged(Live("nok"), "Prefix.Origin", "Address.Origin"))
IPv6PrefixKindGetters ==
    All({"Prefix.StaticType", "Prefix.ParentPrefix"}, Live("nok"))
IPv6PrefixLifetimeGetters ==
    All({"Prefix.ChildPrefixBits"}, Live("nok"))
    @@ All({"Prefix.PreferredLifetime", "Prefix.ValidLifetime"}, IPv6Lifetime)
    @@ All({"Prefix.OnLink", "Prefix.Autonomous"}, Fixed)
IPv6Getters == IPv6StateGetters @@ IPv6AddressGetters @@ IPv6LifetimeGetters
               @@ IPv6PrefixStateGetters @@ IPv6PrefixGetters @@ IPv6PrefixKindGetters
               @@ IPv6PrefixLifetimeGetters
IPv6Gets == Same(DOMAIN IPv6Getters)
(* Only the address itself can be set, and only until its origin has been  *)
(* reported once: the backup starts as "Static", which no address reports. *)
IPv6SetAddress == While(Checked, "Address.Origin", FALSE)
IPv6Setters ==
    All({"Address.Enable", "Address.Alias", "Address.Prefix", "Address.PreferredLifetime",
         "Address.ValidLifetime", "Address.Anycast"}, NotWritten)
    @@ ("Address.IPAddress" :> IPv6SetAddress)
IPv6PrefixSetters ==
    All({"Prefix.Enable", "Prefix.Alias", "Prefix.Prefix", "Prefix.StaticType",
         "Prefix.ParentPrefix", "Prefix.ChildPrefixBits", "Prefix.OnLink", "Prefix.Autonomous",
         "Prefix.PreferredLifetime", "Prefix.ValidLifetime"}, NotWritten)
IPv6Sets  == Same(DOMAIN IPv6Setters \cup DOMAIN IPv6PrefixSetters)
IPv6Class == Class("shared", "excludes", Attributes)

(* Device.IP. itself.  A failed command leaves the static field as it was. *)
(* The counts are taken by the poll, the interface stack and the DHCP      *)
(* client too, without the lock.                                           *)
RootFields == Live("stale")
RootCounts ==
    [p \in {"InterfaceNumberOfEntries", "ActivePortNumberOfEntries"} |->
        Bare(Via(Live("default"), p))]
RootGetters ==
    SharedAll({"IPv4Capable"}, Fixed)
    @@ SharedAll({"IPv4Enable", "IPv4Status"}, RootFields) @@ All({"ULAPrefix"}, Stub)
    @@ RootCounts
RootGets == Same(DOMAIN RootGetters)
(* IPv4Enable exists; the handler's test for Device.IP is inverted, so no  *)
(* Set of the profile's own parameters gets there.                         *)
RootSetters == All({"IPv4Enable"}, Checked) @@ All({"ULAPrefix"}, NotWritten)
RootSets    == Same({})
RootClass   == Class("one", "excludes", Attributes)
RootPolls   == PerInstance(RootClass, Same({"IPv4Capable", "IPv4Enable", "IPv4Status", "ULAPrefix"}))

(* Device.IP.ActivePort.{i}.  Not being able to open /proc/net/tcp leaves  *)
(* the static structure, and with it the last port anybody asked for.      *)
PortNames   == {"LocalIPAddress", "LocalPort", "RemoteIPAddress", "RemotePort", "Status"}
PortFields  == [p \in PortNames |-> Via(Handle("stale", "default"), p)]
PortGetters == [p \in PortNames |-> Tracked(PortFields[p], p)]
PortGets    == Same(PortNames)
PortPolls   == Same(PortNames)
PortClass   == Class("own", "excludes", Attributes)

(* Device.IP.Diagnostics.IPPing: three entries of a dictionary, which is   *)
(* what is read.  A Set changes the entry and then writes the file, which  *)
(* has to open for the answer to be OK.                                    *)
PingNames   == {"Host", "NumberOfRepetitions", "DataBlockSize"}
PingGetters == [p \in PingNames |-> Memo(p)]
PingSetters == All(PingNames, Ahead(Written))
PingClass   == Class("one", "excludes", Attributes)
=============================================================================
