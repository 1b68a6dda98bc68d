------------------------- MODULE ProfileBluetooth -------------------------
(***************************************************************************)
(* The X_RDKCENTRAL-COM_xBlueTooth object: three device lists that only    *)
(* the updateHandler thread queries, at most every five seconds, and the   *)
(* static deviceProperty that a Set of GetDeviceInfo fills in for the      *)
(* device it names.  The tile commands of BLE_TILE_PROFILE are left out.   *)
(***************************************************************************)
EXTENDS Getters

EnabledGetters   == All({"enable"}, Live("default"))
DiscoveryGetters == All({"DiscoveryEnabled"}, Live("default"))

(* A query clears its list first, so one that fails leaves no devices: a   *)
(* count of 0, and no row for any index.                                   *)
CountGetters ==
    [p \in {"DiscoveredDeviceCnt", "PairedDeviceCnt", "ConnectedDeviceCnt"} |->
        Via(Listed("default", "default"), p)]
Rows(S) == [p \in S |-> Via(Listed("nok", "nok"), p)]
DiscoveredName    == Rows({"DiscoveredDevice.Name"})
DiscoveredType    == Rows({"DiscoveredDevice.DeviceType", "DiscoveredDevice.Paired",
                           "DiscoveredDevice.DeviceID"})
PairedName        == Rows({"PairedDevice.Name"})
PairedState       == Rows({"PairedDevice.DeviceID", "PairedDevice.Connected",
                           "PairedDevice.DeviceType", "ConnectedDevice.Name"})
ConnectedActive   == Rows({"ConnectedDevice.Active"})
ConnectedType     == Rows({"ConnectedDevice.DeviceType", "ConnectedDevice.DeviceID"})
(* The connection of a discovered device is asked on every call. *)
DiscoveredConnected == All({"DiscoveredDevice.Connected"}, Handle("nok", "default"))

(* Until a Set of GetDeviceInfo has succeeded, GetDeviceInfo and Profile   *)
(* fail and the others are OK with nothing written.  A later Set that is   *)
(* refused has zeroed the properties: Profile fails, the others are zero.  *)
(* A device is named in any base and reported in decimal.                  *)
DeviceProperty(unset, zeroed) == Via(Latched(unset, zeroed), "deviceProperty")
InfoGetters    == All({"GetDeviceInfo"}, InWords(DeviceProperty("nok", "default")))
InfoIdentity   == All({"DeviceInfo.DeviceID", "DeviceInfo.Manufacturer"},
                      DeviceProperty("void", "default"))
InfoProfile    == All({"DeviceInfo.Profile"}, DeviceProperty("nok", "nok"))
InfoSignal     == All({"DeviceInfo.MAC", "DeviceInfo.SignalLevel", "DeviceInfo.RSSI"},
                      DeviceProperty("void", "default"))
BeaconGetters  == All({"LimitBeaconDetection"}, Live("default"))

AdapterGetters == EnabledGetters @@ DiscoveryGetters @@ CountGetters
                  @@ InfoGetters @@ InfoIdentity @@ InfoProfile @@ InfoSignal @@ BeaconGetters
AdapterGets    == Same(DOMAIN AdapterGetters)
RowGetters     == DiscoveredName @@ DiscoveredType @@ DiscoveredConnected
                  @@ PairedName @@ PairedState @@ ConnectedActive @@ ConnectedType
RowGets        == Same(DOMAIN RowGetters)

InfoSetters    == All({"GetDeviceInfo"}, Clears(Checked))
BeaconSetters  == All({"LimitBeaconDetection"}, Unchecked)
AdapterSetters == InfoSetters @@ BeaconSetters
AdapterSets    == Same(DOMAIN AdapterSetters)

(* One static mutex, held by Set, Get and checkForUpdates. *)
AdapterClass == Class("one", "excludes", "none")
RowClass     == Class("shared", "excludes", "none")
=============================================================================
