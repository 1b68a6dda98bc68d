------------------------- MODULE ProfileDeviceInfo -------------------------
(***************************************************************************)
(* The Device.DeviceInfo profile without its stores (BSStore, RFCStore)    *)
(* and without the requests that start something (DeviceActions).  One     *)
(* object serves the whole profile under one lock.  Its getters compare    *)
(* with backups, but the poll looks for an instance number behind          *)
(* Device.DeviceInfo, which no name of this object has.                    *)
(***************************************************************************)
EXTENDS Getters

(* A SetAttributes frees the entry it has inserted in the notify table.    *)
Attributes == "freed"

(* Asked of the manufacturer library over IARM. *)
SerialGetters   == TrackedAll({"SerialNumber"}, Live("nok"))
VersionGetters  == TrackedAll({"SoftwareVersion"}, Live("nok"))
MakerGetters    == All({"MigrationStatus"}, Live("default"))
                   @@ TrackedAll({"Manufacturer"}, Live("nok"))
ModelGetters    == TrackedAll({"ManufacturerOUI", "ModelName"}, Live("nok"))
ClassGetters    == All({"Description"}, Fixed) @@ All({"ProductClass"}, Live("void"))
HardwareGetters == TrackedAll({"HardwareVersion", "AdditionalSoftwareVersion"}, Live("nok"))
                   @@ All({"AdditionalHardwareVersion"}, Stub)
(* "For any failures return OK for now to get empty results". *)
ProvisioningGetters == All({"ProvisioningCode"}, Live("void"))
ClockGetters    == All({"UpTime", "FirstUseDate"}, Live("nok"))
MACGetters      == ("STB_MAC" :> Tracked(Once("stbMacCache"), "STB_MAC"))
EstbIp          == Live("nok")
AddressGetters  == TrackedAll({"STB_IP"}, EstbIp)
PowerGetters    == All({"PowerStatus"}, Live("nok"))
FirmwareGetters == TrackedAll({"FirmwareFilename"}, Live("default"))
FirmwareName    == All({"FirmwareName"}, Handle("nok", "void"))
(* A line of the file the firmware download writes. *)
FirmwareInfo    == Live("nok")
DownloadGetters ==
    All({"FirmwareToDownload", "FirmwareDownloadStatus", "FirmwareDownloadProtocol",
         "FirmwareDownloadURL", "FirmwareDownloadUseCodebig", "FirmwareUpdateState",
         "FirmwareDownloadPercent"}, FirmwareInfo)
    @@ All({"FirmwareDownloadDeferReboot"}, Memo("m_xFirmwareDownloadDeferReboot"))
CountGetters ==
    All({"VendorConfigFileNumberOfEntries", "VendorLogFileNumberOfEntries", "Reset"}, Stub)
    @@ All({"SupportedDataModelNumberOfEntries"}, Void)
    @@ All({"ProcessorNumberOfEntries"}, Live("nok"))
SystemGetters ==
    All({"MemoryStatus.Total", "MemoryStatus.Free", "CPUTemp"}, Live("nok"))
    @@ All({"BootStatus"}, Live("default"))
(* At most three characters of the gateway type are read. *)
GatewayGetters ==
    All({"PreferredGatewayType"}, InWords(Live("default")))
    @@ All({"LogsUploadStatus"}, Live("default"))
    @@ All({"UploadLogsNow"}, Fixed)
(* The notification of a boot asks for the boot time without the lock. *)
BootGetters    == ("BootTime" :> Bare(Once("bTime")))
(* The first line of a file. *)
IUIGetters     == All({"IUI.Version"}, InWords(Live("nok")))
                  @@ All({"IUI.AppsVersion"}, InWords(Live("default")))
(* Only a build without USE_MoCA_PROFILE compiles these two. *)
MoCALogGetters    == All({"MoCALogEnabled"}, Void)
MoCAPeriodGetters == All({"MoCALogPeriod"}, Void)
PartnerGetters == All({"Syndication.PartnerId"}, Live("nok"))
RemoteGetters  == All({"IPRemoteSupport.Enable"}, Live("fact"))
                  @@ All({"IPRemoteSupport.IPAddr", "IPRemoteSupport.MACAddr"}, Live("default"))
PollingGetters == All({"XRPollingAction"}, Memo("m_xrPollingAction"))
ThunderGetters == All({"MigrationReady"}, Live("nok"))
RsshActive     == Live("fact")
SSHGetters     == All({"ForwardSSH.Enable", "ApparmorBlocklist"}, Live("nok"))
                  @@ All({"ReverseSSH.Status"}, RsshActive)
(* The path without the blanks around it, or the default one unless it is  *)
(* a directory; the number a text starts with.                             *)
ToolGetters    == All({"PackageInstallPath", "PackageExpiryTime"}, InWords(Live("default")))
ReasonGetters  == All({"LastRebootReason"}, Live("nok"))
AccountGetters == All({"HotelCheckout.LastResetTime", "HotelCheckout.Status"}, Live("nok"))
ExperienceGetters == All({"Experience"}, Live("nok"))
RPCGetters ==
    [p \in {"RPC.DeviceManageable", "RPC.FwDwldStarted", "RPC.FwDwldCompleted"} |->
        Via(Latched("default", "default"), p)]
    @@ All({"RPC.RebootPending"}, Fixed)
InfoGetters ==
    SerialGetters @@ VersionGetters @@ MakerGetters @@ ModelGetters @@ ClassGetters
    @@ HardwareGetters @@ ProvisioningGetters @@ ClockGetters @@ MACGetters @@ AddressGetters
    @@ PowerGetters @@ FirmwareGetters @@ FirmwareName @@ DownloadGetters @@ CountGetters
    @@ SystemGetters @@ GatewayGetters @@ BootGetters @@ IUIGetters @@ MoCALogGetters
    @@ MoCAPeriodGetters @@ ExperienceGetters @@ RPCGetters
    @@ PartnerGetters @@ RemoteGetters @@ PollingGetters @@ ThunderGetters @@ SSHGetters @@ ToolGetters
    @@ ReasonGetters @@ AccountGetters

(* What the if-chain sends where; RDKVersion is another name of            *)
(* SoftwareVersion.                                                        *)
SpecialGets  == Same({"ForwardSSH.Enable", "ReverseSSH.Status", "ApparmorBlocklist"})
IdentityGets ==
    Same({"BootStatus", "PreferredGatewayType", "Manufacturer", "ManufacturerOUI", "ModelName",
          "Description", "ProductClass", "SerialNumber", "HardwareVersion", "SoftwareVersion",
          "MigrationReady", "MigrationStatus", "IUI.Version", "IUI.AppsVersion",
          "AdditionalHardwareVersion", "AdditionalSoftwareVersion", "ProvisioningCode", "UpTime",
          "FirstUseDate", "STB_MAC", "STB_IP", "FirmwareFilename", "FirmwareToDownload",
          "FirmwareDownloadStatus", "FirmwareDownloadURL", "FirmwareDownloadProtocol",
          "FirmwareDownloadUseCodebig", "FirmwareDownloadPercent", "FirmwareUpdateState"})
    @@ ("RDKVersion" :> "SoftwareVersion")
ServiceGets ==
    Same(DOMAIN InfoGetters \ (DOMAIN SpecialGets \cup DOMAIN IdentityGets))
InfoGets  == SpecialGets @@ IdentityGets @@ ServiceGets

(* The settings of a firmware download are kept for the download, whereas  *)
(* their getters read what the last download wrote to its file.            *)
DownloadSetters ==
    All({"FirmwareToDownload", "FirmwareDownloadProtocol", "FirmwareDownloadURL",
         "FirmwareDownloadUseCodebig"}, NoEffect)
    @@ All({"FirmwareDownloadDeferReboot"}, Checked)
FirmwareInfoSetter == Unchecked
IUISetters      == All({"IUI.Version", "IUI.AppsVersion"}, Written)
GatewaySetters  == All({"PreferredGatewayType"}, Written)
UploadSetters   == All({"UploadLogsNow"}, NoEffect)
MoCALogSetters    == All({"MoCALogEnabled"}, NoEffect)
MoCAPeriodSetters == All({"MoCALogPeriod"}, NoEffect)
(* Stored while the RFC that allows the notification is on; when it is off *)
(* the two times have been cleared, and the answer is OK as well.          *)
RPCSetters ==
    All({"RPC.DeviceManageable", "RPC.FwDwldStarted"}, Clears(Unchecked))
    @@ All({"RPC.FwDwldCompleted"}, Unchecked) @@ All({"RPC.RebootPending"}, NoEffect)
RemoteSetters   == All({"IPRemoteSupport.Enable"}, Unchecked)
PollingSetters  == All({"XRPollingAction"}, Checked)
SSHSetters      == All({"ForwardSSH.Enable"}, Written)
ToolSetters     == All({"PackageInstallPath", "PackageExpiryTime"}, Checked)
InfoSetters ==
    DownloadSetters @@ ("FirmwareDownloadStatus" :> FirmwareInfoSetter) @@ IUISetters
    @@ GatewaySetters @@ UploadSetters @@ MoCALogSetters @@ MoCAPeriodSetters @@ RPCSetters @@ RemoteSetters @@ PollingSetters
    @@ SSHSetters @@ ToolSetters
InfoSets  == Same(DOMAIN InfoSetters)
InfoClass == Class("one", "excludes", Attributes)
VersionPolls ==
    Same({"Manufacturer", "ModelName", "Description", "ProductClass", "SerialNumber",
          "HardwareVersion", "SoftwareVersion", "AdditionalSoftwareVersion",
          "ProvisioningCode"})
NumberPolls ==
    Same({"UpTime", "FirstUseDate", "STB_MAC", "STB_IP", "FirmwareFilename", "Reset",
          "VendorConfigFileNumberOfEntries", "SupportedDataModelNumberOfEntries",
          "VendorLogFileNumberOfEntries"})
InfoPolls == PerInstance(InfoClass, VersionPolls @@ NumberPolls)

(* Device.DeviceInfo.Processor.{i}.: the getter copies the backup over the *)
(* answer where it means to compare them.                                  *)
ProcessorGetters == ("Architecture" :> Copied(Tracked(Fixed, "Architecture")))
ProcessorGets    == Same({"Architecture"})
ProcessorPolls   == Same({"Architecture"})
ProcessorClass   == Class("own", "excludes", Attributes)

(* Device.DeviceInfo.ProcessStatus. *)
CPUUsage      == Live("default")
StatusGetters == TrackedAll({"CPUUsage"}, CPUUsage)
                 @@ All({"ProcessNumberOfEntries"}, Live("nok"))
StatusGets    == Same({"CPUUsage", "ProcessNumberOfEntries"})
StatusClass   == Class("one", "excludes", Attributes)
StatusPolls   == PerInstance(StatusClass, Same({"CPUUsage"}))

(* Device.DeviceInfo.ProcessStatus.Process.{i}.: the answers go through    *)
(* the structure processStatus that all rows share.  A row past the end of *)
(* the process table clears it and is answered with zeros.  The getters    *)
(* take the row from the name in the message, and the poll hands them a    *)
(* message without one, which they refuse.                                 *)
ProcessFields  == Handle("nok", "default")
ProcessIdentity == SharedAll({"PID", "Command", "Size"}, ProcessFields)
ProcessState    == SharedAll({"Priority", "CPUTime", "State"}, ProcessFields)
ProcessGetters == ProcessIdentity @@ ProcessState
ProcessGets    == Same(DOMAIN ProcessGetters)
ProcessPolls   == [p \in DOMAIN ProcessGetters |-> "no row"]
ProcessClass   == Class("own", "excludes", Attributes)
=============================================================================
