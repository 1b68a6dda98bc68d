----------------------------- MODULE ProfileSTB -----------------------------
(***************************************************************************)
(* The Device.Services.STBService profile as built on the device-settings  *)
(* library.  A getter asks the library, which throws when it cannot        *)
(* answer; every class makes one object per row and they all use the HDMI  *)
(* class's lock.  The attributes of its parameters cannot be set, and the  *)
(* polls its classes have are reached from nowhere.                        *)
(***************************************************************************)
EXTENDS Getters

(* The attributes cannot be set.                                           *)
Attributes == "none"

STBLock == Class("own", "reinit", Attributes)

(* Device.Services.STBService.1. itself: the tables have one row each but  *)
(* for the audio ports, which are counted.                                 *)
ServiceGetters ==
    All({"Enable", "VideoDecoderNumberOfEntries", "VideoOutputNumberOfEntries",
         "HDMINumberOfEntries", "STBServiceNumberOfEntries"}, Fixed)
    @@ All({"AudioOutputNumberOfEntries", "SPDIFNumberOfEntries"}, Live("nok"))
ServiceGets  == Same(DOMAIN ServiceGetters)
ServiceClass == Class("one", "reinit", Attributes)

(* Components.AudioOutput.{i}. *)
AudioStateGetters ==
    TrackedAll({"Status", "CancelMute"}, Live("nok")) @@ All({"Enable"}, Fixed)
    @@ All({"Name"}, Live("nok"))
(* Set by number and reported as a word; a mode or an encoding that is not *)
(* among the words is an error.                                            *)
AudioModeGetters ==
    TrackedAll({"StereoMode", "Encoding"}, ByName(Live("nok")))
AudioFormatGetters == All({"AudioFormat"}, Live("nok")) @@ TrackedAll({"Compression"}, Live("nok"))
(* Set as an integer and reported as a decimal fraction. *)
AudioDBGetters     == TrackedAll({"AudioDB"}, InWords(Live("nok")))
AudioLevelGetters  == TrackedAll({"AudioLevel", "MinAudioDB"}, Live("nok")) @@ AudioDBGetters
AudioGainGetters   == TrackedAll({"MaxAudioDB", "AudioGain"}, Live("nok"))
(* A boolean reported as a string. *)
AudioLoopGetters   == TrackedAll({"AudioLoopThru"}, InWords(Live("nok")))
                      @@ TrackedAll({"OptimalLevel"}, Live("nok"))
AudioDialogGetters == TrackedAll({"DialogEnhancement"}, Live("nok"))
AudioGetters == AudioStateGetters @@ AudioModeGetters @@ AudioFormatGetters
                @@ AudioLevelGetters @@ AudioGainGetters @@ AudioLoopGetters @@ AudioDialogGetters
AudioGets  == Same(DOMAIN AudioGetters)
AudioPolls == Same(DOMAIN AudioGetters \ {"Status", "Enable", "Name", "AudioFormat"})
(* 1 mutes and 0 unmutes.  The comment on the setter has it that 1 cancels *)
(* the muting and 0 does nothing.                                          *)
AudioMuteSetter        == All({"CancelMute"}, Checked)
AudioStereoSetter      == All({"StereoMode"}, Checked)
AudioEncodingSetter    == All({"Encoding"}, Checked)
AudioCompressionSetter == All({"Compression"}, Checked)
AudioLevelSetter       == All({"AudioLevel"}, Checked)
AudioDBSetter          == All({"AudioDB"}, Checked)
AudioLoopThruSetter    == All({"AudioLoopThru"}, Checked)
AudioDialogSetter      == All({"DialogEnhancement"}, Checked)
AudioSetters == AudioMuteSetter @@ AudioStereoSetter @@ AudioEncodingSetter
                @@ AudioCompressionSetter @@ AudioLevelSetter @@ AudioDBSetter
                @@ AudioLoopThruSetter @@ AudioDialogSetter
AudioSets  == Same(DOMAIN AudioSetters)
AudioClass == STBLock

(* Components.HDMI.{i}.  A mode of 18 characters does not fit the 16 of    *)
(* the backup; it always has p or i, which a Set may leave out and then    *)
(* takes the first mode that fits.  Status calls the getter of Enable; the *)
(* resolution mode is a static string all ports share.                     *)
HDMIResolutionGetters ==
    ("ResolutionValue" :> Clipped(Tracked(InWords(Live("nok")), "ResolutionValue")))
HDMIEnableGetters     == TrackedAll({"Enable"}, Handle("nok", "fact"))
HDMIStatusGetters     == ("Status" :> Marks(Tracked(Handle("nok", "fact"), "Status"), "Enable"))
HDMINameGetters       == TrackedAll({"Name"}, Fixed)
HDMIModeGetters       == ("ResolutionMode" :> Memo("dsHDMIResolutionMode"))
HDMIGetters == HDMIResolutionGetters @@ HDMIEnableGetters @@ HDMIStatusGetters
               @@ HDMINameGetters @@ HDMIModeGetters
HDMIGets  == Same(DOMAIN HDMIGetters)
HDMIPolls == Same(DOMAIN HDMIGetters \ {"ResolutionMode"})
(* The resolution can only be set in manual mode, the mode at the start;   *)
(* going to automatic mode sets the default resolution, or fails to, and   *)
(* is answered OK either way.                                              *)
HDMIResolutionSetter == All({"ResolutionValue"}, While(Checked, "dsHDMIResolutionMode", TRUE))
HDMIEnableSetter     == All({"Enable"}, Checked)
HDMIModeSetter       == All({"ResolutionMode"}, Drags(Checked, "ResolutionValue"))
HDMISetters == HDMIResolutionSetter @@ HDMIEnableSetter @@ HDMIModeSetter
HDMISets    == Same(DOMAIN HDMISetters)
HDMIClass   == STBLock

(* Components.HDMI.{i}.DisplayDevice.: no display is an answer.  The two   *)
(* names of the EDID go to one getter.                                     *)
DisplayStatusGetters == TrackedAll({"Status"}, Handle("nok", "fact"))
DisplayEDIDGetters   == TrackedAll({"EEDID"}, Handle("nok", "default"))
DisplayBytesGetters  == TrackedAll({"EDID_BYTES"}, Handle("nok", "default"))
DisplayModeGetters   == TrackedAll({"SupportedResolutions", "PreferredResolution"}, Live("nok"))
DisplayGetters == DisplayStatusGetters @@ DisplayEDIDGetters @@ DisplayBytesGetters
                  @@ DisplayModeGetters
DisplayGets  == Same(DOMAIN DisplayGetters) @@ ("EDID" :> "EEDID")
DisplayPolls == Same(DOMAIN DisplayGetters)
DisplayClass == STBLock

(* Components.SPDIF.{i}. *)
SPDIFGetters ==
    All({"Enable", "Alias", "Name", "AudioDelay"}, Stub) @@ TrackedAll({"Status"}, Fixed)
SPDIFPortGetters == TrackedAll({"ForcePCM", "Passthrough"}, Live("nok"))
SPDIFGets  == Same(DOMAIN SPDIFGetters \cup DOMAIN SPDIFPortGetters)
SPDIFPolls == SPDIFGets
SPDIFStubSetters == All({"Enable", "Alias"}, NotWritten)
SPDIFSetters     == All({"ForcePCM"}, Checked)
SPDIFSets  == Same({"ForcePCM"})
SPDIFClass == STBLock

(* Components.VideoOutput.{i}. *)
OutputStatusGetters == TrackedAll({"Status"}, Handle("nok", "fact")) @@ All({"Enable"}, Fixed)
OutputFormatGetters == TrackedAll({"AspectRatioBehaviour"}, Live("nok"))
                       @@ TrackedAll({"VideoFormat"}, Fixed)
OutputNameGetters   == TrackedAll({"DisplayFormat", "Name", "HDCP"}, Live("nok"))
OutputGetters == OutputStatusGetters @@ OutputFormatGetters @@ OutputNameGetters
OutputGets  == Same(DOMAIN OutputGetters)
OutputPolls == Same(DOMAIN OutputGetters \ {"Enable"})
OutputClass == STBLock

(* Components.VideoDecoder.{i}. *)
DecoderGetters ==
    TrackedAll({"ContentAspectRatio"}, Handle("default", "nok"))
    @@ TrackedAll({"X_COMCAST-COM_Standby", "Status"}, Live("nok"))
DecoderFixed == All({"Enable", "Name", "X_RDKCENTRAL-COM_MPEGHPart2"}, Fixed)
DecoderGets  == Same(DOMAIN DecoderGetters \cup DOMAIN DecoderFixed)
DecoderPolls == Same(DOMAIN DecoderGetters)
DecoderSetters == All({"X_COMCAST-COM_Standby"}, Checked)
DecoderSets  == Same(DOMAIN DecoderSetters)
DecoderClass == STBLock

(* Capabilities.: an object made for the request, and nothing remembered.  *)
CapabilityGetters == All({"VideoStandards", "ProfileNumberOfEntries"}, Live("nok"))
ProfileGetters    == All({"Profile.Name", "Profile.Level", "Profile.MaxDecodeCapability"}, Live("nok"))
ResolutionGetters == All({"SupportedResolutions"}, Live("nok"))
CapabilityGets == Same(DOMAIN CapabilityGetters \cup DOMAIN ProfileGetters
                       \cup DOMAIN ResolutionGetters)
CapabilityClass == ServiceClass

(* Components.X_RDKCENTRAL-COM_SDCard.: a card that is not there or does   *)
(* not answer has the values of a zeroed structure, and the answer is OK.  *)
CardProperties == Live("default")
CardGetters ==
    All({"Capacity", "LifeElapsed"}, CardProperties) @@ All({"CardFailed"}, Fixed)
CardMaker == All({"LotID", "Manufacturer", "Model"}, CardProperties)
CardStateGetters ==
    All({"ReadOnly", "SerialNumber", "TSBQualified", "Status"}, CardProperties)
CardGets  == Same(DOMAIN CardGetters \cup DOMAIN CardMaker \cup DOMAIN CardStateGetters)
CardClass == ServiceClass

(* Components.X_RDKCENTRAL-COM_eMMCFlash.  getInstance asks for the list   *)
(* of devices and then sets its length to 0, so no object is ever made.    *)
FlashInfoGetters ==
    All({"Capacity", "LifeElapsedA", "LifeElapsedB", "LotID", "Manufacturer", "Model",
         "ReadOnly"}, Live("nok"))
FlashHealthGetters ==
    All({"SerialNumber", "PreEOLStateSystem", "PreEOLStateEUDA", "PreEOLStateMLC",
         "FirmwareVersion", "DeviceReport"}, Live("nok"))
    @@ All({"TSBQualified"}, Live("default"))
FlashGets  == Same(DOMAIN FlashInfoGetters \cup DOMAIN FlashHealthGetters)
FlashClass == Class("never", "reinit", Attributes)
=============================================================================
