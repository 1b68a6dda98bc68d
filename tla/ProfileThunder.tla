--------------------------- MODULE ProfileThunder ---------------------------
(***************************************************************************)
(* The Device.Services.STBService profile as built on Thunder: the getters *)
(* ask a plugin over JSON-RPC, and no parameter can be set.                *)
(***************************************************************************)
EXTENDS Getters

(* The attributes cannot be set.                                           *)
Attributes == "none"

(* Components.AudioOutput.{i}. *)
AudioStateGetters ==
    TrackedAll({"Status", "CancelMute", "AudioLevel"}, Live("nok")) @@ All({"Enable", "Name"}, Fixed)
AudioModeGetters  ==
    TrackedAll({"Encoding", "StereoMode", "Compression"}, Live("nok"))
    @@ All({"AudioFormat"}, Live("nok")) @@ All({"OptimalLevel"}, Fixed)
AudioGets  == Same(DOMAIN AudioStateGetters \cup DOMAIN AudioModeGetters)
AudioPolls == Same({"CancelMute", "Encoding", "AudioLevel", "StereoMode", "Compression"})
AudioClass == Class("own", "reinit", Attributes)

(* Components.HDMI.{i}. *)
HDMIResolutionGetters == ("ResolutionValue" :> Clipped(Tracked(Live("nok"), "ResolutionValue")))
HDMIStatusGetters ==
    TrackedAll({"Enable"}, Live("nok")) @@ ("Status" :> Marks(Tracked(Live("nok"), "Status"), "Enable"))
    @@ TrackedAll({"Name"}, Fixed) @@ All({"ResolutionMode"}, Fixed)
HDMIGets  == Same(DOMAIN HDMIResolutionGetters \cup DOMAIN HDMIStatusGetters)
HDMIPolls == Same({"ResolutionValue", "Status", "Name"})
HDMIClass == Class("own", "reinit", Attributes)

(* Components.HDMI.{i}.DisplayDevice. *)
DisplayModeGetters ==
    TrackedAll({"Status"}, Live("default"))
    @@ TrackedAll({"SupportedResolutions", "PreferredResolution"}, Live("nok"))
DisplayEDIDGetters == TrackedAll({"EEDID"}, Handle("default", "nok"))
DisplayGets  == Same(DOMAIN DisplayModeGetters \cup DOMAIN DisplayEDIDGetters)
(* The poll of the HDMI class does not go on to its display. *)
DisplayPolls == Same({"Status"})
DisplayClass == Class("own", "reinit", Attributes)

(* Components.SPDIF.{i}. *)
SPDIFGetters == All({"Alias"}, Fixed)
SPDIFGets    == Same({"Alias"})
SPDIFPolls   == Same({"Alias"})
SPDIFClass   == Class("own", "reinit", Attributes)

(* Components.VideoOutput.{i}. *)
OutputGetters ==
    TrackedAll({"Status", "VideoFormat", "AspectRatioBehaviour", "HDCP"}, Live("default"))
    @@ TrackedAll({"DisplayFormat"}, Live("nok")) @@ All({"Enable", "Name"}, Fixed)
OutputGets  == Same(DOMAIN OutputGetters)
OutputPolls == Same({"Status", "DisplayFormat", "VideoFormat", "HDCP"})
OutputClass == Class("own", "reinit", Attributes)

(* Components.VideoDecoder.{i}. *)
DecoderGetters ==
    TrackedAll({"Status"}, Live("nok")) @@ TrackedAll({"ContentAspectRatio"}, Live("default"))
DecoderFixed == All({"Enable", "Name", "X_RDKCENTRAL-COM_MPEGHPart2"}, Fixed)
DecoderGets  == Same(DOMAIN DecoderGetters \cup DOMAIN DecoderFixed)
DecoderPolls == Same({"Status"})
DecoderClass == Class("own", "reinit", Attributes)

(* Capabilities. *)
CapabilityGetters == All({"VideoStandards"}, Live("nok"))
CodecInfo         == Live("nok")
ProfileGetters    ==
    All({"ProfileNumberOfEntries", "Profile.Name", "Profile.Level",
         "Profile.MaxDecodeCapability"}, CodecInfo)
ResolutionGetters == All({"SupportedResolutions"}, Live("nok"))
CapabilityGets == Same(DOMAIN CapabilityGetters \cup DOMAIN ProfileGetters
                       \cup DOMAIN ResolutionGetters)
CapabilityClass == Class("one", "reinit", Attributes)
=============================================================================
