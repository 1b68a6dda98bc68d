---------------------------- MODULE ProfileTime ----------------------------
(***************************************************************************)
(* The Device.Time profile: the clock, and the chrony settings, which are  *)
(* files under /opt/secure/RFC/chrony.  Parameters of the bootstrap store  *)
(* go to XBSStore.                                                         *)
(***************************************************************************)
EXTENDS Getters

(* A SetAttributes frees the entry it has inserted in the notify table.    *)
Attributes == "freed"

ZoneGetters  == TrackedAll({"LocalTimeZone"}, Live("nok"))
LocalGetters == TrackedAll({"CurrentLocalTime"}, Live("nok"))
UTCGetters   == TrackedAll({"X_RDK_CurrentUTCTime"}, Live("nok"))

(* Status is the first line of a file, Enable whether another one exists. *)
StateGetters == All({"Status"}, Live("nok")) @@ All({"Enable"}, Live("fact"))

(* Of the settings the first line is read. *)
ChronyGetters ==
    All({"Chrony.Enable"}, Live("fact")) @@ All({"Chrony.Makestep"}, InWords(Live("default")))
ServerGetters == All({"Chrony.NTPServer.Settings"}, InWords(Live("default")))
TimeGetters   == ZoneGetters @@ LocalGetters @@ UTCGetters @@ StateGetters
                 @@ ChronyGetters @@ ServerGetters
TimeGets      == Same(DOMAIN TimeGetters)

(* Enable reports its file, and has a setter that does nothing but refuse. *)
StubSetters     == All({"Enable"}, NotWritten)
(* Enabling has to create the flag file; a file that cannot be removed is  *)
(* left, and the answer to disabling is OK.                                *)
EnableSetters   == All({"Chrony.Enable"}, Setter("either", "either", "self"))
MakestepSetters == All({"Chrony.Makestep"}, Written)
ServerSetters   == All({"Chrony.NTPServer.Settings"}, Written)
TimeSetters     == StubSetters @@ EnableSetters @@ MakestepSetters @@ ServerSetters
TimeSets        == Same(DOMAIN TimeSetters)

(* The poll looks for Device.Time.Interface, which no parameter is under,  *)
(* and updateHandler does not call it.                                     *)
TimeClass == Class("one", "reinit", Attributes)
TimePolls == PerInstance(TimeClass, Same({"Enable"}))
=============================================================================
