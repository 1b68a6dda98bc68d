--------------------------- MODULE DeviceFeatures ---------------------------
(***************************************************************************)
(* What a SET of an RFC parameter does besides storing the value           *)
(* (set_xRDKCentralComRFC).  The value is validated and stored; then, for  *)
(* some parameters, the feature itself is switched: a flag or setting file *)
(* is written, an event published, a script or service started.  The       *)
(* result of the second part replaces the result of the first.             *)
(*                                                                         *)
(* The RFC store is seen from outside (RFCStore has its files): what GET   *)
(* serves, and, during an RFC session, the values of the next main file.   *)
(* Each handler below is the set of outcomes it may have: the feature as   *)
(* it leaves it, and the result it returns.                                *)
(***************************************************************************)
EXTENDS Naturals, FiniteSets

CONSTANTS
  None,     \* no value
  Sets      \* the requests: parameter -> the values they give it

\* A value whose type is not the parameter's, and one outside its range.
Mistyped == "mistyped"
OutOfRange == "range"

Params == DOMAIN Sets

VARIABLES
  served,    \* what GET answers for a parameter, or None
  next,      \* during a session: the main file so far
  updating,  \* an RFC session is under way
  effect,    \* the feature as it is: its file, last event or last script
  asked,     \* history: the last request for a parameter, and its answer
  debug      \* history: the last SET to change the debug file or the values it
             \* is made from was answered OK, and they were not replaced since

featureVars == <<served, next, updating, effect, asked, debug>>

Out(e, r) == [effect |-> e, ret |-> r]
Asked(v, stored, r) == [value |-> v, stored |-> stored, ret |-> r]
-----------------------------------------------------------------------------
\* newNTP.Enable: the flag file is created without a look at the stream;
\* removing it is checked.
NewNtpEnable(e, v) ==
  CASE v = Mistyped -> {Out(e, "NOK")}
    [] v = "true"   -> {Out("true", "OK"), Out(e, "OK")}
    [] OTHER        -> {Out("false", "OK"), Out(e, IF e = "true" THEN "NOK" ELSE "OK")}

\* DAB.Enable: neither step is checked.
DABRFCEnable(e, v) ==
  IF v = Mistyped THEN {Out(e, "NOK")} ELSE {Out(v, "OK"), Out(e, "OK")}

\* DistributedTracing.Enable: the flag file and the collector service, and
\* the result does not depend on either.
DistributedTracingEnable(e, v) ==
  IF v = Mistyped THEN {Out(e, "NOK")} ELSE {Out(v, "OK"), Out(e, "OK")}

\* A setting file, opened with O_TRUNC and then written.
Rewritten(e, v) == {Out(v, "OK"), Out("", "NOK"), Out(e, "NOK")}

\* DistributedTracing.URL: the text may still be in the stream's buffer when
\* fputs returns, and fclose, which writes it, is not looked at.
DistributedTracingURL(e, v) ==
  IF v = Mistyped THEN {Out(e, "NOK")} ELSE Rewritten(e, v) \cup {Out("", "OK")}

\* DistributedTracing.Interval: every step is looked at, fclose included.
DistributedTracingInterval(e, v) ==
  IF v \in {Mistyped, OutOfRange} THEN {Out(e, "NOK")} ELSE Rewritten(e, v)

\* rbusEvent_Publish: without a subscriber it counts as done.
Published(e, v) == {Out(v, "OK"), Out(e, "NOK")}

RDKRemoteDebuggerIssueType(e, v) == Published(e, v)

RDKRemoteDebuggerWebCfgData(e, v) == Published(e, v)

RebootStopEnable(e, v) ==
  IF v = Mistyped THEN {Out(e, "NOK")} ELSE Published(e, v)

DownloadManagerStatus(e, v) ==
  IF v = Mistyped THEN {Out(e, "NOK")} ELSE Published(e, v)

\* The decoder refuses, throws, or (with Thunder) does not know the call.
LoudnessEquivalenceEnable(e, v) ==
  IF v = Mistyped THEN {Out(e, "NOK")} ELSE {Out(v, "OK"), Out(e, "NOK")}

\* The scripts are started in the background, whatever becomes of them.
AutoRebootEnable(e, v) ==
  IF v = Mistyped THEN {Out(e, "NOK")} ELSE {Out(v, "OK"), Out(e, "OK")}

RoamTrigger(e, v) == {Out(v, "OK"), Out(e, "OK")}

VideoTelFreq(e, v) ==
  IF v \in {Mistyped, OutOfRange} THEN {Out(e, "NOK")}
  ELSE {Out(v, "OK"), Out(e, "OK")}

CanaryWakeUp(e, v) == {Out(e, "OK")}

\* MemInsight.Trigger: two flag files, a persistent one and one in /tmp.  The
\* effect is the set of those that exist.  One file created, or one removed,
\* is success; a "stop" with no file to be seen is too.
Triggers == {"trigger", "tmpTrigger"}
MemInsightTrigger(e, v) ==
  CASE v = "start" ->
         {Out(e \cup made, IF made = {} THEN "NOK" ELSE "OK") : made \in SUBSET Triggers}
    [] v = "stop" ->
         IF e = {} THEN {Out(e, "OK")}
         ELSE {Out(e \ gone, IF gone = {} THEN "NOK" ELSE "OK") : gone \in SUBSET e}
    [] OTHER -> {Out(e, "NOK")}

\* InstallPackage: rdm installs in the background; a debug tool is also given
\* an expiry.  A failure to schedule it is reported after the installation
\* has been started.
DebugTools == {"strace", "tcpdump"}
InstallPackage(e, v) ==
  IF v = "" THEN {Out(e, "NOK")}
  ELSE {Out(e, "NOK")} \cup
       IF v \in DebugTools
         THEN {Out(e \cup {<<v, "expires">>}, "OK"), Out(e \cup {<<v, "stays">>}, "NOK")}
         ELSE {Out(e \cup {<<v, "stays">>}, "OK")}

\* Apparmor blocklist: a request names profiles and their modes.  Entries
\* whose name occurs in the request's text are left out of the new file, the
\* request's own are added if there is a profile of that name, and the new
\* file replaces the old one by rename.  "p" occurs in "pq".
Occurs(name, request) == \E r \in request : name = r[1] \/ (name = "p" /\ r[1] = "pq")
ValidEntry(r) == r[1] \in {"p", "pq"} /\ r[2] \in {"disable", "complain", "enforce"}
ApparmorBlocklist(e, request) ==
  IF request = {} \/ \E r \in request : ~ValidEntry(r) THEN {Out(e, "NOK")}
  ELSE {Out({x \in e : ~Occurs(x[1], request)} \cup request, "OK"), Out(e, "NOK")}
-----------------------------------------------------------------------------
\* validate_ParamValue.
Valid(p, v) ==
  /\ p = "interval" => v \notin {Mistyped, OutOfRange}
  /\ p = "dosThreshold" => v \notin {Mistyped, OutOfRange}

\* updateSecureDebugState: debugging is on for a test device with the debug
\* services enabled; anything else, an unreadable parameter included, is off.
DebugState(s) ==
  IF s["dbgServices"] = "true" /\ s["deviceType"] = "test" THEN "1" ELSE "0"

\* Mutant of SecureDebugState: the state is taken before the value is stored.
SecureDebugStateEarly(e, s) ==
  {Out(DebugState(served), r) : r \in {"OK", "NOK"}} \cup {Out("", "NOK"), Out(e, "NOK")}

\* The state file is made mutable, truncated, written and made immutable.
SecureDebugState(e, s) ==
  {Out(DebugState(s), r) : r \in {"OK", "NOK"}} \cup {Out("", "NOK"), Out(e, "NOK")}

\* Mutant of SideEffect: the interval file is not looked at after the write.
SideEffectUnchecked(p, e, v, ret, s) ==
  IF p = "interval" THEN {Out(o.effect, "OK") : o \in DistributedTracingInterval(e, v)}
  ELSE {Out(e, ret)}

\* set_xRDKCentralComRFC after the store: ret is the store's result, s what
\* the store serves now.  Parameters without a handler keep the result.
SideEffect(p, e, v, ret, s) ==
  CASE p = "newNTP"       -> NewNtpEnable(e, v)
    [] p = "dab"          -> DABRFCEnable(e, v)
    [] p = "tracing"      -> DistributedTracingEnable(e, v)
    [] p = "url"          -> DistributedTracingURL(e, v)
    [] p = "interval"     -> DistributedTracingInterval(e, v)
    [] p = "issueType"    -> RDKRemoteDebuggerIssueType(e, v)
    [] p = "webCfg"       -> RDKRemoteDebuggerWebCfgData(e, v)
    [] p = "rebootStop"   -> RebootStopEnable(e, v)
    [] p = "rdmStatus"    -> DownloadManagerStatus(e, v)
    [] p = "loudness"     -> LoudnessEquivalenceEnable(e, v)
    [] p = "autoReboot"   -> AutoRebootEnable(e, v)
    [] p = "roam"         -> RoamTrigger(e, v)
    [] p = "telFreq"      -> VideoTelFreq(e, v)
    [] p = "canary"       -> CanaryWakeUp(e, v)
    [] p = "memInsight"   -> MemInsightTrigger(e, v)
    [] p = "install"      -> InstallPackage(e, v)
    [] p = "blocklist"    -> ApparmorBlocklist(e, v)
    [] p \in {"dbgServices", "deviceType"} /\ ret = "OK" -> SecureDebugState(e, s)
    [] OTHER              -> {Out(e, ret)}

\* The two parameters of the debug state share one file.
Feature(p) == IF p = "deviceType" THEN "dbgServices" ELSE p
Direct == {"install", "rdmStatus"}
SetValued == {"memInsight", "install", "blocklist"}
-----------------------------------------------------------------------------
FeaturesInit ==
  /\ served = [p \in Params |-> None]
  /\ next = [p \in Params |-> None]
  /\ updating = FALSE
  /\ effect = [p \in Params |-> IF p \in SetValued THEN {} ELSE ""]
  /\ asked = [p \in Params |-> None]
  /\ debug = FALSE

\* XRFCStore::setValue: in a session the value goes to the next main file.
Stored(p, v, wrote) ==
  /\ served' = IF wrote /\ ~updating THEN [served EXCEPT ![p] = v] ELSE served
  /\ next' = IF wrote /\ updating THEN [next EXCEPT ![p] = v] ELSE next

\* A SET of an RFC parameter, or of one of the download manager's, which
\* handleSetMsg hands to their handler without the store.
SetRFC(p, v) ==
  \E wrote \in IF Valid(p, v) /\ p \notin Direct THEN BOOLEAN ELSE {FALSE} :
    /\ Stored(p, v, wrote)
    /\ \E o \in SideEffect(p, effect[Feature(p)], v, IF wrote THEN "OK" ELSE "NOK", served') :
         /\ effect' = [effect EXCEPT ![Feature(p)] = o.effect]
         /\ asked' = [asked EXCEPT ![p] = Asked(v, wrote, o.ret)]
         /\ debug' = IF Feature(p) # "dbgServices" THEN debug
                     ELSE IF o.ret = "OK" THEN TRUE
                     ELSE debug /\ effect' = effect /\ served' = served
    /\ UNCHANGED updating

\* ClearDB: a session begins with an empty main file.
ResetDataStart ==
  /\ ~updating
  /\ updating' = TRUE
  /\ next' = [p \in Params |-> None]
  /\ asked' = [p \in Params |-> None]
  /\ UNCHANGED <<served, effect, debug>>

\* ClearDBEnd: what the session stored is served.  No feature is visited.
ResetDataEnd ==
  /\ updating
  /\ updating' = FALSE
  /\ served' = next
  /\ debug' = FALSE
  /\ UNCHANGED <<next, effect, asked>>

\* The process ends.  The main file of an unfinished session is what the next
\* process reads.
FeaturesRestart ==
  /\ updating' = FALSE
  /\ served' = IF updating THEN next ELSE served
  /\ debug' = (debug /\ ~updating)
  /\ UNCHANGED <<next, effect, asked>>
-----------------------------------------------------------------------------
\* The features whose handler looks at every step it takes.
Checked == {"interval", "issueType", "webCfg", "rebootStop", "rdmStatus", "loudness"}

\* A SET of a checked feature that was answered OK has switched the feature,
\* and if the store took the value, GET serves the same value (from the end of
\* the session on, in a session); both stay so until the next request for the
\* parameter or the next session, over other requests and restarts.
FeatureApplied ==
  \A p \in Params \cap Checked :
    (asked[p] # None /\ asked[p].ret = "OK") =>
      /\ effect[p] = asked[p].value
      /\ asked[p].stored => asked[p].value = (IF updating THEN next ELSE served)[p]

\* From a SET of either parameter that was answered OK, the debug state file
\* says what the two parameters served say, over other SETs and restarts, until
\* a SET of either that fails has changed the store or the file, a session
\* ends, or the process stops in a session.  (The SETs of a session compute it
\* from the values the session replaces, and its end does not.)
SecureDebugFollows ==
  ("dbgServices" \in Params /\ debug) => effect["dbgServices"] = DebugState(served)
=============================================================================
