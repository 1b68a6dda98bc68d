---------------------------- MODULE DeviceProofs ----------------------------
(***************************************************************************)
(* Proofs about the SETs of Device.DeviceInfo: whatever the requests, the  *)
(* loads, the values and the bounds on threads, checks and reads are.      *)
(***************************************************************************)
EXTENDS DeviceActions, TLAPS

-----------------------------------------------------------------------------
(* Downloads: the static members hold exactly what was given since the     *)
(* last download.                                                          *)
FwInv == fw = given /\ DownloadOwnSettings

\* A download started by FirmwareDownloadNow uses the settings given since the
\* download before it, and all it needs were given.
THEOREM DownloadsOwn == Spec => []DownloadOwnSettings
<1>1. Init => FwInv
  BY Zenon DEF Init, FwInv, DownloadOwnSettings
<1>2. FwInv /\ [Next]_vars => FwInv'
  <2> SUFFICES ASSUME FwInv, [Next]_vars PROVE FwInv'
    BY Zenon
  <2>1. ASSUME NEW f, NEW v, SetFirmware(f, v) PROVE FwInv'
    BY Zenon, <2>1 DEF FwInv, SetFirmware, DownloadOwnSettings
  <2>2. CASE FirmwareDownloadNow
    BY Zenon, <2>2 DEF FwInv, FirmwareDownloadNow, Cleared, DownloadOwnSettings
  <2>3. CASE Restart
    BY Zenon, <2>3 DEF FwInv, Restart, DownloadOwnSettings
  <2>4. CASE UNCHANGED fwVars
    BY Zenon, <2>4 DEF FwInv, fwVars, DownloadOwnSettings
  <2>5. ASSUME Next,
               ~(\E f \in Fields, v \in Values \cup {""} : SetFirmware(f, v)),
               ~FirmwareDownloadNow, ~Restart
        PROVE  UNCHANGED fwVars
    BY Zenon, <2>5 DEF Next, Reset, ResetFunc, RebootNow, UploadLogsNow, UploadDone, ReverseSshArgs,
                StartShorts, StartPlain, FwDwldStarted, FwDwldCompleted, RebootPending,
                CreateStartTime, WriteStartTime, MonitorStarts, MonitorChecks, MonitorReads,
                MonitorWatches, MonitorWakes, SetFeature, Session, RetrieveNow, RfcMgrDone,
                actionVars
  <2> QED
    BY Zenon, <2>1, <2>2, <2>3, <2>4, <2>5 DEF vars, actionVars
<1>3. FwInv => DownloadOwnSettings
  BY Zenon DEF FwInv
<1> QED
  BY <1>1, <1>2, <1>3, PTL DEF Spec
-----------------------------------------------------------------------------
(* Announcements: the member that holds the start time is the one of the   *)
(* last download reported as started.                                      *)
RpcInv == startTime = began /\ StartTimeCurrent

\* The completion of a download is announced with the start time of the last
\* download that was reported as started, never with an earlier one's.
THEOREM StartTimes == Spec => []StartTimeCurrent
<1>1. Init => RpcInv
  BY Zenon DEF Init, RpcInv, StartTimeCurrent
<1>2. RpcInv /\ [Next]_vars => RpcInv'
  <2> SUFFICES ASSUME RpcInv, [Next]_vars PROVE RpcInv'
    BY Zenon
  <2>1. ASSUME NEW t, FwDwldStarted(t) PROVE RpcInv'
    BY Zenon, <2>1 DEF RpcInv, FwDwldStarted, Announced, StartTimeCurrent
  <2>2. CASE FwDwldCompleted
    BY Zenon, <2>2 DEF RpcInv, FwDwldCompleted, StartTimeCurrent
  <2>3. CASE RebootPending
    BY Zenon, <2>3 DEF RpcInv, RebootPending, StartTimeCurrent
  <2>4. CASE MonitorReads
    BY <2>4 DEF RpcInv, MonitorReads, Manageable, StartTimeCurrent
  <2>5. CASE Restart
    BY Zenon, <2>5 DEF RpcInv, Restart, StartTimeCurrent
  <2>6. CASE UNCHANGED rpcVars
    BY Zenon, <2>6 DEF RpcInv, rpcVars, StartTimeCurrent
  <2>7. ASSUME Next, ~(\E t \in Values : FwDwldStarted(t)), ~FwDwldCompleted, ~RebootPending,
               ~MonitorReads, ~Restart
        PROVE  UNCHANGED rpcVars
    BY Zenon, <2>7 DEF Next, Reset, ResetFunc, RebootNow, UploadLogsNow, UploadDone, SetFirmware,
                FirmwareDownloadNow, ReverseSshArgs, StartShorts, StartPlain, CreateStartTime,
                WriteStartTime, MonitorStarts, MonitorChecks, MonitorWatches, MonitorWakes,
                SetFeature, Session, RetrieveNow, RfcMgrDone, actionVars
  <2> QED
    BY Zenon, <2>1, <2>2, <2>3, <2>4, <2>5, <2>6, <2>7 DEF vars, actionVars
<1>3. RpcInv => StartTimeCurrent
  BY Zenon DEF RpcInv
<1> QED
  BY <1>1, <1>2, <1>3, PTL DEF Spec
-----------------------------------------------------------------------------
(* The tunnel: after an accepted request the members are those of that     *)
(* request, whatever part of them refused requests have overwritten.       *)
SshFields == {"rev", "shorts", "nonShorts", "localport", "host", "hostIp", "stunnelport"}

ArgsInv ==
  (args # None /\ args.ret = "OK") =>
    /\ ssh.rev = args.id
    /\ args.stunnel => \A a \in SshFields : ssh[a] = args.id
SshInv ==
  /\ ssh = [a \in SshFields |-> ssh[a]]
  /\ ArgsInv
  /\ tunnel # None => DOMAIN tunnel.ssh = SshFields
  /\ TunnelOneRequest

\* What a request may leave: the arguments keep their form, and a request that
\* is accepted has filled in what it names, all of them if it names a stunnel
\* port.
LEMMA RequestFills ==
  ASSUME NEW r \in SshRequests, NEW o \in Arguments(r), ssh = [a \in SshFields |-> ssh[a]]
  PROVE  /\ o.ssh = [a \in SshFields |-> o.ssh[a]]
         /\ o.ret = "OK" => /\ o.ssh.rev = r.id
                            /\ r.stunnel => \A a \in SshFields : o.ssh[a] = r.id
<1> DEFINE rev == [ssh EXCEPT !.rev = r.id]
           port == [rev EXCEPT !.shorts = r.id, !.localport = r.id]
           Scanned(s) == IF r.clean THEN [ssh |-> s, ret |-> "OK"] ELSE Refused(s)
           Formed(s) == s = [a \in SshFields |-> s[a]]
<1>1. Formed(rev) /\ rev.rev = r.id
  BY Zenon DEF SshFields
<1>2. Formed(port) /\ \A a \in {"rev", "shorts", "localport"} : port[a] = r.id
  BY Zenon, <1>1 DEF SshFields
<1>3. ASSUME NEW s, Formed(s), o = Refused(s) PROVE Formed(o.ssh) /\ o.ret = "NOK"
  BY Zenon, <1>3 DEF Refused, SshFields
<1>4. CASE ~r.stunnel
  <2> DEFINE plain == [rev EXCEPT !.nonShorts = r.id]
  <2>1. o = Scanned(plain)
    BY Zenon, <1>4 DEF Arguments
  <2>2. Formed(plain) /\ plain.rev = r.id
    BY Zenon, <1>1 DEF SshFields
  <2> HIDE DEF plain, rev, port
  <2>3. CASE r.clean
    <3>1. o.ssh = plain
      BY Zenon, <2>1, <2>3
    <3> QED
      BY Zenon, <2>2, <3>1, <1>4
  <2>4. CASE ~r.clean
    BY Zenon, <2>1, <2>2, <2>4, <1>3
  <2> QED
    BY Zenon, <2>3, <2>4
<1>5. CASE r.stunnel
  <2>1. CASE o = [ssh |-> rev, ret |-> "NOK"]
    BY Zenon, <2>1, <1>1
  <2>2. CASE o # [ssh |-> rev, ret |-> "NOK"] /\ "host" \notin r.has
    <3>1. PICK h \in Made(ssh.host) : o = Refused([port EXCEPT !.host = h])
      <4>1. o \in {Refused([port EXCEPT !.host = h]) : h \in Made(ssh.host)}
        BY <1>5, <2>2, Zenon DEF Arguments
      <4> QED
        BY <4>1, Zenon
    <3>2. Formed([port EXCEPT !.host = h])
      BY Zenon, <1>2 DEF SshFields
    <3> HIDE DEF rev, port
    <3> QED
      BY Zenon, <3>1, <3>2, <1>3
  <2>3. CASE o # [ssh |-> rev, ret |-> "NOK"] /\ "host" \in r.has /\ "hostIp" \notin r.has
    <3>1. PICK h \in Made(ssh.hostIp) :
            o = Refused([port EXCEPT !.host = r.id, !.hostIp = h])
      <4>1. o \in {Refused([port EXCEPT !.host = r.id, !.hostIp = h]) : h \in Made(ssh.hostIp)}
        BY <1>5, <2>3, Zenon DEF Arguments
      <4> QED
        BY <4>1, Zenon
    <3>2. Formed([port EXCEPT !.host = r.id, !.hostIp = h])
      BY Zenon, <1>2 DEF SshFields
    <3> HIDE DEF rev, port
    <3> QED
      BY Zenon, <3>1, <3>2, <1>3
  <2>4. CASE o # [ssh |-> rev, ret |-> "NOK"] /\ "host" \in r.has /\ "hostIp" \in r.has
    <3>1. o = Scanned(Completed(port, r))
      BY Zenon, <1>5, <2>4 DEF Arguments
    <3>2. Formed(Completed(port, r)) /\ \A a \in SshFields : Completed(port, r)[a] = r.id
      BY Zenon, <1>2 DEF SshFields, Completed
    <3>3. Completed(port, r).rev = r.id
      BY Zenon, <3>2 DEF SshFields
    <3> HIDE DEF rev, port
    <3>4. CASE r.clean
      <4>1. o.ssh = Completed(port, r)
        BY Zenon, <3>1, <3>4
      <4> QED
        BY Zenon, <3>2, <3>3, <4>1
    <3>5. CASE ~r.clean
      BY Zenon, <3>1, <3>2, <3>5, <1>3
    <3> QED
      BY Zenon, <3>4, <3>5
  <2> QED
    BY Zenon, <2>1, <2>2, <2>3, <2>4
<1> QED
  BY Zenon, <1>4, <1>5

\* A tunnel started after an accepted request has its arguments from that
\* request alone.
THEOREM TunnelsOwn == Spec => []TunnelOneRequest
<1>1. Init => SshInv
  BY Zenon DEF Init, SshInv, ArgsInv, NoArgs, SshFields, TunnelOneRequest
<1>2. SshInv /\ [Next]_vars => SshInv'
  <2> SUFFICES ASSUME SshInv, [Next]_vars PROVE SshInv'
    BY Zenon
  <2>1. ASSUME NEW r \in SshRequests, ReverseSshArgs(r) PROVE SshInv'
    <3>1. PICK o \in Arguments(r) :
            ssh' = o.ssh /\ args' = [id |-> r.id, stunnel |-> r.stunnel, ret |-> o.ret]
      BY Zenon, <2>1 DEF ReverseSshArgs
    <3>2. tunnel' = tunnel
      BY Zenon, <2>1 DEF ReverseSshArgs
    <3>3. ssh' = [a \in SshFields |-> ssh'[a]]
      BY Zenon, <3>1, RequestFills DEF SshInv
    <3>4. ArgsInv'
      <4>1. args'.id = r.id /\ args'.ret = o.ret /\ (args'.stunnel <=> r.stunnel)
        BY Zenon, <3>1
      <4>2. o.ret = "OK" => /\ o.ssh.rev = r.id
                            /\ r.stunnel => \A a \in SshFields : o.ssh[a] = r.id
        BY Zenon, RequestFills DEF SshInv
      <4> QED
        BY <3>1, <4>1, <4>2, Zenon DEF ArgsInv
    <3> QED
      BY Zenon, <3>2, <3>3, <3>4 DEF SshInv, TunnelOneRequest
  <2>2. CASE StartShorts
    BY Zenon, <2>2 DEF SshInv, ArgsInv, StartShorts, TunnelOneRequest
  <2>3. CASE StartPlain
    BY Zenon, <2>3 DEF SshInv, ArgsInv, StartPlain, TunnelOneRequest
  <2>4. CASE Restart
    BY Zenon, <2>4 DEF SshInv, ArgsInv, Restart, NoArgs, SshFields, TunnelOneRequest
  <2>5. CASE UNCHANGED sshVars
    BY Zenon, <2>5 DEF SshInv, ArgsInv, sshVars, TunnelOneRequest
  <2>6. ASSUME Next, ~(\E r \in SshRequests : ReverseSshArgs(r)), ~StartShorts, ~StartPlain,
               ~Restart
        PROVE  UNCHANGED sshVars
    BY Zenon, <2>6 DEF Next, Reset, ResetFunc, RebootNow, UploadLogsNow, UploadDone, SetFirmware,
                FirmwareDownloadNow, FwDwldStarted, FwDwldCompleted, RebootPending,
                CreateStartTime, WriteStartTime, MonitorStarts, MonitorChecks, MonitorReads,
                MonitorWatches, MonitorWakes, SetFeature, Session, RetrieveNow, RfcMgrDone,
                actionVars
  <2> QED
    BY Zenon, <2>1, <2>2, <2>3, <2>4, <2>5, <2>6 DEF vars, actionVars
<1>3. SshInv => TunnelOneRequest
  BY Zenon DEF SshInv
<1> QED
  BY <1>1, <1>2, <1>3, PTL DEF Spec
-----------------------------------------------------------------------------
(* The RFC features.                                                       *)
FeatureForms ==
  /\ load.params \subseteq Params
  /\ served = [p \in Params |-> served[p]]
  /\ next = [p \in Params |-> next[p]]
  /\ effect = [p \in Params |-> effect[p]]
  /\ asked = [p \in Params |-> asked[p]]
  /\ updating \in BOOLEAN
  /\ debug \in BOOLEAN

FeatInv == FeatureForms /\ FeatureApplied /\ SecureDebugFollows

\* The two parts of an outcome.
LEMMA OutFields ==
  ASSUME NEW e, NEW r PROVE Out(e, r).effect = e /\ Out(e, r).ret = r
BY Zenon DEF Out

\* A handler that looks at every step it takes and answers OK has switched its
\* feature to the value of the request.
LEMMA CheckedSwitch ==
  ASSUME NEW p \in Checked, NEW e, NEW v, NEW ret, NEW s,
         NEW o \in SideEffect(p, e, v, ret, s), o.ret = "OK"
  PROVE  o.effect = v
<1>1. CASE p = "interval"
  <2>1. o \in DistributedTracingInterval(e, v)
    BY Zenon, <1>1 DEF SideEffect
  <2>2. o \in {Out(e, "NOK")} \cup Rewritten(e, v)
    BY Zenon, <2>1 DEF DistributedTracingInterval
  <2>3. \A x : o # Out(x, "NOK")
    BY OutFields
  <2>4. o = Out(v, "OK")
    BY <2>2, <2>3, Zenon DEF Rewritten
  <2> QED
    BY <2>4, OutFields, Zenon
<1>2. CASE p \in {"issueType", "webCfg", "rebootStop", "rdmStatus"}
  BY <1>2 DEF SideEffect, RDKRemoteDebuggerIssueType, RDKRemoteDebuggerWebCfgData,
              RebootStopEnable, DownloadManagerStatus, Published, Out
<1>3. CASE p = "loudness"
  BY <1>3 DEF SideEffect, LoudnessEquivalenceEnable, Out
<1> QED
  BY Zenon, <1>1, <1>2, <1>3 DEF Checked

\* A SET of a parameter of the debug state answered OK has written the state
\* of the values served by then.
LEMMA DebugSwitch ==
  ASSUME NEW p \in {"dbgServices", "deviceType"}, NEW e, NEW v, NEW ret, NEW s,
         NEW o \in SideEffect(p, e, v, ret, s), o.ret = "OK", ret = "OK" \/ ret = "NOK"
  PROVE  o.effect = DebugState(s)
<1>1. CASE ret = "OK"
  <2>1. o \in SecureDebugState(e, s)
    BY Zenon, <1>1 DEF SideEffect
  <2>2. \/ \E r \in {"OK", "NOK"} : o = Out(DebugState(s), r)
        \/ o = Out("", "NOK") \/ o = Out(e, "NOK")
    BY <2>1, Zenon DEF SecureDebugState
  <2>3. \A x : o # Out(x, "NOK")
    BY OutFields
  <2>4. PICK r \in {"OK", "NOK"} : o = Out(DebugState(s), r)
    BY <2>2, <2>3, Zenon
  <2>5. Out(DebugState(s), r).effect = DebugState(s)
    BY Zenon, OutFields
  <2> QED
    BY <2>4, <2>5, Zenon
<1>2. CASE ret = "NOK"
  BY <1>2 DEF SideEffect, Out
<1> QED
  BY Zenon, <1>1, <1>2

\* A SET of an RFC parameter keeps both invariants.
LEMMA SetKeeps ==
  ASSUME FeatInv, load' = load, NEW p \in Params, NEW v, SetRFC(p, v)
  PROVE  FeatInv'
<1>1. PICK wrote \in IF Valid(p, v) /\ p \notin Direct THEN BOOLEAN ELSE {FALSE} :
        /\ Stored(p, v, wrote)
        /\ \E o \in SideEffect(p, effect[Feature(p)], v, IF wrote THEN "OK" ELSE "NOK", served') :
             /\ effect' = [effect EXCEPT ![Feature(p)] = o.effect]
             /\ asked' = [asked EXCEPT ![p] = Asked(v, wrote, o.ret)]
             /\ debug' = IF Feature(p) # "dbgServices" THEN debug
                         ELSE IF o.ret = "OK" THEN TRUE
                         ELSE debug /\ effect' = effect /\ served' = served
        /\ UNCHANGED updating
  BY Zenon DEF SetRFC
<1>2. PICK o \in SideEffect(p, effect[Feature(p)], v, IF wrote THEN "OK" ELSE "NOK", served') :
             /\ effect' = [effect EXCEPT ![Feature(p)] = o.effect]
             /\ asked' = [asked EXCEPT ![p] = Asked(v, wrote, o.ret)]
             /\ debug' = IF Feature(p) # "dbgServices" THEN debug
                         ELSE IF o.ret = "OK" THEN TRUE
                         ELSE debug /\ effect' = effect /\ served' = served
  BY <1>1, Zenon
<1>3. wrote \in BOOLEAN
  BY Zenon, <1>1
<1>4. Feature(p) \in Params
  BY Zenon, ParamsAssumption DEF Feature
<1>5. FeatureForms'
  BY Zenon, <1>1, <1>2, <1>3, <1>4 DEF FeatInv, FeatureForms, Stored
<1>6. FeatureApplied'
  <2> SUFFICES ASSUME NEW q \in Params \cap Checked, asked'[q] # None, asked'[q].ret = "OK"
               PROVE  /\ effect'[q] = asked'[q].value
                      /\ asked'[q].stored =>
                           asked'[q].value = (IF updating' THEN next' ELSE served')[q]
    BY Zenon DEF FeatureApplied
  <2>1. CASE q = p
    <3>1. Feature(p) = p
      BY Zenon, <2>1 DEF Feature, Checked
    <3>2. asked'[q].value = v /\ asked'[q].ret = o.ret /\ (asked'[q].stored <=> wrote)
      BY Zenon, <1>2, <1>3, <2>1 DEF FeatInv, FeatureForms, Asked
    <3>3. effect'[q] = o.effect
      BY Zenon, <1>2, <2>1, <3>1 DEF FeatInv, FeatureForms
    <3>4. o.effect = v
      BY <1>2, <2>1, <3>2, CheckedSwitch
    <3>5. wrote => v = (IF updating' THEN next' ELSE served')[q]
      BY Zenon, <1>1, <1>3, <2>1 DEF FeatInv, FeatureForms, Stored
    <3> QED
      BY Zenon, <3>2, <3>3, <3>4, <3>5
  <2>2. CASE q # p
    <3>1. asked'[q] = asked[q]
      BY Zenon, <1>2, <2>2 DEF FeatInv, FeatureForms
    <3>2. effect'[q] = effect[q]
      BY Zenon, <1>2, <2>2 DEF FeatInv, FeatureForms, Feature, Checked
    <3>3. served'[q] = served[q] /\ next'[q] = next[q] /\ updating' = updating
      BY Zenon, <1>1, <2>2 DEF FeatInv, FeatureForms, Stored
    <3> QED
      BY Zenon, <3>1, <3>2, <3>3 DEF FeatInv, FeatureApplied
  <2> QED
    BY Zenon, <2>1, <2>2
<1>7. SecureDebugFollows'
  <2> SUFFICES ASSUME "dbgServices" \in Params, debug'
               PROVE  effect'["dbgServices"] = DebugState(served')
    BY Zenon DEF SecureDebugFollows
  <2>1. CASE Feature(p) # "dbgServices"
    <3>1. debug /\ effect'["dbgServices"] = effect["dbgServices"]
      BY Zenon, <1>2, <2>1 DEF FeatInv, FeatureForms
    <3>2. p \notin {"dbgServices", "deviceType"}
      BY Zenon, <2>1 DEF Feature
    <3>3. \A q \in {"dbgServices", "deviceType"} : served'[q] = served[q]
      BY Zenon, <1>1, <3>2, ParamsAssumption DEF FeatInv, FeatureForms, Stored
    <3> QED
      BY Zenon, <3>1, <3>3 DEF FeatInv, SecureDebugFollows, DebugState
  <2>2. CASE Feature(p) = "dbgServices" /\ o.ret = "OK"
    <3>1. p \in {"dbgServices", "deviceType"}
      BY Zenon, <2>2 DEF Feature
    <3>2. o.effect = DebugState(served')
      BY <1>2, <1>3, <2>2, <3>1, DebugSwitch
    <3> QED
      BY Zenon, <1>2, <2>2, <3>2 DEF FeatInv, FeatureForms
  <2>3. CASE Feature(p) = "dbgServices" /\ o.ret # "OK"
    BY Zenon, <1>2, <2>3 DEF FeatInv, SecureDebugFollows
  <2> QED
    BY Zenon, <2>1, <2>2, <2>3
<1> QED
  BY Zenon, <1>5, <1>6, <1>7 DEF FeatInv

\* Both invariants are kept by every step.
LEMMA FeaturesStep ==
  ASSUME FeatInv, [Next]_vars PROVE FeatInv'
<1>1. CASE SetFeature
  BY Zenon, <1>1, SetKeeps DEF SetFeature, FeatInv, FeatureForms
<1>2. CASE Session
  <2>1. CASE ResetDataStart
    BY Zenon, <1>2, <2>1 DEF Session, ResetDataStart, FeatInv, FeatureForms, FeatureApplied,
                      SecureDebugFollows
  <2>2. CASE ResetDataEnd
    BY Zenon, <1>2, <2>2 DEF Session, ResetDataEnd, FeatInv, FeatureForms, FeatureApplied,
                      SecureDebugFollows
  <2> QED
    BY Zenon, <1>2, <2>1, <2>2 DEF Session
<1>3. ASSUME NEW v \in Values, RetrieveNow(v) PROVE FeatInv'
  <2>1. PICK first \in BOOLEAN, second \in BOOLEAN :
          /\ Stored("retrieveNow", IF second THEN "now" ELSE v, first \/ second)
          /\ asked' = [asked EXCEPT !["retrieveNow"] =
                         Asked(v, first \/ second, IF second THEN "OK" ELSE "NOK")]
    BY <1>3, Zenon DEF RetrieveNow
  <2>2. UNCHANGED <<load, updating, effect, debug>>
    BY Zenon, <1>3 DEF RetrieveNow
  <2>3. /\ served' = [p \in Params |-> served'[p]] /\ next' = [p \in Params |-> next'[p]]
        /\ asked' = [p \in Params |-> asked'[p]]
        /\ \A p \in Params \ {"retrieveNow"} :
             served'[p] = served[p] /\ next'[p] = next[p] /\ asked'[p] = asked[p]
    BY Zenon, <2>1 DEF Stored, FeatInv, FeatureForms
  <2>4. FeatureForms'
    BY Zenon, <2>2, <2>3 DEF FeatInv, FeatureForms
  <2>5. FeatureApplied'
    BY <2>2, <2>3 DEF FeatInv, FeatureApplied, Checked
  <2>6. SecureDebugFollows'
    BY Zenon, <2>2, <2>3, ParamsAssumption DEF FeatInv, SecureDebugFollows, DebugState
  <2> QED
    BY Zenon, <2>4, <2>5, <2>6 DEF FeatInv
<1>4. CASE Restart
  BY Zenon, <1>4 DEF Restart, FeaturesRestart, FeatInv, FeatureForms, FeatureApplied,
              SecureDebugFollows
<1>5. CASE UNCHANGED <<load, featureVars>>
  BY Zenon, <1>5 DEF featureVars, FeatInv, FeatureForms, FeatureApplied, SecureDebugFollows
<1>6. ASSUME Next, ~SetFeature, ~Session, ~(\E v \in Values : RetrieveNow(v)), ~Restart
      PROVE  UNCHANGED <<load, featureVars>>
  BY Zenon, <1>6 DEF Next, Reset, ResetFunc, RebootNow, UploadLogsNow, UploadDone, SetFirmware,
              FirmwareDownloadNow, ReverseSshArgs, StartShorts, StartPlain, FwDwldStarted,
              FwDwldCompleted, RebootPending, CreateStartTime, WriteStartTime, MonitorStarts,
              MonitorChecks, MonitorReads, MonitorWatches, MonitorWakes, RfcMgrDone
<1> QED
  BY Zenon, <1>1, <1>2, <1>3, <1>4, <1>5, <1>6 DEF vars

\* They hold of every behaviour.
LEMMA FeaturesInvariant == Spec => []FeatInv
<1>1. Init => FeatInv
  BY Zenon, ParamsAssumption DEF Init, FeaturesInit, FeatInv, FeatureForms, FeatureApplied,
                          SecureDebugFollows
<1> QED
  BY <1>1, FeaturesStep, PTL DEF Spec

\* A SET of a feature whose handler looks at its steps, answered OK, has
\* switched the feature, and what the store took is what GET serves, over
\* other requests and restarts.
THEOREM FeaturesApplied == Spec => []FeatureApplied
<1>1. FeatInv => FeatureApplied
  BY Zenon DEF FeatInv
<1> QED
  BY <1>1, FeaturesInvariant, PTL

\* From a SET of either debug parameter answered OK, the debug state file says
\* what the two parameters served say, over other SETs and restarts, until a
\* failed SET of either has changed something, a session ends or the process
\* stops in one.
THEOREM DebugFollows == Spec => []SecureDebugFollows
<1>1. FeatInv => SecureDebugFollows
  BY Zenon DEF FeatInv
<1> QED
  BY <1>1, FeaturesInvariant, PTL
=============================================================================
