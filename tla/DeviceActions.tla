---------------------------- MODULE DeviceActions ----------------------------
(***************************************************************************)
(* The SETs of Device.DeviceInfo that make the device do something: reset, *)
(* reboot, upload logs, download firmware, open a support tunnel, fetch    *)
(* the RFC settings and announce what the device is doing, together with   *)
(* the RFC features (DeviceFeatures).  Every SET runs under the lock of    *)
(* DeviceInfo and is one step; what it leaves behind are static members, a *)
(* global and detached threads, which later SETs and the threads find.     *)
(*                                                                         *)
(* The monitor thread announces that the device can be managed once the    *)
(* Parodus client has written /tmp/webpa/start_time.                       *)
(*                                                                         *)
(* A behaviour has the clients of one load, whose requests are the only    *)
(* ones made.                                                              *)
(***************************************************************************)
EXTENDS DeviceFeatures

CONSTANTS
  Loads,        \* each the parameters set and the operations used
  Values,       \* values of the download settings and of announced times
  MaxChecks,    \* how often the monitor looks for start_time (5)
  MaxReads,     \* how often it reads it (5)
  MaxThreads    \* bound: detached threads of one kind

\* A client sets parameters that exist, and the two of the debug state are
\* parameters of the same device.
ASSUME ParamsAssumption ==
  /\ \A l \in Loads : l.params \subseteq Params
  /\ "dbgServices" \in Params <=> "deviceType" \in Params

ASSUME ActionsAssumption ==
  /\ "" \notin Values
  /\ {MaxChecks, MaxReads, MaxThreads} \subseteq Nat \ {0}

Resets == {"Cold", "Factory", "Warehouse", "Customer"}
Fields == {"protocol", "url", "file", "codebig", "deferReboot"}
Required == {"protocol", "url", "file"}
NoSettings == [f \in Fields |-> ""]

VARIABLES
  load,       \* the load of this behaviour
  resetState, \* gResetState
  threads,    \* the detached threads of each kind
  ran,        \* history: the script run last
  fw,         \* the download settings
  given,      \* history: those given since the last download or restart
  download,   \* history: the last download started
  ssh,        \* the tunnel's arguments, each as the request it came from
  args,       \* history: the last request for arguments, and its answer
  tunnel,     \* history: the arguments of the last tunnel
  startTime,  \* m_strXOpsRPCFwDwldStartedNotification
  began,      \* history: the last SET of it, and whether it was announced
  pushed,     \* history: the last announcement
  monitor,    \* the monitor thread: where it is, its checks and reads
  startFile   \* start_time: "none", "empty" or "written"

resetVars == <<resetState, threads, ran>>
fwVars == <<fw, given, download>>
sshVars == <<ssh, args, tunnel>>
rpcVars == <<startTime, began, pushed>>
monitorVars == <<monitor, startFile>>
actionVars == <<resetVars, fwVars, sshVars, rpcVars, monitorVars>>
vars == <<load, featureVars, actionVars>>

Uses(op) == op \in load.ops
-----------------------------------------------------------------------------
\* The members as the program text initialises them.
NoThreads == [k \in {"reset", "reboot", "upload", "rfcMgr"} |-> 0]
NoArgs == [rev |-> "", shorts |-> "", nonShorts |-> "", localport |-> None,
           host |-> None, hostIp |-> None, stunnelport |-> None]
NewMonitor == [at |-> "sleep", checks |-> 0, reads |-> 0]

Spawn(k) == threads' = [threads EXCEPT ![k] = @ + 1]

\* X_RDKCENTRAL-COM_Reset: the kind goes to a global, a detached thread does
\* the rest.  A failure to create it is only logged.  (Other values are
\* refused and change nothing.)
Reset(k) ==
  /\ Uses("reset")
  /\ threads["reset"] < MaxThreads
  /\ resetState' = k
  /\ Spawn("reset") \/ threads' = threads
  /\ UNCHANGED <<load, featureVars, ran, fwVars, sshVars, rpcVars, monitorVars>>

\* triggerResetScript, two seconds later: the script of the kind the global
\* holds by then; if it succeeds the device reboots, but for a warehouse reset.
ResetFunc ==
  /\ threads["reset"] > 0
  /\ ran' = resetState
  /\ \E success \in BOOLEAN :
       threads' = [threads EXCEPT !["reset"] = @ - 1,
                     !["reboot"] = IF success /\ resetState # "Warehouse" /\ @ < MaxThreads
                                     THEN @ + 1 ELSE @]
  /\ UNCHANGED <<load, featureVars, resetState, fwVars, sshVars, rpcVars, monitorVars>>

\* RPC.RebootNow and UploadLogsNow, with the value true.
RebootNow ==
  /\ Uses("reset")
  /\ threads["reboot"] < MaxThreads
  /\ Spawn("reboot")
  /\ UNCHANGED <<load, featureVars, resetState, ran, fwVars, sshVars, rpcVars, monitorVars>>

UploadLogsNow ==
  /\ Uses("reset")
  /\ threads["upload"] < MaxThreads
  /\ Spawn("upload")
  /\ UNCHANGED <<load, featureVars, resetState, ran, fwVars, sshVars, rpcVars, monitorVars>>

UploadDone ==
  /\ threads["upload"] > 0
  /\ threads' = [threads EXCEPT !["upload"] = @ - 1]
  /\ UNCHANGED <<load, featureVars, resetState, ran, fwVars, sshVars, rpcVars, monitorVars>>
-----------------------------------------------------------------------------
\* FirmwareDownloadProtocol, URL, FirmwareToDownload, UseCodebig, DeferReboot:
\* kept in static members until the trigger.
SetFirmware(f, v) ==
  /\ Uses("download")
  /\ fw' = [fw EXCEPT ![f] = v]
  /\ given' = [given EXCEPT ![f] = v]
  /\ UNCHANGED <<load, featureVars, resetVars, download, sshVars, rpcVars, monitorVars>>

\* Mutant of Cleared: the two flags are left as they are.
ClearedStrings(s) == [f \in Fields |-> IF f \in Required THEN "" ELSE s[f]]

\* The settings after a download has been started.
Cleared(s) == NoSettings

\* FirmwareDownloadNow = true: refused unless protocol, URL and file are set.
\* A script that cannot be started leaves the settings for the next attempt.
FirmwareDownloadNow ==
  /\ Uses("download")
  /\ \A f \in Required : fw[f] # ""
  /\ fw' = Cleared(fw)
  /\ given' = NoSettings
  /\ download' = [used |-> fw, given |-> given]
  /\ UNCHANGED <<load, featureVars, resetVars, sshVars, rpcVars, monitorVars>>
-----------------------------------------------------------------------------
\* ReverseSshArgs.  A request r names a stunnel port or not, may lack the host
\* or its address, and may hold a character that is refused.  The arguments
\* are overwritten one by one, up to the point where the request fails; a
\* missing host raises an exception, and whether the left side of that
\* assignment has made an empty entry by then is the compiler's choice.
Refused(s) == [ssh |-> [s EXCEPT !.rev = ""], ret |-> "NOK"]
Made(x) == IF x = None THEN {None, ""} ELSE {x}

\* Mutant of Completed: the address of an earlier request is kept.
CompletedKeeping(s, r) ==
  [s EXCEPT !.host = r.id, !.hostIp = IF @ \in {None, ""} THEN r.id ELSE @,
            !.stunnelport = r.id, !.nonShorts = r.id]

\* The arguments after those of a stunnel session.
Completed(s, r) ==
  [s EXCEPT !.host = r.id, !.hostIp = r.id, !.stunnelport = r.id, !.nonShorts = r.id]

Arguments(r) ==
  LET rev == [ssh EXCEPT !.rev = r.id]
      port == [rev EXCEPT !.shorts = r.id, !.localport = r.id]
      Scanned(s) == IF r.clean THEN [ssh |-> s, ret |-> "OK"] ELSE Refused(s)
  IN IF ~r.stunnel THEN {Scanned([rev EXCEPT !.nonShorts = r.id])}
     ELSE {[ssh |-> rev, ret |-> "NOK"]} \cup     \* no local port is free
          CASE "host" \notin r.has ->
                 {Refused([port EXCEPT !.host = h]) : h \in Made(ssh.host)}
            [] "host" \in r.has /\ "hostIp" \notin r.has ->
                 {Refused([port EXCEPT !.host = r.id, !.hostIp = h]) : h \in Made(ssh.hostIp)}
            [] OTHER -> {Scanned(Completed(port, r))}

SshRequests == [id: Values, stunnel: BOOLEAN, has: SUBSET {"host", "hostIp"}, clean: BOOLEAN]

ReverseSshArgs(r) ==
  /\ Uses("tunnel")
  /\ \E o \in Arguments(r) :
       /\ ssh' = o.ssh
       /\ args' = [id |-> r.id, stunnel |-> r.stunnel, ret |-> o.ret]
  /\ UNCHANGED <<load, featureVars, resetVars, fwVars, tunnel, rpcVars, monitorVars>>

\* ReverseSshTrigger "start shorts" and "start".  (With a privacy mode or a
\* production build that forbids it, and with a session where only one is
\* allowed, it is refused and nothing changes; "stop" only runs the script.)
StunnelReady == \A a \in {"localport", "host", "hostIp", "stunnelport"} : ssh[a] # None
StartShorts ==
  /\ Uses("tunnel")
  /\ StunnelReady
  /\ tunnel' = [ssh |-> ssh, args |-> args, shorts |-> TRUE]
  /\ UNCHANGED <<load, featureVars, resetVars, fwVars, ssh, args, rpcVars, monitorVars>>

StartPlain ==
  /\ Uses("tunnel")
  /\ tunnel' = [ssh |-> ssh, args |-> args, shorts |-> FALSE]
  /\ UNCHANGED <<load, featureVars, resetVars, fwVars, ssh, args, rpcVars, monitorVars>>
-----------------------------------------------------------------------------
\* The announcements go out if the RFC parameter says so.
Announcing == served["notify"] = "true"

\* RPC.DeviceManageableNotification with time t: push_device_mgmt_notifications
\* if announcing.
Manageable(t) ==
  pushed' = IF Announcing THEN [status |-> "fully-manageable", time |-> t, began |-> None]
            ELSE pushed

\* Mutant of Announced: a time that is not announced leaves the old one.
AnnouncedOver(t) == IF Announcing THEN t ELSE startTime

\* The start time kept: it is cleared first, and set if announcing.
Announced(t) == IF Announcing THEN t ELSE ""

\* RPC.FirmwareDownloadStartedNotification.
FwDwldStarted(t) ==
  /\ Uses("announce")
  /\ startTime' = Announced(t)
  /\ began' = IF Announcing THEN t ELSE ""
  /\ pushed' = IF Announcing THEN [status |-> "started", time |-> t, began |-> t] ELSE pushed
  /\ UNCHANGED <<load, featureVars, resetVars, fwVars, sshVars, monitorVars>>

\* RPC.FirmwareDownloadCompletedNotification: it carries the start time kept.
FwDwldCompleted ==
  /\ Uses("announce")
  /\ Announcing
  /\ pushed' = [status |-> "completed", time |-> startTime, began |-> began]
  /\ UNCHANGED <<load, featureVars, resetVars, fwVars, sshVars, startTime, began, monitorVars>>

\* RPC.RebootPendingNotification.
RebootPending ==
  /\ Uses("announce")
  /\ Announcing
  /\ pushed' = [status |-> "reboot-pending", time |-> "", began |-> None]
  /\ UNCHANGED <<load, featureVars, resetVars, fwVars, sshVars, startTime, began, monitorVars>>
-----------------------------------------------------------------------------
\* connect_parodus: start_time is created by fopen and then written.
CreateStartTime ==
  /\ Uses("monitor")
  /\ startFile # "empty"
  /\ startFile' = "empty"
  /\ UNCHANGED <<load, featureVars, resetVars, fwVars, sshVars, rpcVars, monitor>>

WriteStartTime ==
  /\ startFile = "empty"
  /\ startFile' = "written"
  /\ UNCHANGED <<load, featureVars, resetVars, fwVars, sshVars, rpcVars, monitor>>

\* Mutant of Check: the last round does not look at the file any more.
CheckLate ==
  IF monitor.checks + 1 >= MaxChecks THEN [monitor EXCEPT !.at = "watch"]
  ELSE IF startFile # "none" THEN [monitor EXCEPT !.at = "read"]
  ELSE [monitor EXCEPT !.checks = @ + 1]

\* One round of systemMgmtTimePathMonitorThr: is the file there?  If not,
\* sleep a minute, and after MaxChecks rounds go on to watch the directory.
Check ==
  IF startFile # "none" THEN [monitor EXCEPT !.at = "read"]
  ELSE [monitor EXCEPT !.checks = @ + 1,
                       !.at = IF monitor.checks + 1 >= MaxChecks THEN "watch" ELSE "check"]

MonitorStarts ==
  /\ Uses("monitor")
  /\ monitor.at = "sleep"
  /\ monitor' = [monitor EXCEPT !.at = "check"]
  /\ UNCHANGED <<load, featureVars, resetVars, fwVars, sshVars, rpcVars, startFile>>

MonitorChecks ==
  /\ monitor.at = "check"
  /\ monitor' = Check
  /\ UNCHANGED <<load, featureVars, resetVars, fwVars, sshVars, rpcVars, startFile>>

\* get_device_manageble_time and the SET of the notification: the file is read
\* until it holds a time, MaxReads times at most.
MonitorReads ==
  /\ monitor.at = "read"
  /\ IF startFile # "written" /\ monitor.reads < MaxReads
       THEN /\ monitor' = [monitor EXCEPT !.reads = @ + 1]
            /\ UNCHANGED pushed
       ELSE /\ monitor' = [monitor EXCEPT !.at = "sent"]
            /\ Manageable(IF startFile = "written" THEN "start" ELSE "0")
  /\ UNCHANGED <<load, featureVars, resetVars, fwVars, sshVars, startTime, began, startFile>>

\* The watch on /tmp/webpa is set up, or the thread ends.
MonitorWatches ==
  /\ monitor.at = "watch"
  /\ \E at \in {"watching", "ended"} : monitor' = [monitor EXCEPT !.at = at]
  /\ UNCHANGED <<load, featureVars, resetVars, fwVars, sshVars, rpcVars, startFile>>

\* An event of the watch.  Only a change of the attributes of start_time
\* counts, which neither fopen nor the write of connect_parodus is; some other
\* program may touch the file.  A failed read ends the thread.
MonitorWakes ==
  /\ monitor.at = "watching"
  /\ \E at \in {"ended"} \cup (IF startFile # "none" THEN {"read"} ELSE {}) :
       monitor' = [monitor EXCEPT !.at = at]
  /\ UNCHANGED <<load, featureVars, resetVars, fwVars, sshVars, rpcVars, startFile>>
-----------------------------------------------------------------------------
\* RFC parameters; in a load with RFC sessions also ClearDB and ClearDBEnd.
SetFeature ==
  /\ \E p \in load.params : \E v \in Sets[p] : SetRFC(p, v)
  /\ UNCHANGED <<load, actionVars>>

Session ==
  /\ Uses("session")
  /\ ResetDataStart \/ ResetDataEnd
  /\ UNCHANGED <<load, actionVars>>

\* RetrieveNow: the value is stored, rfcMgr started in a thread of its own, and
\* the value replaced by the time.
RetrieveNow(v) ==
  /\ Uses("retrieve")
  /\ threads["rfcMgr"] < MaxThreads
  /\ \E first, second \in BOOLEAN :
       /\ Stored("retrieveNow", IF second THEN "now" ELSE v, first \/ second)
       /\ asked' = [asked EXCEPT !["retrieveNow"] =
                      Asked(v, first \/ second, IF second THEN "OK" ELSE "NOK")]
  /\ Spawn("rfcMgr")
  /\ UNCHANGED <<load, updating, effect, debug, resetState, ran, fwVars, sshVars, rpcVars, monitorVars>>

RfcMgrDone ==
  /\ threads["rfcMgr"] > 0
  /\ threads' = [threads EXCEPT !["rfcMgr"] = @ - 1]
  /\ UNCHANGED <<load, featureVars, resetState, ran, fwVars, sshVars, rpcVars, monitorVars>>

\* The process ends and is started again: by a reboot, a crash, the exception
\* of "start shorts" without arguments, or the service manager.
Restart ==
  /\ FeaturesRestart
  /\ resetState' = "" /\ threads' = NoThreads /\ ran' = ran
  /\ fw' = NoSettings /\ given' = NoSettings /\ download' = download
  /\ ssh' = NoArgs /\ args' = None /\ tunnel' = tunnel
  /\ startTime' = "" /\ began' = "" /\ pushed' = pushed
  /\ monitor' = NewMonitor
  /\ UNCHANGED <<load, startFile>>
-----------------------------------------------------------------------------
Init ==
  /\ load \in Loads
  /\ FeaturesInit
  /\ resetState = "" /\ threads = NoThreads /\ ran = ""
  /\ fw = NoSettings /\ given = NoSettings /\ download = None
  /\ ssh = NoArgs /\ args = None /\ tunnel = None
  /\ startTime = "" /\ began = "" /\ pushed = None
  /\ monitor = NewMonitor
  /\ startFile = "none"

Next ==
  \/ \E k \in Resets : Reset(k)
  \/ ResetFunc \/ RebootNow \/ UploadLogsNow \/ UploadDone
  \/ \E f \in Fields, v \in Values \cup {""} : SetFirmware(f, v)
  \/ FirmwareDownloadNow
  \/ \E r \in SshRequests : ReverseSshArgs(r)
  \/ StartShorts \/ StartPlain
  \/ \E t \in Values : FwDwldStarted(t)
  \/ FwDwldCompleted \/ RebootPending
  \/ CreateStartTime \/ WriteStartTime
  \/ MonitorStarts \/ MonitorChecks \/ MonitorReads \/ MonitorWatches \/ MonitorWakes
  \/ SetFeature \/ Session
  \/ \E v \in Values : RetrieveNow(v)
  \/ RfcMgrDone \/ Restart

\* The monitor thread runs; nothing else has to happen.
Spec == Init /\ [][Next]_vars
FairSpec == Spec /\ WF_vars(MonitorStarts) /\ WF_vars(MonitorChecks) /\ WF_vars(MonitorReads)
-----------------------------------------------------------------------------
\* FirmwareDownloadNow starts the download with the settings given since the
\* download before it (or since the start of the process), all of those it
\* needs among them: no setting of an earlier download is used again.
DownloadOwnSettings ==
  download # None =>
    /\ download.used = download.given
    /\ \A f \in Required : download.given[f] # ""

\* A stunnel session started after an accepted request for arguments with a
\* stunnel port has all its arguments from that request, whatever refused
\* requests came before it; a plain one has its own from the accepted request.
TunnelOneRequest ==
  (tunnel # None /\ tunnel.args # None /\ tunnel.args.ret = "OK") =>
    /\ tunnel.ssh.rev = tunnel.args.id
    /\ (tunnel.shorts /\ tunnel.args.stunnel) =>
         \A a \in DOMAIN tunnel.ssh : tunnel.ssh[a] = tunnel.args.id

\* The completion of a firmware download is announced with the start time of
\* the last download reported as started, or with none if that start was not
\* announced: never with the time of an earlier download.
StartTimeCurrent ==
  (pushed # None /\ pushed.status = "completed") => pushed.time = pushed.began

\* If start_time is there while the monitor thread has a check to make, the
\* thread makes the SET that announces the device, unless a new process starts
\* the thread afresh.  (A file created later is missed: the watch waits for an
\* event that creating and writing it does not raise.)
ManageableSent ==
  (monitor.at = "check" /\ startFile # "none") ~> monitor.at \in {"sent", "sleep"}
=============================================================================
