----------------------------- MODULE Lifecycle ------------------------------
(***************************************************************************)
(* Start and stop of the daemon: main() and its threads (the JSON server,  *)
(* the HTTP server, the update handler), the signal handler and the        *)
(* shutdown thread that runs exit_gracefully, beside callers that look up  *)
(* the table of managers from their own threads.                           *)
(***************************************************************************)
EXTENDS Naturals

CONSTANTS
  Callers,       \* threads that dispatch requests (IARM, rbus, Parodus)
  LegacyModes,   \* whether the legacy-RFC marker file may exist
  Failures,      \* the steps of the start that may fail
  MaxSignals     \* bound on the signals

Servers == {"json", "http"}
Steps == {"conf", "iarm", "merge", "load", "status", "listen"}

ASSUME LifecycleAssumption ==
  /\ LegacyModes \subseteq BOOLEAN /\ LegacyModes # {}
  /\ Failures \subseteq Steps
  /\ MaxSignals \in Nat

VARIABLES
  main,      \* where main() is
  legacy,    \* legacyRFCEnabled()
  noHttp,    \* no HTTP server within 10 s: unused, too slow, or failing
  table,     \* paramMgrhash: "none", "built" or "freed"
  lookups,   \* the callers that are reading the table
  iarm,      \* connected to the bus
  thread,    \* the thread that starts each server
  server,    \* each soup server: "none", "created", "listening", "closed"
  httpDone,  \* httpServerThreadDone
  notified,  \* main was woken from its wait
  ready,     \* READY=1 has been sent to systemd
  update,    \* the update thread
  stopped,   \* updateHandler::stopped
  loop,      \* main_loop: "none", "new", "running", "quit"
  sem,       \* shutdown_thread_sem
  signals,   \* signals received (bounded)
  shut       \* where the shutdown thread is

vars == <<main, legacy, noHttp, table, lookups, iarm, thread, server, httpDone, notified,
          ready, update, stopped, loop, sem, signals, shut>>
startVars == <<thread, server, httpDone>>
stopVars == <<sem, signals, shut>>

Alive == main # "exited"
May(step) == step \in Failures
-----------------------------------------------------------------------------
Init ==
  /\ main = "conf"
  /\ legacy \in LegacyModes
  /\ noHttp \in BOOLEAN /\ (legacy => noHttp)
  /\ table = "none" /\ lookups = {} /\ iarm = FALSE
  /\ thread = [s \in Servers |-> "none"]
  /\ server = [s \in Servers |-> "none"]
  /\ httpDone = FALSE /\ notified = FALSE /\ ready = FALSE
  /\ update = "none" /\ stopped = FALSE
  /\ loop = "none"
  /\ sem = 0 /\ signals = 0 /\ shut = "wait"
-----------------------------------------------------------------------------
(* main().                                                                 *)

\* hostIf_initalize_ConfigManger; a failure is only logged.
BuildTable ==
  /\ main = "conf"
  /\ \/ table' = "built"
     \/ May("conf") /\ UNCHANGED table
  /\ main' = "iarm"
  /\ UNCHANGED <<legacy, noHttp, lookups, iarm, startVars, notified, ready, update, stopped, loop, stopVars>>

\* hostIf_IARM_IF_Start; a failure is only logged.
StartIarm ==
  /\ main = "iarm"
  /\ \/ iarm' = TRUE
     \/ May("iarm") /\ UNCHANGED iarm
  /\ main' = "merge"
  /\ UNCHANGED <<legacy, noHttp, table, lookups, startVars, notified, ready, update, stopped, loop, stopVars>>

\* mergeDataModel and loadDataModel: main returns if one of them fails.
LoadModel ==
  /\ \/ main = "merge" /\ main' = "load"
     \/ main = "load" /\ main' = "json"
     \/ main \in {"merge", "load"} /\ May(main) /\ main' = "exited"
  /\ UNCHANGED <<legacy, noHttp, table, lookups, iarm, startVars, notified, ready, update, stopped, loop, stopVars>>

\* The two server threads; the HTTP server is not used with legacy RFC.
StartServers ==
  /\ \/ /\ main = "json" /\ main' = "http"
        /\ thread' = [thread EXCEPT !["json"] = "start"]
     \/ /\ main = "http" /\ main' = "update"
        /\ thread' = IF legacy THEN thread ELSE [thread EXCEPT !["http"] = "start"]
  /\ UNCHANGED <<legacy, noHttp, table, lookups, iarm, server, httpDone, notified, ready, update, stopped, loop, stopVars>>

\* updateHandler::Init, then Parodus, WebConfig and rbus.
StartUpdate ==
  /\ main = "update"
  /\ update' = "test"
  /\ main' = "check"
  /\ UNCHANGED <<legacy, noHttp, table, lookups, iarm, startVars, notified, ready, stopped, loop, stopVars>>

\* The flag is read once without the lock, and again under it before waiting.
AwaitHttp ==
  /\ \/ main = "check" /\ main' = IF httpDone THEN "ready" ELSE "lock"
     \/ main = "lock" /\ main' = IF httpDone THEN "ready" ELSE "waiting"
  /\ notified' = FALSE
  /\ UNCHANGED <<legacy, noHttp, table, lookups, iarm, startVars, ready, update, stopped, loop, stopVars>>

\* The wait ends with the flag set, or after 10 seconds.
HttpAwaited ==
  /\ main = "waiting"
  /\ \/ notified /\ httpDone
     \/ noHttp
  /\ main' = "ready"
  /\ UNCHANGED <<legacy, noHttp, table, lookups, iarm, startVars, notified, ready, update, stopped, loop, stopVars>>

SendReady ==
  /\ main = "ready"
  /\ ready' = TRUE
  /\ main' = "loop"
  /\ UNCHANGED <<legacy, noHttp, table, lookups, iarm, startVars, notified, update, stopped, loop, stopVars>>

\* g_main_loop_new, then g_main_loop_run.
RunLoop ==
  /\ \/ main = "loop" /\ main' = "run" /\ loop' = "new"
     \/ main = "run" /\ main' = "running" /\ loop' = "running"
  /\ UNCHANGED <<legacy, noHttp, table, lookups, iarm, startVars, notified, ready, update, stopped, stopVars>>

LeaveLoop ==
  /\ main = "running"
  /\ loop = "quit"
  /\ main' = "join"
  /\ UNCHANGED <<legacy, noHttp, table, lookups, iarm, startVars, notified, ready, update, stopped, loop, stopVars>>

\* The server threads are joined; the others end with the process.
Join ==
  /\ main = "join"
  /\ \A s \in Servers : thread[s] \in {"none", "done"}
  /\ main' = "exited"
  /\ UNCHANGED <<legacy, noHttp, table, lookups, iarm, startVars, notified, ready, update, stopped, loop, stopVars>>
-----------------------------------------------------------------------------
(* The server threads: hostIf_HttpServerStart and HTTPServerStartThread.   *)

\* A server is created; the HTTP thread gives up without its data model.
CreateServer(s) ==
  /\ Alive
  /\ thread[s] = "start"
  /\ \/ /\ thread' = [thread EXCEPT ![s] = "listen"]
        /\ server' = [server EXCEPT ![s] = "created"]
     \/ /\ s = "http" /\ noHttp /\ May("status")
        /\ thread' = [thread EXCEPT ![s] = "done"]
        /\ UNCHANGED server
  /\ UNCHANGED <<main, legacy, noHttp, table, lookups, iarm, httpDone, notified, ready, update, stopped, loop, stopVars>>

\* A failure to listen is only logged.
Listen(s) ==
  /\ Alive
  /\ thread[s] = "listen"
  /\ thread' = [thread EXCEPT ![s] = IF s = "http" THEN "signal" ELSE "done"]
  /\ \/ server' = [server EXCEPT ![s] = "listening"]
     \/ (s = "http" => noHttp) /\ May("listen") /\ UNCHANGED server
  /\ UNCHANGED <<main, legacy, noHttp, table, lookups, iarm, httpDone, notified, ready, update, stopped, loop, stopVars>>

\* Mutant of SignalDone: the flag is set before the server listens.
SignalDoneEarly ==
  /\ Alive
  /\ thread["http"] \in {"listen", "signal"}
  /\ httpDone' = TRUE
  /\ notified' = (main = "waiting")
  /\ thread' = IF thread["http"] = "signal" THEN [thread EXCEPT !["http"] = "done"] ELSE thread
  /\ UNCHANGED <<main, legacy, noHttp, table, lookups, iarm, server, ready, update, stopped, loop, stopVars>>

\* Mutant of SignalDone: main is notified but the flag is not set.
SignalDoneNoFlag ==
  /\ Alive
  /\ thread["http"] = "signal"
  /\ notified' = (main = "waiting")
  /\ thread' = [thread EXCEPT !["http"] = "done"]
  /\ UNCHANGED <<main, legacy, noHttp, table, lookups, iarm, server, httpDone, ready, update, stopped, loop, stopVars>>

\* Under the lock the flag is set and main notified.
SignalDone ==
  /\ Alive
  /\ thread["http"] = "signal"
  /\ httpDone' = TRUE
  /\ notified' = (main = "waiting")
  /\ thread' = [thread EXCEPT !["http"] = "done"]
  /\ UNCHANGED <<main, legacy, noHttp, table, lookups, iarm, server, ready, update, stopped, loop, stopVars>>
-----------------------------------------------------------------------------
\* updateHandler::run: test the flag, poll the profiles, sleep 60 s.
UpdateThread ==
  /\ Alive
  /\ \/ update = "test" /\ update' = IF stopped THEN "done" ELSE "poll"
     \/ update = "poll" /\ update' = "sleep"
     \/ update = "sleep" /\ update' = "test"
  /\ UNCHANGED <<main, legacy, noHttp, table, lookups, iarm, startVars, notified, ready, stopped, loop, stopVars>>

\* HostIf_GetMgr walks the table if it is there.
Lookup(c) ==
  /\ Alive
  /\ iarm
  /\ c \notin lookups
  /\ table = "built"
  /\ lookups' = lookups \cup {c}
  /\ UNCHANGED <<main, legacy, noHttp, table, iarm, startVars, notified, ready, update, stopped, loop, stopVars>>

LookedUp(c) ==
  /\ Alive
  /\ c \in lookups
  /\ lookups' = lookups \ {c}
  /\ UNCHANGED <<main, legacy, noHttp, table, iarm, startVars, notified, ready, update, stopped, loop, stopVars>>
-----------------------------------------------------------------------------
(* Signals and exit_gracefully.                                            *)

\* quit_handler.
QuitHandler ==
  /\ Alive
  /\ signals < MaxSignals
  /\ signals' = signals + 1
  /\ sem' = sem + 1
  /\ UNCHANGED <<main, legacy, noHttp, table, lookups, iarm, startVars, notified, ready, update, stopped, loop, shut>>

\* shutdown_thread_entry handles one signal and returns.
WakeShutdown ==
  /\ Alive
  /\ shut = "wait"
  /\ sem > 0
  /\ sem' = sem - 1
  /\ shut' = "json"
  /\ UNCHANGED <<main, legacy, noHttp, table, lookups, iarm, startVars, notified, ready, update, stopped, loop, signals>>

Closed(s) == [server EXCEPT ![s] = IF @ = "listening" THEN "closed" ELSE @]

\* hostIf_HttpServerStop.
StopJson ==
  /\ Alive
  /\ shut = "json" /\ shut' = "update"
  /\ server' = Closed("json")
  /\ UNCHANGED <<main, legacy, noHttp, table, lookups, iarm, thread, httpDone, notified, ready, update, stopped, loop, sem, signals>>

StopUpdate ==
  /\ Alive
  /\ shut = "update" /\ shut' = "table"
  /\ stopped' = TRUE
  /\ UNCHANGED <<main, legacy, noHttp, table, lookups, iarm, startVars, notified, ready, update, loop, sem, signals>>

FreeTable ==
  /\ Alive
  /\ shut = "table" /\ shut' = "iarm"
  /\ table' = IF table = "built" THEN "freed" ELSE table
  /\ UNCHANGED <<main, legacy, noHttp, lookups, iarm, startVars, notified, ready, update, stopped, loop, sem, signals>>

StopIarm ==
  /\ Alive
  /\ shut = "iarm" /\ shut' = "loop"
  /\ iarm' = FALSE
  /\ UNCHANGED <<main, legacy, noHttp, table, lookups, startVars, notified, ready, update, stopped, loop, sem, signals>>

\* Mutant of QuitLoop: the loop is never asked to quit.
QuitLoopNever ==
  /\ Alive
  /\ shut = "loop"
  /\ shut' = "gone"
  /\ UNCHANGED <<main, legacy, noHttp, table, lookups, iarm, startVars, notified, ready, update, stopped, loop, sem, signals>>

\* The loop is asked to quit only if it is running.
QuitLoop ==
  /\ Alive
  /\ shut = "loop"
  /\ \/ loop = "running" /\ loop' = "quit" /\ shut' = "http"
     \/ loop # "running" /\ UNCHANGED loop /\ shut' = "gone"
  /\ UNCHANGED <<main, legacy, noHttp, table, lookups, iarm, startVars, notified, ready, update, stopped, sem, signals>>

\* HttpServerStop.
StopHttp ==
  /\ Alive
  /\ shut = "http" /\ shut' = "gone"
  /\ server' = Closed("http")
  /\ httpDone' = (httpDone /\ server["http"] = "none")
  /\ UNCHANGED <<main, legacy, noHttp, table, lookups, iarm, thread, notified, ready, update, stopped, loop, sem, signals>>
-----------------------------------------------------------------------------
MainStep ==
  \/ BuildTable \/ StartIarm \/ LoadModel \/ StartServers \/ StartUpdate
  \/ AwaitHttp \/ HttpAwaited \/ SendReady \/ RunLoop \/ LeaveLoop \/ Join

ServerStep(s) == CreateServer(s) \/ Listen(s) \/ (s = "http" /\ SignalDone)

ShutdownStep ==
  WakeShutdown \/ StopJson \/ StopUpdate \/ FreeTable \/ StopIarm \/ QuitLoop \/ StopHttp

\* The process has ended.
Exited == main = "exited" /\ UNCHANGED vars

Next ==
  \/ MainStep \/ (\E s \in Servers : ServerStep(s)) \/ UpdateThread
  \/ (\E c \in Callers : Lookup(c) \/ LookedUp(c))
  \/ QuitHandler \/ ShutdownStep \/ Exited

Spec == Init /\ [][Next]_vars

\* Every thread of the process is scheduled.
FairSpec ==
  /\ Spec
  /\ WF_vars(MainStep)
  /\ \A s \in Servers : WF_vars(ServerStep(s))
  /\ WF_vars(ShutdownStep)
-----------------------------------------------------------------------------
(* Properties.                                                             *)

\* systemd is told READY only when the HTTP server accepts requests, unless
\* the server is not used, fails or needs more than the 10 s of the wait.
ReadyMeansServing ==
  [][~noHttp /\ ~ready /\ ready' => server["http"] = "listening"]_vars

\* The start ends: READY is sent or main has returned with a failure.  No
\* wake-up of the wait for the HTTP server is lost.
StartupEnds == main = "conf" ~> (ready \/ main = "exited")

\* A signal that the shutdown thread takes while the main loop runs ends the
\* process: exit_gracefully finds a loop to quit, and nothing main joins is
\* left waiting.  (After a signal handled earlier there is no thread left.)
ExitsWhenSignalled ==
  loop = "running" /\ sem > 0 /\ shut = "wait" ~> main = "exited"
============================================================================
