-------------------------- MODULE LifecycleProofs ---------------------------
(* Proof that READY follows the HTTP server, for every set of callers, of  *)
(* steps that may fail and every number of signals, checked by TLAPS.      *)
EXTENDS Lifecycle, TLAPS

\* Where main() is before it starts the HTTP thread, and before it makes the loop.
Before == {"conf", "iarm", "merge", "load", "json", "http"}
Starting == Before \cup {"update", "check", "lock", "waiting", "ready", "loop"}

\* While there is no loop nobody stops the HTTP server: the shutdown thread
\* gets that far only after it has asked a loop to quit.  Until then a thread
\* that is about to signal, and the flag, mean that the server listens.
ServingInv ==
  /\ DOMAIN thread = Servers /\ DOMAIN server = Servers
  /\ main \in Before => thread["http"] = "none" /\ ~httpDone
  /\ main \in Starting => loop = "none"
  /\ shut = "http" => loop # "none"
  /\ httpDone => thread["http"] = "done"
  /\ ~noHttp /\ loop = "none" /\ (thread["http"] = "signal" \/ httpDone) =>
       server["http"] = "listening"
  /\ ~noHttp /\ main = "ready" => httpDone

LEMMA ServingInit == Init => ServingInv
  BY Zenon DEF Init, ServingInv, Before, Starting, Servers

\* The steps of main().
LEMMA ServingMain == ASSUME ServingInv, MainStep PROVE ServingInv'
<1> USE DEF ServingInv, Before, Starting, startVars, stopVars, Servers
<1>1. CASE BuildTable
  BY <1>1 DEF BuildTable
<1>2. CASE StartIarm
  BY <1>2 DEF StartIarm
<1>3. CASE LoadModel
  BY <1>3 DEF LoadModel
<1>4. CASE StartServers
  BY <1>4 DEF StartServers
<1>5. CASE StartUpdate
  BY <1>5 DEF StartUpdate
<1>6. CASE AwaitHttp
  BY <1>6 DEF AwaitHttp
<1>7. CASE HttpAwaited
  BY <1>7 DEF HttpAwaited
<1>8. CASE SendReady
  BY <1>8 DEF SendReady
<1>9. CASE RunLoop
  BY <1>9 DEF RunLoop
<1>10. CASE LeaveLoop
  BY <1>10 DEF LeaveLoop
<1>11. CASE Join
  BY <1>11 DEF Join
<1> QED
  BY Zenon, <1>1, <1>2, <1>3, <1>4, <1>5, <1>6, <1>7, <1>8, <1>9, <1>10, <1>11 DEF MainStep

\* The server threads.
LEMMA ServingServer ==
  ASSUME ServingInv, NEW s \in Servers, ServerStep(s)
  PROVE  ServingInv'
<1> USE DEF ServingInv, Before, Starting, stopVars, Servers
<1>1. CASE CreateServer(s)
  BY <1>1 DEF CreateServer
<1>2. CASE Listen(s)
  BY <1>2 DEF Listen
<1>3. CASE SignalDone
  BY <1>3 DEF SignalDone
<1> QED
  BY Zenon, <1>1, <1>2, <1>3 DEF ServerStep

\* The shutdown thread.
LEMMA ServingShutdown == ASSUME ServingInv, ShutdownStep PROVE ServingInv'
<1> USE DEF ServingInv, Before, Starting, startVars, Closed, Servers
<1>1. CASE WakeShutdown
  BY <1>1 DEF WakeShutdown
<1>2. CASE StopJson
  BY <1>2 DEF StopJson
<1>3. CASE StopUpdate
  BY <1>3 DEF StopUpdate
<1>4. CASE FreeTable
  BY <1>4 DEF FreeTable
<1>5. CASE StopIarm
  BY <1>5 DEF StopIarm
<1>6. CASE QuitLoop
  BY <1>6 DEF QuitLoop
<1>7. CASE StopHttp
  BY Zenon, <1>7 DEF StopHttp
<1> QED
  BY Zenon, <1>1, <1>2, <1>3, <1>4, <1>5, <1>6, <1>7 DEF ShutdownStep

LEMMA ServingNext == ASSUME ServingInv, [Next]_vars PROVE ServingInv'
<1>1. CASE \E c \in Callers : Lookup(c) \/ LookedUp(c)
  BY <1>1 DEF Lookup, LookedUp, ServingInv, startVars, stopVars
<1>2. CASE UpdateThread
  BY Zenon, <1>2 DEF UpdateThread, ServingInv, startVars, stopVars
<1>3. CASE QuitHandler
  BY Zenon, <1>3 DEF QuitHandler, ServingInv, startVars
<1>4. CASE UNCHANGED vars
  BY Zenon, <1>4 DEF vars, ServingInv
<1> QED
  BY Zenon, <1>1, <1>2, <1>3, <1>4, ServingMain, ServingServer, ServingShutdown DEF Next, Exited

\* systemd is told READY only when the HTTP server accepts requests, unless
\* the server is not used, fails or is slower than the wait, wherever signals
\* and exit_gracefully come in.
THEOREM ReadyServes == Spec => ReadyMeansServing
<1>1. ServingInv /\ [Next]_vars => [~noHttp /\ ~ready /\ ready' => server["http"] = "listening"]_vars
  <2>1. SUFFICES ASSUME ServingInv, [Next]_vars, ~noHttp, ~ready, ready'
                 PROVE  server["http"] = "listening"
    BY Zenon
  <2>2. SendReady
    <3>1. CASE MainStep
      BY Zenon, <2>1, <3>1 DEF MainStep, BuildTable, StartIarm, LoadModel, StartServers, StartUpdate,
         AwaitHttp, HttpAwaited, RunLoop, LeaveLoop, Join
    <3>2. ASSUME NEW s \in Servers, ServerStep(s) PROVE FALSE
      BY Zenon, <2>1, <3>2 DEF ServerStep, CreateServer, Listen, SignalDone
    <3>3. CASE ShutdownStep
      BY Zenon, <2>1, <3>3 DEF ShutdownStep, WakeShutdown, StopJson, StopUpdate, FreeTable, StopIarm,
         QuitLoop, StopHttp
    <3>4. CASE \/ UpdateThread \/ QuitHandler \/ Exited \/ UNCHANGED vars
               \/ \E c \in Callers : Lookup(c) \/ LookedUp(c)
      BY Zenon, <2>1, <3>4 DEF UpdateThread, QuitHandler, Exited, Lookup, LookedUp, vars
    <3> QED
      BY Zenon, <2>1, <3>1, <3>2, <3>3, <3>4 DEF Next
  <2> QED
    BY Zenon, <2>1, <2>2 DEF SendReady, ServingInv, Starting
<1> QED
  BY <1>1, ServingInit, ServingNext, PTL DEF Spec, ReadyMeansServing
=============================================================================
