----------------------------- MODULE Dispatcher -----------------------------
(***************************************************************************)
(* The request dispatcher: the table of parameter prefixes read from the   *)
(* manager list, the lookup of a parameter's manager, and the locks a      *)
(* request holds on its way (one mutex for GET, one for SET, and the lock  *)
(* of the DeviceInfo profile below them).  A SET or an update of           *)
(* DeviceInfo that pushes a notification asks for the device's MAC address *)
(* with a GET of its own, under the locks it already holds.                *)
(***************************************************************************)
EXTENDS Naturals, Sequences, FiniteSets

CONSTANTS
  Threads,     \* threads of the front ends, of the Parodus client, of updates
  Params,      \* parameter names
  Prefixes,    \* the first words of the lines of the manager list
  Managers,    \* the names of managers that were built in
  DeviceMgr,   \* the manager whose handlers take the DeviceInfo lock
  Unknown,     \* any other name in the second word of a line
  None,
  Covers,      \* <<x, p>>: the prefix x is a prefix of the parameter p
  Confs,       \* the manager lists to try, sequences of [prefix, mgr]
  Loads,       \* what the clients do, to choose from: who calls, which operations
               \* and parameters they use, and the operations on DeviceInfo
               \* that push a notification
  MacParam     \* DEVICE_ESTB_MAC_PARAM

AllOps == {"get", "set", "getattr", "setattr", "update", "source"}

ASSUME DispatcherAssumption ==
  /\ DeviceMgr \in Managers /\ Unknown \notin Managers /\ None \notin Managers
  /\ None \notin Threads
  /\ Confs \subseteq Seq([prefix : Prefixes, mgr : Managers \cup {Unknown}])
  /\ Loads \subseteq [threads : SUBSET Threads, ops : SUBSET AllOps, params : SUBSET Params,
                     notifiers : SUBSET {"set", "update"}]
  /\ Covers \subseteq Prefixes \X Params /\ MacParam \in Params

VARIABLES
  load,               \* the load of this behaviour
  phase,              \* "open", "load", "run", or "exited"
  conf,               \* the file, and
  line,               \* the next line of it to read
  mgrName,            \* the local of that name while the file is read
  paramMgrhash,       \* prefix -> manager
  keys,               \* the order in which g_hash_table_get_keys lists the prefixes
  getMutex, setMutex, \* get_handler_mutex, set_handler_mutex: holder or None
  devMutex,           \* hostIf_DeviceInfo::m_mutex: holder or None
  notificationSource, \* the cached MAC address is known
  pc, op, param,      \* where each thread is, its operation and parameter
  nested              \* the thread is in the GET that getNotifySource makes

loadVars == <<load, phase, conf, line, mgrName, paramMgrhash, keys>>
callVars == <<op, param, nested>>
locks == <<getMutex, setMutex, devMutex>>
vars == <<loadVars, locks, notificationSource, pc, callVars>>

\* The orders in which the keys of a hash table may be listed.
Listings(S) == {f \in [1..Cardinality(S) -> S] : \A x \in S : \E i \in DOMAIN f : f[i] = x}
-----------------------------------------------------------------------------
Init ==
  /\ load \in Loads
  /\ phase = "open" /\ conf \in Confs /\ line = 1
  /\ mgrName = None /\ paramMgrhash = <<>> /\ keys = <<>>
  /\ getMutex = None /\ setMutex = None /\ devMutex = None
  /\ notificationSource = FALSE
  /\ pc = [t \in Threads |-> "idle"]
  /\ op = [t \in Threads |-> "get"]
  /\ param = [t \in Threads |-> MacParam]
  /\ nested = [t \in Threads |-> FALSE]

\* The file opens, or the process exits.
OpenConf ==
  /\ phase = "open"
  /\ phase' \in {"load", "exited"}
  /\ UNCHANGED <<load, conf, line, mgrName, paramMgrhash, keys, locks, notificationSource, pc,
                 callVars>>

\* Mutant of MgrOf: a reader that inserts before it has parsed the manager of the line.
MgrOfLate(l) == IF mgrName = None THEN l.mgr ELSE mgrName

\* The manager the loop inserts for a line: mgrName keeps the value of an
\* earlier line when the name on this one matches none of the branches.
MgrOf(l) == IF l.mgr \in Managers THEN l.mgr ELSE mgrName

ReadLine ==
  /\ phase = "load" /\ line <= Len(conf)
  /\ LET l == conf[line] IN
       /\ mgrName' = MgrOf(l)
       /\ paramMgrhash' =
            IF MgrOf(l) = None THEN paramMgrhash
            ELSE [x \in DOMAIN paramMgrhash \cup {l.prefix} |->
                    IF x = l.prefix THEN MgrOf(l) ELSE paramMgrhash[x]]
  /\ line' = line + 1
  /\ UNCHANGED <<load, phase, conf, keys, locks, notificationSource, pc, callVars>>

\* Once nothing is inserted any more the order of the keys is settled.
EndOfConf ==
  /\ phase = "load" /\ line > Len(conf)
  /\ keys' \in Listings(DOMAIN paramMgrhash)
  /\ phase' = "run"
  /\ UNCHANGED <<load, conf, line, mgrName, paramMgrhash, locks, notificationSource, pc,
                 callVars>>

Exited == phase = "exited" /\ UNCHANGED vars

\* The manager of the first key in the listing that is a prefix of p.
HostIf_GetMgr(p) ==
  LET Hits == {i \in DOMAIN keys : <<keys[i], p>> \in Covers}
  IN IF Hits = {} THEN None
     ELSE paramMgrhash[keys[CHOOSE i \in Hits : \A j \in Hits : i <= j]]
-----------------------------------------------------------------------------
Goto(t, where) == pc' = [pc EXCEPT ![t] = where]

\* The call returns and its locals are gone.
Return(t) ==
  /\ Goto(t, "idle")
  /\ op' = [op EXCEPT ![t] = "get"] /\ param' = [param EXCEPT ![t] = MacParam]
  /\ UNCHANGED nested

IsGet(t) == nested[t] \/ op[t] = "get"
IsSet(t) == ~ nested[t] /\ op[t] = "set"
ParamOf(t) == IF nested[t] THEN MacParam ELSE param[t]

\* A thread calls the dispatcher, runs the update hook of DeviceInfo, or (the
\* Parodus client) asks for the notification source at its start.
Call(t) ==
  /\ phase = "run" /\ pc[t] = "idle" /\ t \in load.threads
  /\ \E o \in load.ops : \E p \in IF o \in {"update", "source"} THEN {MacParam} ELSE load.params :
       /\ op' = [op EXCEPT ![t] = o]
       /\ param' = [param EXCEPT ![t] = p]
       /\ Goto(t, CASE o \in {"get", "set"} -> "lock"
                    [] o \in {"getattr", "setattr"} -> "find"
                    [] o = "update" -> "devlock"
                    [] o = "source" -> "source")
  /\ UNCHANGED <<loadVars, locks, notificationSource, nested>>

\* get_handler_mutex or set_handler_mutex.
Lock(t) ==
  /\ pc[t] = "lock"
  /\ \/ IsGet(t) /\ getMutex = None /\ getMutex' = t /\ UNCHANGED setMutex
     \/ IsSet(t) /\ setMutex = None /\ setMutex' = t /\ UNCHANGED getMutex
  /\ Goto(t, "find")
  /\ UNCHANGED <<loadVars, devMutex, notificationSource, callVars>>

Find(t) ==
  /\ pc[t] = "find"
  /\ LET m == HostIf_GetMgr(ParamOf(t)) IN
       Goto(t, CASE m = None -> "unlock" [] m = DeviceMgr -> "devlock" [] OTHER -> "handle")
  /\ UNCHANGED <<loadVars, locks, notificationSource, callVars>>

\* The handler of another manager.
Handle(t) ==
  /\ pc[t] = "handle"
  /\ Goto(t, "unlock")
  /\ UNCHANGED <<loadVars, locks, notificationSource, callVars>>

\* Mutant of DevLock: goes on when the lock is taken.
DevLockTry(t) ==
  /\ pc[t] = "devlock"
  /\ devMutex' = IF devMutex = None THEN t ELSE devMutex
  /\ Goto(t, "body")
  /\ UNCHANGED <<loadVars, getMutex, setMutex, notificationSource, callVars>>

\* An error-checking mutex: a second lock by its holder fails with EDEADLK,
\* which getLock logs and ignores.
DevLock(t) ==
  /\ pc[t] = "devlock" /\ devMutex \in {None, t}
  /\ devMutex' = t
  /\ Goto(t, "body")
  /\ UNCHANGED <<loadVars, getMutex, setMutex, notificationSource, callVars>>

\* Mutant of Body: the notification source is asked for whether or not one is pushed.
BodyAlwaysAsks(t) ==
  /\ pc[t] = "body"
  /\ Goto(t, IF ~ nested[t] /\ op[t] \in {"set", "update"} THEN "source" ELSE "devunlock")
  /\ UNCHANGED <<loadVars, locks, notificationSource, callVars>>

\* The handler proper: a parameter without a notification, one whose
\* notification is pushed, or a notification switched off by RFC.
Body(t) ==
  /\ pc[t] = "body"
  /\ \/ Goto(t, "devunlock")
     \/ ~ nested[t] /\ op[t] \in load.notifiers /\ Goto(t, "source")
  /\ UNCHANGED <<loadVars, locks, notificationSource, callVars>>

\* getNotifySource: the cached source, or a GET of the MAC address.
GetNotifySource(t) ==
  /\ pc[t] = "source"
  /\ IF notificationSource
     THEN Goto(t, "push") /\ UNCHANGED nested
     ELSE Goto(t, "lock") /\ nested' = [nested EXCEPT ![t] = TRUE]
  /\ UNCHANGED <<loadVars, locks, notificationSource, op, param>>

\* Mutant of Push: asks again as long as there is no source.
PushRetries(t) ==
  /\ pc[t] = "push"
  /\ Goto(t, IF notificationSource THEN "devunlock" ELSE "source")
  /\ UNCHANGED <<loadVars, locks, notificationSource, callVars>>

\* The source is stored (the MAC address, or "Unknown"), and the payload is
\* handed to the notification queue.
Push(t) ==
  /\ pc[t] = "push"
  /\ notificationSource' = TRUE
  /\ IF op[t] = "source" THEN Return(t)
     ELSE Goto(t, "devunlock") /\ UNCHANGED callVars
  /\ UNCHANGED <<loadVars, locks>>

\* releaseLock: EPERM when the thread does not hold the lock.
DevUnlock(t) ==
  /\ pc[t] = "devunlock"
  /\ devMutex' = IF devMutex = t THEN None ELSE devMutex
  /\ Goto(t, "unlock")
  /\ UNCHANGED <<loadVars, getMutex, setMutex, notificationSource, callVars>>

\* The lock_guard goes out of scope; the nested GET returns to the push.
Unlock(t) ==
  /\ pc[t] = "unlock"
  /\ getMutex' = IF IsGet(t) THEN None ELSE getMutex
  /\ setMutex' = IF IsSet(t) THEN None ELSE setMutex
  /\ IF nested[t]
     THEN Goto(t, "push") /\ nested' = [nested EXCEPT ![t] = FALSE] /\ UNCHANGED <<op, param>>
     ELSE Return(t)
  /\ UNCHANGED <<loadVars, devMutex, notificationSource>>

Acquire(t) == Lock(t) \/ DevLock(t)
Proceed(t) ==
  Find(t) \/ Handle(t) \/ Body(t) \/ GetNotifySource(t) \/ Push(t) \/ DevUnlock(t) \/ Unlock(t)
Load == OpenConf \/ ReadLine \/ EndOfConf

Next == Load \/ Exited \/ \E t \in Threads : Call(t) \/ Acquire(t) \/ Proceed(t)
Spec == Init /\ [][Next]_vars

\* Each thread goes on while it can, and no waiter is passed over for ever at a
\* mutex that keeps being given back.
FairSpec == Spec /\ \A t \in Threads : WF_vars(Proceed(t)) /\ SF_vars(Acquire(t))
-----------------------------------------------------------------------------
\* The thread t waits for a lock that u holds.
WaitsFor(t, u) ==
  \/ pc[t] = "lock" /\ u = (IF IsGet(t) THEN getMutex ELSE setMutex)
  \/ pc[t] = "devlock" /\ u = devMutex /\ u # t

\* No set of threads waits only for its own members (hostIf_GetMsgHandler,
\* hostIf_SetMsgHandler and hostIf_DeviceInfo::getLock below them).
NoWaitCycle ==
  ~ \E S \in (SUBSET Threads) \ {{}} : \A t \in S : \E u \in S : WaitsFor(t, u)

\* The thread is between getLock and releaseLock of DeviceInfo, its nested
\* GET included.
InDeviceInfo(t) ==
  \/ pc[t] \in {"body", "devunlock"}
  \/ op[t] # "source" /\ (nested[t] \/ pc[t] \in {"source", "push"})

\* As long as no handler pushes a notification, at most one thread is in a
\* handler of DeviceInfo, whatever mutex it came through
\* (hostIf_DeviceInfo::getLock).  The GET below a notification gives the lock
\* of the outer call back.
DeviceInfoExcludes ==
  load.notifiers = {} =>
    \A t, u \in Threads : InDeviceInfo(t) /\ InDeviceInfo(u) => t = u

\* The manager of line i of the list c: the one it names or, when it names none
\* that was built, the one named last before it.
LineMgr(c, i) ==
  LET Named == {j \in 1..i : c[j].mgr \in Managers}
  IN IF Named = {} THEN None ELSE c[CHOOSE j \in Named : \A k \in Named : k <= j].mgr

\* The line i holds a prefix of p for the last time.
Decides(i, p) ==
  /\ <<conf[i].prefix, p>> \in Covers
  /\ \A j \in DOMAIN conf : j > i => conf[j].prefix # conf[i].prefix

Owners(p) == {LineMgr(conf, i) : i \in {j \in DOMAIN conf : Decides(j, p)}} \ {None}

\* Once the list is read, a request goes to the manager of the last line of
\* one of the prefixes that cover its parameter, and is refused only when no
\* such line has one.  This is for every list, the shipped one included, whose
\* line of webConfigMgr takes the manager of the line above, and for every
\* order of the hash keys: of several prefixes that cover the parameter any
\* may win (hostIf_initalize_ConfigManger and HostIf_GetMgr together).
RoutesToOwner ==
  phase = "run" =>
    \A p \in Params : LET m == HostIf_GetMgr(p) IN
      m \in Owners(p) \/ (Owners(p) = {} /\ m = None)

\* Every request returns (the mutexes and the lock of DeviceInfo are given
\* back on every path of the dispatcher and of the handlers).
CallsReturn == \A t \in Threads : []<>(pc[t] = "idle")
=============================================================================
