-------------------------- MODULE DispatcherProofs --------------------------
(* Theorems about the request dispatcher for every set of threads,         *)
(* parameters, managers, manager lists and orders of the hash table,       *)
(* checked by TLAPS.                                                       *)
EXTENDS Dispatcher, WellFoundedInduction, TLAPS

Points == {"idle", "lock", "find", "handle", "devlock", "body", "source", "push",
           "devunlock", "unlock"}

\* Type correctness of the dispatcher's state.
TypeOK ==
  /\ load \in Loads
  /\ phase \in {"open", "load", "run", "exited"}
  /\ getMutex \in Threads \cup {None}
  /\ setMutex \in Threads \cup {None}
  /\ devMutex \in Threads \cup {None}
  /\ notificationSource \in BOOLEAN
  /\ pc \in [Threads -> Points]
  /\ op \in [Threads -> AllOps]
  /\ param \in [Threads -> Params]
  /\ nested \in [Threads -> BOOLEAN]

LEMMA TypeInit == Init => TypeOK
  BY ZenonT(40), DispatcherAssumption DEF Init, TypeOK, Points, AllOps

LEMMA TypeNext == TypeOK /\ [Next]_vars => TypeOK'
<1> SUFFICES ASSUME TypeOK, [Next]_vars PROVE TypeOK'
  BY Zenon
<1> USE DispatcherAssumption DEF TypeOK, Points, loadVars, callVars, locks, Goto
<1>1. ASSUME NEW t \in Threads, Call(t) PROVE TypeOK'
  <2>1. PICK o \in load.ops :
          \E p \in IF o \in {"update", "source"} THEN {MacParam} ELSE load.params :
            /\ op' = [op EXCEPT ![t] = o]
            /\ param' = [param EXCEPT ![t] = p]
            /\ Goto(t, CASE o \in {"get", "set"} -> "lock"
                         [] o \in {"getattr", "setattr"} -> "find"
                         [] o = "update" -> "devlock"
                         [] o = "source" -> "source")
    BY Zenon, <1>1 DEF Call
  <2>2. o \in AllOps /\ load.params \subseteq Params
    BY Zenon
  <2> QED
    BY <1>1, <2>1, <2>2 DEF Call, AllOps
<1>2. ASSUME NEW t \in Threads, Acquire(t) PROVE TypeOK'
  BY Zenon, <1>2 DEF Acquire, Lock, DevLock
<1>3. ASSUME NEW t \in Threads, Proceed(t) PROVE TypeOK'
  <2>1. ASSUME Find(t) PROVE TypeOK'
    BY Zenon, <2>1 DEF Find
  <2>2. ASSUME Handle(t) \/ Body(t) \/ GetNotifySource(t) \/ DevUnlock(t) PROVE TypeOK'
    BY Zenon, <2>2 DEF Handle, Body, GetNotifySource, DevUnlock
  <2>3. ASSUME Push(t) PROVE TypeOK'
    BY <2>3 DEF Push, Return, AllOps
  <2>4. ASSUME Unlock(t) PROVE TypeOK'
    <3>1. getMutex' \in Threads \cup {None} /\ setMutex' \in Threads \cup {None}
      BY Zenon, <2>4 DEF Unlock
    <3>2. CASE nested[t]
      BY Zenon, <2>4, <3>1, <3>2 DEF Unlock
    <3>3. CASE ~ nested[t]
      BY <2>4, <3>1, <3>3 DEF Unlock, Return, AllOps
    <3> QED
      BY Zenon, <3>2, <3>3
  <2> QED
    BY Zenon, <1>3, <2>1, <2>2, <2>3, <2>4 DEF Proceed
<1>4. CASE Load
  BY Zenon, <1>4 DEF Load, OpenConf, ReadLine, EndOfConf
<1>5. CASE Exited \/ UNCHANGED vars
  BY Zenon, <1>5 DEF Exited, vars
<1> QED
  BY Zenon, <1>1, <1>2, <1>3, <1>4, <1>5 DEF Next
-----------------------------------------------------------------------------
(* Who holds which lock.                                                   *)

Past == {"find", "handle", "devlock", "body", "devunlock", "unlock"}
Pushing == {"source", "push"}

\* The operations a thread can be in at a program point.
CallInv ==
  \A t \in Threads :
    /\ pc[t] = "idle" => ~ nested[t] /\ op[t] = "get"
    /\ pc[t] # "idle" => op[t] \in load.ops
    /\ nested[t] => pc[t] \in Past \cup {"lock"} /\ op[t] \in {"set", "update", "source"}
    /\ pc[t] \in Pushing => op[t] \in {"set", "update", "source"}
    /\ pc[t] = "lock" => nested[t] \/ op[t] \in {"get", "set"}
    /\ op[t] = "source" => nested[t] \/ pc[t] \in Pushing

\* The holders of the two handler mutexes.  A SET keeps its mutex while it
\* pushes a notification and makes the nested GET.
HolderInv ==
  \A t \in Threads :
    /\ getMutex = t <=> pc[t] \in Past /\ IsGet(t)
    /\ setMutex = t <=> op[t] = "set" /\ (nested[t] \/ pc[t] \in Past \cup Pushing)

\* The thread has the DeviceInfo lock: in the handler, and from there until
\* the nested GET gives the lock back.
KeepsDevice(t) ==
  \/ pc[t] = "body"
  \/ op[t] # "source" /\ (pc[t] = "source" \/ (nested[t] /\ pc[t] \in {"lock", "find", "devlock"}))

DeviceInv ==
  \A t \in Threads :
    /\ KeepsDevice(t) => devMutex = t
    /\ devMutex = t => nested[t] \/ pc[t] \in {"body", "devunlock"} \cup Pushing
    /\ devMutex = t /\ op[t] = "source" => pc[t] \in {"body", "devunlock"}
    /\ load.notifiers = {} =>
         /\ nested[t] \/ pc[t] \in Pushing => op[t] = "source"
         /\ pc[t] = "devunlock" => devMutex = t

LocksInv == CallInv /\ HolderInv /\ DeviceInv

LEMMA LocksInit == Init => LocksInv
  BY DispatcherAssumption
     DEF Init, LocksInv, CallInv, HolderInv, DeviceInv, KeepsDevice, Past, Pushing

LEMMA LocksNext == TypeOK /\ LocksInv /\ [Next]_vars => LocksInv'
<1> SUFFICES ASSUME TypeOK, LocksInv, [Next]_vars PROVE LocksInv'
  BY Zenon
<1> USE DispatcherAssumption DEF TypeOK, loadVars, callVars, locks, Goto, Past, Pushing,
    IsGet, IsSet, KeepsDevice
<1>1. ASSUME NEW t \in Threads, Call(t) PROVE LocksInv'
  <2>1. PICK o \in load.ops :
          \E p \in IF o \in {"update", "source"} THEN {MacParam} ELSE load.params :
            /\ op' = [op EXCEPT ![t] = o]
            /\ pc' = [pc EXCEPT ![t] = CASE o \in {"get", "set"} -> "lock"
                                         [] o \in {"getattr", "setattr"} -> "find"
                                         [] o = "update" -> "devlock"
                                         [] o = "source" -> "source"]
    BY Zenon, <1>1 DEF Call
  <2>2. o \in AllOps
    BY Zenon
  <2>3. CallInv' /\ HolderInv' /\ DeviceInv'
    BY <1>1, <2>1, <2>2 DEF Call, LocksInv, CallInv, HolderInv, DeviceInv, AllOps
  <2> QED
    BY Zenon, <2>3 DEF LocksInv
<1>2. ASSUME NEW t \in Threads, Lock(t) PROVE LocksInv'
  BY <1>2 DEF Lock, LocksInv, CallInv, HolderInv, DeviceInv
<1>3. ASSUME NEW t \in Threads, DevLock(t) PROVE LocksInv'
  BY <1>3 DEF DevLock, LocksInv, CallInv, HolderInv, DeviceInv
<1>4. ASSUME NEW t \in Threads, Find(t) PROVE LocksInv'
  BY <1>4 DEF Find, LocksInv, CallInv, HolderInv, DeviceInv
<1>5. ASSUME NEW t \in Threads, Handle(t) PROVE LocksInv'
  BY <1>5 DEF Handle, LocksInv, CallInv, HolderInv, DeviceInv
<1>6. ASSUME NEW t \in Threads, Body(t) PROVE LocksInv'
  BY <1>6 DEF Body, LocksInv, CallInv, HolderInv, DeviceInv
<1>7. ASSUME NEW t \in Threads, GetNotifySource(t) PROVE LocksInv'
  BY <1>7 DEF GetNotifySource, LocksInv, CallInv, HolderInv, DeviceInv
<1>8. ASSUME NEW t \in Threads, Push(t) PROVE LocksInv'
  BY <1>8 DEF Push, Return, LocksInv, CallInv, HolderInv, DeviceInv
<1>9. ASSUME NEW t \in Threads, DevUnlock(t) PROVE LocksInv'
  BY <1>9 DEF DevUnlock, LocksInv, CallInv, HolderInv, DeviceInv
<1>10. ASSUME NEW t \in Threads, Unlock(t) PROVE LocksInv'
  BY <1>10 DEF Unlock, Return, LocksInv, CallInv, HolderInv, DeviceInv
<1>11. CASE Load
  BY <1>11 DEF Load, OpenConf, ReadLine, EndOfConf, LocksInv, CallInv, HolderInv, DeviceInv
<1>12. CASE Exited \/ UNCHANGED vars
  BY <1>12 DEF Exited, vars, LocksInv, CallInv, HolderInv, DeviceInv
<1> QED
  BY Zenon, <1>1, <1>2, <1>3, <1>4, <1>5, <1>6, <1>7, <1>8, <1>9, <1>10, <1>11, <1>12
     DEF Next, Acquire, Proceed

\* As long as no handler pushes a notification, DeviceInfo's lock keeps its
\* handlers apart, for any number of threads and whatever mutex they came
\* through.
THEOREM DeviceInfoLocked == Spec => []DeviceInfoExcludes
<1>1. TypeOK /\ LocksInv => DeviceInfoExcludes
  BY Zenon DEF TypeOK, LocksInv, CallInv, DeviceInv, KeepsDevice, Pushing, DeviceInfoExcludes,
     InDeviceInfo
<1> QED
  BY <1>1, TypeInit, TypeNext, LocksInit, LocksNext, PTL DEF Spec

\* The loads under which the locks are always taken in one order: no
\* notification is pushed, or the only GETs are those that a notification makes.
Ordered == \A l \in Loads : l.notifiers = {} \/ l.ops \cap {"get", "source"} = {}

\* The threads of a wait cycle would pass through three kinds of waiting, and
\* none of them can be last.
LEMMA NoCycle == ASSUME Ordered, TypeOK, LocksInv PROVE NoWaitCycle
<1> SUFFICES ASSUME NEW S \in SUBSET Threads, S # {},
                    \A t \in S : \E u \in S : WaitsFor(t, u)
             PROVE  FALSE
  BY Zenon DEF NoWaitCycle
<1> USE DEF Past, Pushing
<1>1. load.notifiers = {} \/ load.ops \cap {"get", "source"} = {}
  BY Zenon DEF Ordered, TypeOK
<1>2. ASSUME NEW t \in S
      PROVE  pc[t] \in {"lock", "devlock"} /\ (pc[t] = "devlock" => devMutex # t)
  <2>1. PICK u \in S : WaitsFor(t, u)
    BY Zenon
  <2> QED
    BY Zenon, <2>1 DEF WaitsFor
<1>3. ASSUME NEW t \in S, pc[t] = "lock", nested[t], op[t] # "source" PROVE FALSE
  <2>1. PICK u \in S : getMutex = u
    BY Zenon, <1>3 DEF WaitsFor, IsGet
  <2>2. pc[u] = "devlock" /\ devMutex # u /\ (nested[u] \/ op[u] = "get")
    BY Zenon, <2>1, <1>2 DEF LocksInv, HolderInv, IsGet
  <2>3. load.ops \cap {"get", "source"} = {}
    BY Zenon, <1>1, <1>3 DEF LocksInv, DeviceInv
  <2>4. op[u] \notin {"get", "source"}
    BY Zenon, <2>2, <2>3 DEF LocksInv, CallInv
  <2> QED
    BY Zenon, <2>2, <2>4 DEF LocksInv, DeviceInv, KeepsDevice
<1>4. ASSUME NEW t \in S, pc[t] = "devlock" PROVE FALSE
  <2>1. PICK u \in S : devMutex = u
    BY Zenon, <1>4 DEF WaitsFor
  <2>2. pc[u] = "lock" /\ nested[u] /\ op[u] # "source"
    BY Zenon, <2>1, <1>2 DEF LocksInv, DeviceInv
  <2> QED
    BY Zenon, <2>2, <1>3
<1>5. PICK t \in S : pc[t] = "lock"
  BY Zenon, <1>2, <1>4
<1>6. PICK u \in S : getMutex = u \/ setMutex = u
  BY Zenon, <1>5 DEF WaitsFor
<1>7. pc[u] = "lock"
  BY Zenon, <1>2, <1>4
<1>8. nested[u] /\ op[u] = "set"
  BY Zenon, <1>6, <1>7 DEF LocksInv, HolderInv
<1> QED
  BY Zenon, <1>3, <1>7, <1>8

\* No set of threads waits only for its own members, for any number of
\* threads, unless a handler that pushes a notification can meet a GET.
THEOREM NoDeadlock ==
  ASSUME Ordered
  PROVE  Spec => []NoWaitCycle
<1>1. TypeOK /\ LocksInv => NoWaitCycle
  BY Zenon, NoCycle
<1> QED
  BY <1>1, TypeInit, TypeNext, LocksInit, LocksNext, PTL DEF Spec
-----------------------------------------------------------------------------
(* Where requests go.                                                      *)

\* The line i gives its prefix to a manager, and is the last to do so before
\* the line n.
Latest(c, i, n) ==
  /\ i \in 1..(n - 1) /\ LineMgr(c, i) # None
  /\ \A j \in 1..(n - 1) : j > i => c[j].prefix # c[i].prefix

\* The table holds the prefixes of the lines read so far that have a manager,
\* each with the manager of its latest line; mgrName is the manager of the
\* line read last, and None only while the table is empty; the listing holds every key of the table.
TableInv ==
  /\ conf \in Confs /\ line \in 1..(Len(conf) + 1)
  /\ mgrName = LineMgr(conf, line - 1)
  /\ mgrName = None => DOMAIN paramMgrhash = {}
  /\ \A x \in DOMAIN paramMgrhash :
       \E i \in DOMAIN conf :
         Latest(conf, i, line) /\ conf[i].prefix = x /\ paramMgrhash[x] = LineMgr(conf, i)
  /\ \A i \in 1..(line - 1) : LineMgr(conf, i) # None => conf[i].prefix \in DOMAIN paramMgrhash
  /\ phase = "run" =>
       /\ line = Len(conf) + 1
       /\ DOMAIN keys \subseteq Nat
       /\ \A k \in DOMAIN keys : keys[k] \in DOMAIN paramMgrhash
       /\ \A x \in DOMAIN paramMgrhash : \E k \in DOMAIN keys : keys[k] = x

\* The manager of a line is the one it names, else that of the line before.
LEMMA LineMgrStep ==
  ASSUME NEW c, NEW n \in Nat \ {0}
  PROVE  LineMgr(c, n) = IF c[n].mgr \in Managers THEN c[n].mgr ELSE LineMgr(c, n - 1)
<1> DEFINE Named(i) == {j \in 1..i : c[j].mgr \in Managers}
           Last(S) == CHOOSE j \in S : \A k \in S : k <= j
<1>1. \A i : LineMgr(c, i) = IF Named(i) = {} THEN None ELSE c[Last(Named(i))].mgr
  BY Zenon DEF LineMgr
<1>2. CASE c[n].mgr \in Managers
  <2>1. n \in Named(n) /\ \A k \in Named(n) : k <= n
    BY <1>2
  <2>2. \A j \in Named(n) : (\A k \in Named(n) : k <= j) => j = n
    BY <2>1
  <2>3. Last(Named(n)) = n
    BY <2>1, <2>2
  <2> HIDE DEF Named, Last
  <2> QED
    BY <1>1, <1>2, <2>1, <2>3
<1>3. CASE c[n].mgr \notin Managers
  <2>1. Named(n) = Named(n - 1)
    BY <1>3
  <2> HIDE DEF Named, Last
  <2> QED
    BY <1>1, <1>3, <2>1
<1> QED
  BY <1>2, <1>3

LEMMA TableInit == Init => TableInv
<1> SUFFICES ASSUME Init PROVE TableInv
  OBVIOUS
<1>1. conf \in Confs /\ line = 1 /\ mgrName = None /\ paramMgrhash = <<>> /\ phase = "open"
  BY Zenon DEF Init
<1>2. Len(conf) \in Nat
  BY <1>1, DispatcherAssumption
<1>3. LineMgr(conf, 0) = None
  <2>1. {j \in 1..0 : conf[j].mgr \in Managers} = {}
    OBVIOUS
  <2> QED
    BY Zenon, <2>1 DEF LineMgr
<1> QED
  BY <1>1, <1>2, <1>3 DEF TableInv

LEMMA TableNext ==
  ASSUME TableInv, [Next]_vars
  PROVE  TableInv'
<1> USE DispatcherAssumption DEF loadVars, callVars, locks
<1>0. Len(conf) \in Nat /\ DOMAIN conf = 1..Len(conf) /\ line \in Nat \ {0}
  BY DEF TableInv
<1>1. ASSUME UNCHANGED <<conf, line, mgrName, paramMgrhash>>,
             phase' = "run" => UNCHANGED <<phase, keys>>
      PROVE  TableInv'
  BY <1>1, Zenon DEF TableInv
<1>2. CASE OpenConf
  BY Zenon, <1>1, <1>2 DEF OpenConf
<1>3. CASE ReadLine
  <2> DEFINE l == conf[line]
  <2>1. /\ line \in DOMAIN conf /\ line' = line + 1 /\ line' \in 1..(Len(conf) + 1)
        /\ UNCHANGED conf /\ phase' # "run"
    BY <1>0, <1>3 DEF ReadLine
  <2>2. \A i : LineMgr(conf, i)' = LineMgr(conf, i)
    BY <2>1
  <2>3. mgrName' = LineMgr(conf, line)
    BY <1>0, <1>3, LineMgrStep, Zenon DEF ReadLine, MgrOf, TableInv
  <2>4. paramMgrhash' =
          IF LineMgr(conf, line) = None THEN paramMgrhash
          ELSE [x \in DOMAIN paramMgrhash \cup {l.prefix} |->
                  IF x = l.prefix THEN LineMgr(conf, line) ELSE paramMgrhash[x]]
    BY <1>3, <2>3, Zenon DEF ReadLine
  <2>5. 1..(line' - 1) = 1..(line - 1) \cup {line} /\ line' - 1 = line
    BY <1>0, <2>1
  <2>6. LineMgr(conf, line) = None => DOMAIN paramMgrhash = {}
    <3>1. None \notin Managers
      BY Zenon
    <3>2. LineMgr(conf, line) = None => mgrName = None
      BY <1>0, <3>1, LineMgrStep DEF TableInv
    <3> QED
      BY Zenon, <3>2 DEF TableInv
  <2>7. ASSUME NEW x \in DOMAIN paramMgrhash'
        PROVE  \E i \in DOMAIN conf :
                 Latest(conf, i, line)' /\ conf[i].prefix = x /\ paramMgrhash'[x] = LineMgr(conf, i)
    <3>1. CASE x = l.prefix /\ LineMgr(conf, line) # None
      BY <1>0, <2>1, <2>2, <2>4, <2>5, <3>1 DEF Latest
    <3>2. CASE x # l.prefix
      <4>1. x \in DOMAIN paramMgrhash /\ paramMgrhash'[x] = paramMgrhash[x]
        BY Zenon, <2>4, <2>7, <3>2
      <4>2. PICK i \in DOMAIN conf :
              Latest(conf, i, line) /\ conf[i].prefix = x /\ paramMgrhash[x] = LineMgr(conf, i)
        BY Zenon, <4>1 DEF TableInv
      <4>3. Latest(conf, i, line)'
        BY Zenon, <2>1, <2>2, <2>5, <3>2, <4>2 DEF Latest
      <4> QED
        BY Zenon, <4>1, <4>2, <4>3
    <3>3. CASE LineMgr(conf, line) = None
      BY Zenon, <2>4, <2>7, <2>6, <3>3
    <3> QED
      BY Zenon, <3>1, <3>2, <3>3
  <2>8. \A i \in 1..(line' - 1) : LineMgr(conf, i) # None => conf[i].prefix \in DOMAIN paramMgrhash'
    BY Zenon, <2>4, <2>5 DEF TableInv
  <2>9. mgrName' = None => DOMAIN paramMgrhash' = {}
    BY Zenon, <2>3, <2>4, <2>6
  <2> QED
    BY Zenon, <2>1, <2>2, <2>3, <2>5, <2>7, <2>8, <2>9 DEF TableInv
<1>4. CASE EndOfConf
  <2>1. /\ keys' \in [1..Cardinality(DOMAIN paramMgrhash) -> DOMAIN paramMgrhash]
        /\ \A x \in DOMAIN paramMgrhash : \E k \in DOMAIN keys' : keys'[k] = x
    BY Zenon, <1>4 DEF EndOfConf, Listings
  <2>2. 1..Cardinality(DOMAIN paramMgrhash) \subseteq Nat
    <3>1. ASSUME NEW n PROVE 1..n \subseteq Nat
      OBVIOUS
    <3> QED
      BY Zenon, <3>1
  <2>3. DOMAIN keys' \subseteq Nat /\ \A k \in DOMAIN keys' : keys'[k] \in DOMAIN paramMgrhash
    BY Zenon, <2>1, <2>2
  <2>4. line = Len(conf) + 1
    BY <1>0, <1>4 DEF EndOfConf, TableInv
  <2>5. UNCHANGED <<conf, line, mgrName, paramMgrhash>>
    BY Zenon, <1>4 DEF EndOfConf
  <2> QED
    BY Zenon, <2>1, <2>3, <2>4, <2>5 DEF TableInv
<1>5. ASSUME NEW t \in Threads, Call(t) \/ Acquire(t) \/ Proceed(t) PROVE TableInv'
  BY Zenon, <1>1, <1>5 DEF Call, Acquire, Lock, DevLock, Proceed, Find, Handle, Body,
     GetNotifySource, Push, DevUnlock, Unlock
<1>6. CASE Exited \/ UNCHANGED vars
  BY Zenon, <1>1, <1>6 DEF Exited, vars
<1> QED
  BY Zenon, <1>2, <1>3, <1>4, <1>5, <1>6 DEF Next, Load

\* The search for the first key that covers a parameter finds one.
LEMMA FirstHit ==
  ASSUME NEW S \in SUBSET Nat, S # {}
  PROVE  (CHOOSE i \in S : \A j \in S : i <= j) \in S
<1>1. \E x \in S : \A y \in S : ~ (<<y, x>> \in OpToRel(<, Nat))
  BY WFMin, NatLessThanWellFounded, Zenon
<1>2. \E x \in S : \A y \in S : ~ (y < x)
  BY <1>1, Zenon DEF OpToRel
<1>3. \E x \in S : \A y \in S : x <= y
  BY <1>2
<1> QED
  BY Zenon, <1>3

\* Whatever the manager list and the order of the hash keys, a request goes to
\* the manager of the last line of one of the prefixes that cover its
\* parameter, and is refused only when no such line has a manager.
THEOREM RoutedByList == Spec => []RoutesToOwner
<1>1. ASSUME TableInv PROVE RoutesToOwner
  <2> SUFFICES ASSUME phase = "run", NEW p \in Params
               PROVE  \/ HostIf_GetMgr(p) \in Owners(p)
                      \/ Owners(p) = {} /\ HostIf_GetMgr(p) = None
    BY Zenon DEF RoutesToOwner
  <2> DEFINE Hits == {i \in DOMAIN keys : <<keys[i], p>> \in Covers}
             h == CHOOSE i \in Hits : \A j \in Hits : i <= j
  <2>0. /\ DOMAIN conf = 1..(line - 1) /\ DOMAIN keys \subseteq Nat
        /\ \A k \in DOMAIN keys : keys[k] \in DOMAIN paramMgrhash
        /\ \A x \in DOMAIN paramMgrhash : \E k \in DOMAIN keys : keys[k] = x
    BY <1>1, DispatcherAssumption DEF TableInv
  <2>1. HostIf_GetMgr(p) = IF Hits = {} THEN None ELSE paramMgrhash[keys[h]]
    BY Zenon DEF HostIf_GetMgr
  <2>2. CASE Hits = {}
    <3>1. ASSUME NEW i \in DOMAIN conf, Decides(i, p) PROVE LineMgr(conf, i) = None
      <4>1. ASSUME LineMgr(conf, i) # None PROVE FALSE
        <5>1. PICK k \in DOMAIN keys : keys[k] = conf[i].prefix
          BY Zenon, <1>1, <2>0, <3>1, <4>1 DEF TableInv
        <5> QED
          BY Zenon, <2>2, <3>1, <5>1 DEF Decides
      <4> QED
        BY Zenon, <4>1
    <3> QED
      BY Zenon, <2>1, <2>2, <3>1 DEF Owners
  <2>3. CASE Hits # {}
    <3>1. Hits \in SUBSET Nat
      BY Zenon, <2>0
    <3>2. h \in Hits
      BY Zenon, <2>3, <3>1, FirstHit
    <3> HIDE DEF h
    <3>3. keys[h] \in DOMAIN paramMgrhash /\ <<keys[h], p>> \in Covers
      BY Zenon, <2>0, <3>2
    <3>4. PICK i \in DOMAIN conf :
            Latest(conf, i, line) /\ conf[i].prefix = keys[h] /\ paramMgrhash[keys[h]] = LineMgr(conf, i)
      BY Zenon, <1>1, <3>3 DEF TableInv
    <3>5. Decides(i, p) /\ LineMgr(conf, i) # None
      BY Zenon, <2>0, <3>3, <3>4 DEF Latest, Decides
    <3> QED
      BY Zenon, <2>1, <2>3, <3>4, <3>5 DEF Owners
  <2> QED
    BY Zenon, <2>2, <2>3
<1>2. TableInv /\ [Next]_vars => TableInv'
  BY Zenon, TableNext
<1> QED
  BY <1>1, <1>2, TableInit, PTL DEF Spec
=============================================================================
