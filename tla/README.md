# tr69hostif: formal models

tr69hostif is the TR-181 host interface daemon of RDK devices. Requests to read or write
data-model parameters reach it over IARM, rbus, HTTP, JSON and WebPA (through Parodus). A
dispatcher finds the manager that owns the parameter, the manager calls a profile, and the
profile talks to the device. Two persistent stores sit behind the DeviceInfo profile: the
bootstrap store with its journal, and the RFC store. A polling thread reports changes, and
notifications leave through a queue and the Parodus client.

This directory holds TLA+ models of the parts in which state, threads, files and failures
interact, the TLC runs over small instances, and TLAPS proofs. `PROJECT.json` lists components,
runs, the lines each definition models, hazards, findings and theorems.

## Inventory

| Part | State | Operations | What is hard | Module |
|---|---|---|---|---|
| Bootstrap store, journal | two caches, two files, recursive mutex, session flags | set, ClearDB, ClearDBEnd, partner change, reload, load at start | files rewritten by truncation; SET path and partner-id thread share them; crash in a rewrite; failing opens | `BSStore` |
| RFC store | three dictionaries and files, named semaphore, session flag | WebPA, RFC and IARM set, ClearDB, ClearDBEnd, ClearParam, reload | a session spans many requests; a second process writes one file; the semaphore survives a kill | `RFCStore` |
| Start and stop | main loop, server threads, condition for the HTTP server, shutdown semaphore | start steps, signals, teardown | lost wake-ups, early signals, table freed under readers | `Lifecycle` |
| Parodus client | connection, back-off, exit flag, queue, callback | connect, receive, push, pop, send with retry, shutdown | retries in the reporting thread, lazily built singleton, two clocks | `ParodusClient`, `NotifyChannel` |
| Dispatcher | prefix table, GET mutex, SET mutex, DeviceInfo lock, cached notification source | load list, GET, SET, attributes, update, push | lock order, nested GET, sticky local, order of hash keys | `Dispatcher` |
| DeviceInfo actions | static members, download settings, tunnel arguments, flag files, detached threads | SETs of features, reset, download, tunnel, announcements; the monitor thread | data of one request left for another, steps that fail half-way, a file that appears too late | `DeviceFeatures`, `DeviceActions` |
| Profile values: IP, Ethernet, MoCA, DHCPv4, Time, STBService, DeviceInfo, processes, Bluetooth | static structures, backups, called flags, notify tables, a lock per class | Get, Set, attributes, value poll | rows that share one structure, locks initialised on every call, backups used by two parameters | `Getters`, `Profile*`, `Profiles`, `ParamValues` |
| InterfaceStack | table of layers, table of bridges | Get and poll, both rebuild | four looks at a kernel that changes | `InterfaceStack` |
| Add and remove events of the polls | saved instance counts | count, announce | numbering of the events | not modelled |
| rbus provider, HTTP and JSON handlers, WebPA parameters | per-request locals, a bus handle | lists of gets and sets | conversions | not modelled |
| Data model | parsed XML | lookup, wildcard expansion | text processing | not modelled |
| StorageService | | | does not compile when enabled | not modelled |

## Modules and how they correspond to the code

**BSStore** (`XrdkCentralComBSStore.cpp`, `XrdkCentralComBSStoreJournal.cpp`). Two threads:
`set`, the dispatcher's serialised SET path, and `watch`, the detached partner-id thread. Each
call is cut at its file operations (`x.open`, `x.write`), because the process may die there
(`CrashPoints`) or the open may fail (`IOFaults`). A file is truncated and written line by line,
so a crash leaves any subset of its lines. `dict` and `journal` are the two `m_dict`; `mtx` is
the recursive mutex, which `ClearDBEnd` does not take. `active`, `resent` and `seen` record what
the properties compare with.

**RFCStore** (`XrdkCentralComRFCStore.cpp`). A request puts its file operations into `jobs` and
performs them one by one; a stop may come between two, or within one. The second process that
writes the local store is the action of an environment. All requests arrive under the DeviceInfo
lock, so they do not interleave with each other.

**Lifecycle** (`hostIf_main.cpp`, `http_server.cpp`, `hostIf_jsonReqHandlerThread.cpp`,
`hostIf_updateHandler.cpp`). One program counter for main, one for the shutdown thread, a state
per server thread, and callers that walk the manager table.

**ParodusClient** (`libpd.cpp`, `webpa_adapter.cpp`, `hostIf_NotificationHandler.cpp`). The client
thread, and senders that push an entry and run the callback themselves. libparodus is external:
each call may fail. **NotifyChannel** is what this promises: a notification is dropped before
there is a client, or accepted and then sent once or given up, never both and never twice. Giving
up may take several at once. The construction of the handler and each use of the queue's address are
steps of their own: `queues` holds every queue ever made, the last one being the current, and `at`
the one whose address a sender has read, to push (`Accept`, `Push`) or to pop (`Fetch`, `Pop`).
`ParodusClient` is shown to implement `NotifyChannel`, with `taken` mapped to the entries that wait
or are held by a sender. What is left in a replaced queue that no thread is about to pop from, and
whose pusher is past its own pop, is `Orphaned` and counts as given up.

**Dispatcher** (`hostIf_msgHandler.cpp`, `hostIf_DeviceClient_ReqHandler.cpp`,
`Device_DeviceInfo.cpp` lock, `webpa_notification.cpp`). The manager list is read line by line
with the local `mgrName`; the order of the hash keys is chosen once. A request takes its mutex,
finds its manager, and for DeviceInfo takes the error-checking lock, whose second acquisition by
its holder fails and is ignored. A SET or an update that pushes a notification calls
`getNotifySource`, which is a GET of its own while the source is not cached (`nested`). Handlers
of other managers are one step.

**DeviceFeatures**, **DeviceActions** (`Device_DeviceInfo.cpp`). A SET runs under the DeviceInfo
lock and is one step. `DeviceFeatures` gives, for each RFC parameter whose SET also switches
something, the set of outcomes its handler may have: the feature as it leaves it and the result
it returns. The RFC store is seen from outside (what GET serves, and the next main file during a
session), as a requestor RFC sees it; `RFCStore` has its files. `DeviceActions` adds the SETs that
leave static members or threads behind. A behaviour belongs to one load (`Loads`), whose requests
are the only ones made: loads that share no state are not multiplied with each other.

**InterfaceStack** (`Device_InterfaceStack.cpp`). A rebuild is cut at its four looks at the kernel;
Get and poll may be in one at the same time. The kernel is external: interfaces come, go and join
bridges. Each look may fail, in whole or in part, and the rebuild goes on with what it has, as the
code does, which looks at none of the results. The MoCA driver may report a name that Ethernet has
too. Alias interfaces are left out, and a bridge has neither an Ethernet nor a MoCA name. The
rows come from a multimap that the code fills bridge by bridge in the order of a hash table. One
look sees an interface in at most one bridge, and never a bridge in a bridge, so that order makes
no difference: the model enters all bridges at once and orders the rows by their keys at the end.

**Getters**, **Profile\***, **Profiles**, **ParamValues** (the profiles and their handlers).
`Getters` is a vocabulary: where a getter's answer comes from, what it returns when the source is
absent or refuses, the static field, backup and flag it uses; and the same for setters. Each
`Profile*` module describes the getters, setters, if-chains, polls, locks and attribute requests
of one profile in it. `Profiles` computes the kinds of pairs of parameters there are: two
parameters matter to each other when they share a field, a backup or a flag, or one is polled,
overwritten or set through the other, and the same parameter of two rows always does.
`ParamValues` is the state machine of one pair: a request thread and the update handler's poll,
sources that change, refuse and vanish, a notify table, and the parts of the daemon that call a
getter without the lock of its class (the interface stack, the DHCP client, the counts of the IP poll
and the boot notification). Such a call of IP also empties the name of an interface before it fills it
in again, and a getter that comes in between asks about no interface. A getter is two steps, the
question and the return; the return compares and remembers at once. A getter that reports its
source in words of its own has them in the model (`Shown`), and some have none for what a Set may
have asked for. A setter that opens a file and ignores what becomes of the writing is told from
one that looks at its result. Events go to a registered callback: the builds modelled have
value-change events configured in. With them the value poll of DHCPv4 does not compile
(`hostIf_DHCPv4Client_ReqHandler.cpp:302`), so DHCPv4 has no polls in the model.

The `MC*` modules give the constants values; each `.cfg` is one run.

## Runs

Eleven runs pass:

| Run | Checks and shows | Distinct states |
|---|---|---|
| bs_sequential | one caller at a time, stops between rewrites: overrides stay, defaults follow image and partner, files match caches, an RFC session ends with exactly its keys | 1,985,022 |
| bs_crash | beside the partner-id thread the process dies anywhere, inside a rewrite included: after the next start the defaults are served and the files match the caches; the lock keeps the calls apart | 2,427,954 |
| bs_faults | opening bootstrap.ini fails, or the journal at the end of a session: an override the journal knows is still served | 282,221 |
| bs_waits | the SET of the partner id beside the watcher, with failing opens: every call returns | 400,774 |
| rfc_session | WebPA, RFC and IARM sets, ClearParam, a second writer, failing opens, stops: sessions are exact, GET changes only at their end, no rewrite loses a local value, the semaphore is posted on every path | 1,105,170 |
| life_start | start with any step failing or slow, signals at any time: READY follows the HTTP server, the start ends, a signal taken while the loop runs ends the process | 202,787 |
| disp_requests | four loads of the dispatcher: no wait cycle, one thread in DeviceInfo, routing by the list for every order of the hash keys, every call returns | 223,847 |
| pd_notify | handler constructed by one or several threads, connecting, sending and receiving fail: pops match pushes, nothing is sent before the connection, `NotifyChannel` is implemented, the back-off doubles, senders return, a stop ends the receive loop | 145,600 |
| device_sets | SETs that act on the device, with failures, sessions and restarts: an accepted feature is switched and served, the debug file follows the store, downloads, tunnels and announcements use their own data, the monitor announces the device | 194,316 |
| if_stack | Get and poll rebuild while the kernel changes and looks at it fail: no path up ends at a bridge port, and an undisturbed rebuild leads from each Ethernet interface to its IP interface | 500,097 |
| param_values | all kinds of pairs the profiles have: a Get behind a lock returns its own value, an event is raised only for a change, a SET answered OK is what a Get reports | 1,015,280 |

One run finds a violation. **disp_inversion**: `getNotifySource` sends a GET while the SET that
pushes the notification holds the DeviceInfo lock. A GET takes the GET mutex and then that lock.
TLC finds the two waiting for each other, which `docs/architecture/threading-model.md:84` and
`README.md:224` exclude. It can happen until the source is cached for the first time.

## Where the properties stop

Some properties hold only under a condition, because the code does not do more. Widening the
condition makes TLC report a counterexample in the same modules.

- `OverrideActive` needs stops to fall between rewrites. A process that dies between the
  truncation and the writing of bootstrap.ini leaves an override in the journal only. It also needs
  the watcher to be away while ClearDBEnd, which takes no lock, rewrites the caches.
- `StoreSynced` needs every section of the defaults to have an entry (`Populated`). With an empty
  one nothing is written, and bootstrap.ini stays absent instead of empty.
- `StoreMutualExclusion` is about the calls that take the lock; ClearDB, ClearDBEnd and the reload
  after a SET of the partner id do not.
- `SessionExact` is about sessions without ClearParam. `clearValue` rewrites the main file from
  the dictionary of before the session (operation `clearInSession`).
- `SemaphoreReturned` needs the process not to be killed while it holds the named semaphore
  (crash point `held`), which outlives it.
- `RestartSafe` needs the main file to be writable at the end of a session.
- `ExitsWhenSignalled` is about a signal taken while the loop runs. One handled earlier uses up
  the shutdown thread and quits no loop; this is why life_start does not check for deadlock.
- `LocalWritesKept` takes what the local file holds as wanted when the process stops before a
  request has rewritten that file: a stop within the rewriting may lose lines of others.
- `RoutesToOwner` says which manager a line of the list ends up with: the one it names if that is
  built, otherwise that of the last line above it that names one. The shipped list has such a line
  (`conf/mgrlist.conf:11`), although the message about it says "Skipping..."
  (`hostIf_msgHandler.cpp:471`). Among prefixes that extend each other the first in the order of the
  hash keys wins, and the property leaves open which that is.
- `FeatureApplied` is about the features in `Checked`, whose handlers look at every step. The other
  handlers answer OK although a file could not be written or a script not run; that of the tracing
  URL although closing the file may have lost what was written.
- `SecureDebugFollows` starts at an accepted SET and ends with a SET that fails or with a session,
  whose SETs compute the file from the values it replaces.
- `TunnelOneRequest` starts at an accepted request with a stunnel port, and `StartTimeCurrent` is
  about the time announced, not about the download it belongs to.
- `ManageableSent` needs start_time to be there while the monitor has a check left. A file created
  later is missed: the watch waits for an event that creating and writing it does not raise.
- `PortsLinked` is about a table whose rebuild met no other one, because the lock excludes nobody.
  `StackFollowsKernel` further needs every look to have read everything, and at most one bridge: all
  bridges are numbered 1.
- `ReplyOwnValue` needs a lock that excludes and a field that is written under it only. In Ethernet,
  Time, STBService and the statistics, getLock initialises the mutex on every call, and a Get may
  return another row's value. So may a Get of the name of an IP interface, of the counts of Device.IP
  or of the boot time, which other parts of the daemon ask for without the lock.
- `EventMeansChange` needs, beyond that, a backup and a flag of the parameter's own, a comparison of
  the whole value and a poll with the getter of the same name. Several statistics use each other's
  backups. It says that no event is raised without a change. The converse is not true of the code: a
  Get between two polls takes the backup and hides the change, and some handlers free the entry of the
  notify table they have inserted.
- `SetThenGet` is about setters that look at the result of what they do, and ends for
  GetDeviceInfo at a refused Set. It does not cover IPPing, where a Set answered NOK because the file
  did not open is served all the same, nor the parameters of an IP interface, whose name an unlocked
  call may have emptied.
- `StopEndsReceive` is about the receive loop; a client that cannot connect never reads the flag.

## Hazards no property covers

`PROJECT.json` lists the hazards that the properties are about. These were met as well; no
property is stated, because the code and its documents promise nothing or the model ends there.

- Managers are created on first use without a lock (`hostIf_DeviceClient_ReqHandler.cpp:56`). All
  their state is static, so the race costs a leaked object.
- The wait after a failed receive mixes two clocks and does not wait (`libpd.cpp:164`). The model
  leaves the wait at once.
- A popped notification is sent outside any lock, so two changes of one parameter may arrive in
  the wrong order (`webpa_adapter.cpp:411`). No order is promised.
- A second Reset within two seconds replaces the kind of the first (`Device_DeviceInfo.cpp:2607`).
- A debug tool may be installed although scheduling its expiry failed and the answer is NOK
  (`Device_DeviceInfo.cpp:5917`).
- A blocklist entry is dropped when its name occurs anywhere in a request
  (`Device_DeviceInfo.cpp:3750`).
- The IP interface of a row of the InterfaceStack is its place in a list, not its instance
  (`Device_InterfaceStack.cpp:926`).
- Reading the attributes of a parameter that was never subscribed goes through a NULL entry
  (`hostIf_IPClient_ReqHandler.cpp:346`, and the other handlers with a table).
- A list query of Bluetooth that fails has emptied the list, and the poll announces removals
  (`XrdkBlueTooth.cpp:1774`).
- `closeAllInstances` tests the head of the list instead of the element (`Components_SPDIF.cpp:113`).
- The Thunder table of ports is rebuilt under a lock that excludes nobody
  (`Components_HDMI_Thunder.cpp:81`).
- `setCancelMute` mutes with the value it is given (`Components_AudioOutput.cpp:588`), while its comment
  (577) says that 1 cancels muting and 0 has no effect. The model follows the code.
- The REMOVE events of the polls are numbered from the new count to the old one less 1, while the
  rows that went are those after the new count (`hostIf_InterfaceStackClient_ReqHandler.cpp:256`; DHCPv4,
  Ethernet, MoCA, Process and Processor have the same loop).
- Counting processes initialises the mutex of the process library
  (`Device_DeviceInfo_ProcessStatus_Process.cpp:187`).

## Bounds

Keys: the partner id and one or two parameters, one of them RFC-only, so that an override and a
default can meet and two keys can differ. Two images and two partners let a default change in both
ways. Two senders with up to two notifications let one thread pop the other's entry. Three threads
in `Dispatcher` let a SET, a GET and an update hold one lock each; of its four loads, the two with
three threads stay on DeviceInfo, and the two with two threads range over all managers. Three
threads over all managers, or with attribute requests and the GET of the source together, are not
run; the safety theorems below cover them. `FirmwareRecorded` is run without the watcher; its
theorem covers the watcher beside the calls that take the lock. Two signals reach the second one
after the shutdown thread is used up. `MaxPush`, `MaxTime` and `MaxSignals` bound counters;
`MaxChecks` and `MaxReads` are the code's own 5; `MaxThreads` 2 lets two detached threads of a kind
overlap, and `MaxChanges` and `MaxFailures` 1 let the kernel change between two looks and another
look fail. Two values per source are enough to tell one parameter's answer from another's and a
change from none. The other models are finite without bounds. In `Lifecycle`, `noHttp` is chosen at
the start and says that the HTTP server is unused, fails or needs more than 10 seconds.

## Fairness

- BSStore: strong fairness of each thread's step. The mutex is taken once per write, so a waiter
  is not passed over for ever.
- Lifecycle, ParodusClient: every thread is scheduled. Nothing is assumed of Parodus.
- Dispatcher: every thread is scheduled, and no waiter is passed over for ever at a mutex that
  keeps being given back. This is an assumption about the scheduler; `NoWaitCycle`, which needs
  no fairness, is the part that depends on the code alone.

- DeviceActions: weak fairness of the monitor thread's start, checks and reads. Nothing is assumed
  of clients, scripts or Parodus.

RFCStore, InterfaceStack and ParamValues state no liveness. pd_notify does not check for deadlock,
because senders stop at `MaxPush` and the client ends.

## Proofs

Every safety property the runs check is proved for all values of the constants. The constants only
have to satisfy the assumptions beside their declarations, which TLC evaluates on every run; what a
theorem needs beyond that is in its own `ASSUME`. The constants of each passing run satisfy the
premises of the theorems for its properties. Each proof has one lemma or step per action.

**Bootstrap store** (`BSAssumption`: the partner id is a key, the placeholder and the absent value
are distinct from all values, the default files assign values to keys). `Locked` says that neither
ClearDB nor the SET of the partner id is used (the calls made without the lock), `Unwatched` that
the watcher is not, `Openable` that every file can be opened. `Benign` says that stops fall between
rewrites and the journal can be opened; rfcUpdateEnd may fail to open it if the process never stops,
as in bs_faults, for then nothing reads the file again.

- `BSStoreProofs`. **TypeCorrect**: `TypeOK` always (proved only; no run lists it). It needs
  `CallKnown`: a thread inside setRawValue knows its key. **LockExcludes**: under `Locked`, the two
  threads' calls exclude each other. **OverridesKept**: under `Benign`, and `Unwatched` or `Locked`,
  an override in the journal is the value served whenever the store is quiet. `OverrideActive` is
  not inductive: between the cache, the file and the journal a call passes through states in which
  they differ. `OverrideInv` says in which order they may differ: a cache is ahead of the journal
  only for the key in hand (`MemInv`, `AheadInv`), the record to be written is current (`RecInv`), a
  default is never on its way over an override (`DefaultInv`), files agree with caches outside
  rewrites (`SyncInv`, and `FileInv` if the process may stop). `Alone` and `AloneAfter` reduce a
  step to the one thread inside the store.
- The second part of the module has one invariant, `StoreInv`, for four theorems. It speaks of each
  thread while no other is inside the store; `Schedule` shows that a step leaves it that way.
  `FilesOK` lists the program points at which a file may lag behind its cache, `MadeOK` those at
  which bootstrap.ini may be absent, `LoadOK` ties the defaults still to come and the call in
  progress to the defaults selected, `ServedOK`, `RecordedOK` and `SessionOK` say for each key that
  it is as it should be, or is still to come, or is the one in hand. The parts hold under different
  premises, so each is guarded by its own. **StoreSaved** (`Openable`, `Populated`, `Unwatched` or
  `Locked`; any crash points): `StoreSynced`. It needs `Clean`, that a journal file reads back as it
  was written, also when a crash has cut it short. **FirmwareKnown** (`Openable`, `Benign`,
  `Unwatched` or `Locked`): `FirmwareRecorded`. **DefaultsKept** (`Openable`, and `Locked` with any
  crash points, or `Benign` and `Unwatched`): `DefaultServed`. **SessionEndsExact** (`Openable`,
  `Benign`, `Unwatched` or `Locked`): the action property `RfcSessionExact`; under `Locked` there
  are no sessions, so it speaks of `Unwatched`.

**RFC store** (`RFCStoreProofs`). `JobsInv` gives the shapes that the list of pending file
operations has, with who holds the semaphore; everything else rests on it. **LocalKept** has no premise:
the local file is what its writers expect, or the pending rewrite will make it so (`LocalInv`). A
stop before that rewrite is done makes the file as it then is the one to be kept.
**SemaphorePosted** (`NoStopHeld`). **RestartServes** (`FilesWritable`), by `FilesInv`. **ServedKept** and
**SessionServed** (`NoClearInSession`, and `Clearable` for the second), by `SessionInv`: in a session the
main file is what the agent has sent, up to the next operation.

**Dispatcher** (`DispatcherProofs`), for any number of threads. `LocksInv` says for every program point
and depth of nesting which locks a thread holds. **DeviceInfoLocked** follows. **NoDeadlock**
(`Ordered`: no load has both pushed notifications and GETs) follows by looking at the last lock a cycle
would need: its holder is not waiting. disp_inversion shows that the premise is needed. **RoutedByList**
(no premise) rests on `TableInv`: while the list is read, the table has for every prefix the manager
that its last line so far ended up with, and `mgrName` is that of the last line that names one.

**Start and stop** (`LifecycleProofs`). **ReadyServes**: the action property `ReadyMeansServing`, by
`ServingInv`: as long as there is no main loop the shutdown thread cannot reach the HTTP server, so
the flag the HTTP thread sets means that it listens.

**Parodus client** (`ParodusProofs`), for any number of senders, without premises.
**ConnectedFirst** by `OrderInv`, the order of connecting, construction and registration.
**PushesPopped** by counting the senders before their pop of the current queue. **BackoffSequence**
by `BackoffInv`. **ChannelKept** is the refinement: each step is a step of `NotifyChannel` or a
stutter. It needs `MsgsInv` (a notification is in one place at a time, over all queues) and lemmas
on what a step orphans: nothing is taken back (`OrphansStay`), what becomes orphaned was waiting,
which is a step that gives it up (`OrphansFail`), and a step that leaves the queues and the pops
alone orphans nothing (`OrphansQuiet`).

**DeviceInfo actions** (`DeviceProofs`), without premises (`ParamsAssumption`: a load asks for known
parameters, and the two parameters behind the debug file are modelled together). **DownloadsOwn**,
**StartTimes** and **TunnelsOwn**: the static members equal what was given since the last use
(`FwInv`, `RpcInv`, `SshInv`). **FeaturesApplied** and **DebugFollows** by `FeatInv`, from what each
handler's outcomes can be.

**Profile values** (`ParamProofs`), for every set of kinds that satisfies `KindsAssumption`: fields and
backups of the first parameter are its own or shared, a backup comes with a flag. `NamesAssumption`
keeps the markers apart from values. **RepliesOwn**: who has asked holds the lock (`LockInv`).
**EventsMeanChanges**: a backup of its own holds what the parameter was last found to be (`BackupInv`).
**SetsServed**: the value of a Set in force is where the getter looks (`PutInv`).

**InterfaceStack** (`InterfaceStackProofs`), for up to `MAX_IFCS` interfaces, any bridges among them
with up to `MaxMembers` members each, and any number of changes and failures, without premises
(`InterfaceNames`: names are numbers up to `MaxName`, there is at most one MoCA name, and a bridge
has no other role). The two sizes are those of the code's buffers; larger devices are outside the
model. The proof has two halves. The first is about one rebuild: `FinalEntries` gives the entries it
makes in closed form, and `RowsMade` shows that the numbered rows are those entries, none lost and
none twice. That needs the multimap's order to be strict and total on them, and `Ranks`, that the
elements of a finite set in such an order have the numbers 0 to n - 1. **PortsStayLinked** then
follows from what was put above and below each entry, whatever was read (`MadeLinked`). The second
half is about the steps: `StackInv` says that indexes are unique and a master is there (`KernelOK`),
that the table of bridges is that of one look (`BridgesOK`), that a rebuild that is alone starts
from an empty table (`ThreadsOK`), and that what it has seen is still so if nothing has changed
(`SeenOK`). **StackCorrect** follows by going up row by row: Ethernet interface, member port, port
1, IP interface.

Only model-checked:

- Liveness: `EveryCallReturns`, `CallsReturn`, `ManageableSent`, `StartupEnds`, `ExitsWhenSignalled`, the
  liveness of the Parodus client, and the fairness half of `ImplementsChannel`. It needs ENABLED, which the prover
  does not handle.

## Plan

Next: the composition of the dispatcher with the stores, so that the exclusion the dispatcher's locks
give becomes the premise of the stores' theorems.

## Not modelled

- **Front ends** (rbus provider, HTTP and JSON request handlers, WebPA parameters and attributes):
  each turns a request into calls of the dispatcher one after the other and converts values. They
  keep no state between requests but a bus handle. Their threads' start and stop is in `Lifecycle`,
  and their calls are the callers of `Dispatcher`.
- **Data model database**: loaded by main before the front ends start and not changed afterwards.
- **Add and remove events** of the polls: see their numbering above.
- **Legacy RFC storage** and its INI file, used instead of the RFC store on devices with the legacy
  setting, and the RFC variables, a cached file another program writes.
- **StorageService**: off by default (`configure.ac:150`), and `Service_Storage.cpp:191` does not
  compile when it is on.
- **XRE, T2 and RDK handlers**: a file and a script, a pass-through to rbus, and four operations of
  the bootstrap store under other names.
- **Options off by default**: the speed test of IP and the tile commands of Bluetooth.
- startParodus, a program of its own; argument parsing, logging, telemetry and request counters;
  the key-file variant of the manager list, which main does not call.

Values are opaque but for the words some getters have for them (`Shown`).
