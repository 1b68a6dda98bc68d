--------------------------- MODULE ParodusClient ---------------------------
(***************************************************************************)
(* The path of notifications to Parodus, and the thread that owns the      *)
(* connection.                                                             *)
(*                                                                         *)
(* A thread that has something to report (the update poller, a SET         *)
(* handler, an IARM event handler) pushes it on NotificationHandler's      *)
(* queue and then itself runs the registered callback, which pops one      *)
(* entry and sends it, retrying with a back-off.  The callback is          *)
(* registered by the Parodus thread, libpd_client_mgr, once it is          *)
(* connected; that thread then receives WebPA requests until it is told to *)
(* stop, and shuts the connection down.  libparodus itself is external.    *)
(***************************************************************************)
EXTENDS Naturals, Sequences, FiniteSets

CONSTANTS
  Senders,      \* threads that report something
  MaxPush,      \* bound: notifications of one sender
  NoMsg,        \* no notification
  Built,        \* how many NotificationHandlers may exist at the start
  InitFails,    \* libparodus_init may fail
  SendFails,    \* libparodus_send may fail
  ReceiveFails, \* libparodus_receive may return an error
  Stops,        \* the daemon is told to stop
  Epoch         \* CLOCK_REALTIME minus CLOCK_MONOTONIC, in seconds

Msgs == Senders \X (1..MaxPush)
MaxRetrySleep == 31     \* 2^backoff_max_time - 1
MaxTries == 4           \* retry_count 0..3
RetryPause == 5

ASSUME PCAssumption ==
  /\ NoMsg \notin Msgs
  /\ IsFiniteSet(Senders)
  /\ MaxPush \in Nat /\ Epoch \in Nat
  /\ Built \subseteq {0, 1}
  /\ InitFails \in BOOLEAN /\ SendFails \in BOOLEAN
  /\ ReceiveFails \in BOOLEAN /\ Stops \in BOOLEAN

VARIABLES
  client,    \* program point of libpd_client_mgr
  handle,    \* libparodus_instance: "null", "open" or "shut"
  c,         \* connect_parodus: the exponent of the next pause
  backoff,   \* connect_parodus: backoffRetryTime
  slept,     \* history: the last pause between two attempts to connect
  exit,      \* exit_parodus_recv
  built,     \* NotificationHandlers constructed so far; pInstance is NULL at 0
  queues,    \* their queues; notificationQueue points to the last one
  callback,  \* notifyUpdateCallback is set
  pc,        \* program point of each sender
  made,      \* the notifications each sender has made so far
  at,        \* the queue whose address it holds, 0 for none
  item,      \* the entry each sender has popped
  tries,     \* retry_count of its sendNotification
  dropped, sent, failed   \* history: what became of each notification

connection == <<client, handle, c, backoff, slept, exit>>
handler == <<built, queues, callback>>
senders == <<pc, made, at, item, tries>>
history == <<dropped, sent, failed>>
vars == <<connection, handler, senders, history>>

Init ==
  /\ client = "model" /\ handle = "null"
  /\ c = 2 /\ backoff = 0 /\ slept = 0
  /\ exit = FALSE
  /\ built \in Built
  /\ queues = [k \in 1..built |-> <<>>] /\ callback = FALSE
  /\ pc = [s \in Senders |-> "idle"]
  /\ made = [s \in Senders |-> 0]
  /\ at = [s \in Senders |-> 0]
  /\ item = [s \in Senders |-> NoMsg]
  /\ tries = [s \in Senders |-> 0]
  /\ dropped = {} /\ sent = {} /\ failed = {}
-----------------------------------------------------------------------------
(* The singleton.  The test of pInstance and the construction are two      *)
(* steps, taken under no lock; the constructor replaces the static queue,  *)
(* which a thread that has read its address goes on using.                 *)

Construct ==
  /\ built' = built + 1
  /\ queues' = [k \in 1..(built + 1) |-> IF k <= built THEN queues[k] ELSE <<>>]
  /\ UNCHANGED callback
-----------------------------------------------------------------------------
(* libpd_client_mgr.                                                       *)

\* checkDataModelStatus: without a data model the thread ends at once.
CheckModel ==
  /\ client = "model"
  /\ client' \in {"connect", "ended"}
  /\ UNCHANGED <<handle, c, backoff, slept, exit, handler, senders, history>>

\* The pause that follows a failed attempt.
Pause == IF backoff < MaxRetrySleep THEN 2^c - 1 ELSE backoff

\* Mutant of ConnectFails: the exponent is not reset with the pause.
ConnectFailsNoReset ==
  /\ client = "connect"
  /\ InitFails
  /\ slept' = Pause
  /\ c' = c + 1
  /\ backoff' = IF Pause = MaxRetrySleep THEN 0 ELSE Pause
  /\ UNCHANGED <<client, handle, exit, handler, senders, history>>

ConnectFails ==
  /\ client = "connect"
  /\ InitFails
  /\ slept' = Pause
  /\ c' = IF Pause = MaxRetrySleep THEN 2 ELSE c + 1
  /\ backoff' = IF Pause = MaxRetrySleep THEN 0 ELSE Pause
  /\ UNCHANGED <<client, handle, exit, handler, senders, history>>

\* connect_parodus returns, and its locals are gone.
Connect ==
  /\ client = "connect"
  /\ handle' = "open"
  /\ c' = 2 /\ backoff' = 0 /\ slept' = 0
  /\ client' = "get"
  /\ UNCHANGED <<exit, handler, senders, history>>

\* registerNotifyCallback, through getInstance.
ClientGet ==
  /\ client = "get"
  /\ client' = IF built > 0 THEN "register" ELSE "new"
  /\ UNCHANGED <<handle, c, backoff, slept, exit, handler, senders, history>>

ClientNew ==
  /\ client = "new"
  /\ Construct
  /\ client' = "register"
  /\ UNCHANGED <<handle, c, backoff, slept, exit, senders, history>>

Register ==
  /\ client = "register"
  /\ callback' = TRUE
  /\ client' = "notify"
  /\ UNCHANGED <<handle, c, backoff, slept, exit, built, queues,
                 senders, history>>

\* setInitialNotify; its setAttributes calls touch nothing modelled here.
SetInitialNotify ==
  /\ client = "notify"
  /\ client' = "receive"
  /\ UNCHANGED <<handle, c, backoff, slept, exit, handler, senders, history>>

\* Mutant of ReceiveError: the flag is not looked at between two turns.
ReceiveErrorUnchecked ==
  /\ client = "receive"
  /\ ReceiveFails
  /\ client' = "wait"
  /\ UNCHANGED <<handle, c, backoff, slept, exit, handler, senders, history>>

\* parodus_receive_wait.  A turn in which nothing arrives, or in which a
\* request is answered, changes nothing modelled here.  When
\* libparodus_receive fails the thread waits on parodus_cond, until a
\* deadline read from CLOCK_MONOTONIC.
ReceiveError ==
  /\ client = "receive"
  /\ ~exit
  /\ ReceiveFails
  /\ client' = "wait"
  /\ UNCHANGED <<handle, c, backoff, slept, exit, handler, senders, history>>

\* parodus_cond has the default clock, CLOCK_REALTIME, on which a deadline
\* RetryPause seconds away on the other clock has passed.
TimedOut == Epoch >= RetryPause

WaitTimesOut ==
  /\ client = "wait"
  /\ TimedOut
  /\ client' = "receive"
  /\ UNCHANGED <<handle, c, backoff, slept, exit, handler, senders, history>>

\* The signal of stop_parodus_recv_wait, or the flag seen before the wait.
WaitStopped ==
  /\ client = "wait"
  /\ exit
  /\ client' = "receive"
  /\ UNCHANGED <<handle, c, backoff, slept, exit, handler, senders, history>>

\* The loop ends: the receiver is closed and the connection shut down.
Close ==
  /\ client = "receive"
  /\ exit
  /\ handle' = "shut"
  /\ client' = "ended"
  /\ UNCHANGED <<c, backoff, slept, exit, handler, senders, history>>

\* stop_parodus_recv_wait, called from the daemon's exit path.
Stop ==
  /\ Stops
  /\ ~exit
  /\ exit' = TRUE
  /\ UNCHANGED <<client, handle, c, backoff, slept, handler, senders, history>>

-----------------------------------------------------------------------------
(* The senders.                                                            *)

Msg(s) == <<s, made[s]>>
Goto(s, l) == pc' = [pc EXCEPT ![s] = l]

\* A thread builds a payload and calls NotificationHandler::getInstance().
Report(s) ==
  /\ pc[s] = "idle"
  /\ made[s] < MaxPush
  /\ made' = [made EXCEPT ![s] = @ + 1]
  /\ Goto(s, IF built > 0 THEN "push" ELSE "new")
  /\ UNCHANGED <<connection, handler, at, item, tries, history>>

SenderNew(s) ==
  /\ pc[s] = "new"
  /\ Construct
  /\ Goto(s, "push")
  /\ UNCHANGED <<connection, made, at, item, tries, history>>

\* pushNotification drops what comes before the callback is registered.
PushDropped(s) ==
  /\ pc[s] = "push"
  /\ ~callback
  /\ dropped' = dropped \cup {Msg(s)}
  /\ Goto(s, "idle")
  /\ UNCHANGED <<connection, handler, made, at, item, tries, sent, failed>>

\* Mutant of Accept: no test for the callback.
AcceptUnchecked(s) ==
  /\ pc[s] = "push"
  /\ at' = [at EXCEPT ![s] = built]
  /\ Goto(s, "put")
  /\ UNCHANGED <<connection, handler, made, item, tries, history>>

\* With a callback, the address of the queue is read and the entry pushed.
Accept(s) ==
  /\ pc[s] = "push"
  /\ callback
  /\ at' = [at EXCEPT ![s] = built]
  /\ Goto(s, "put")
  /\ UNCHANGED <<connection, handler, made, item, tries, history>>

Push(s) ==
  /\ pc[s] = "put"
  /\ queues' = [queues EXCEPT ![at[s]] = Append(@, Msg(s))]
  /\ at' = [at EXCEPT ![s] = 0]
  /\ Goto(s, "fetch")
  /\ UNCHANGED <<connection, built, callback, made, item, tries, history>>

\* notificationCallBack reads the address again and pops one entry, not
\* necessarily its caller's.
Fetch(s) ==
  /\ pc[s] = "fetch"
  /\ at' = [at EXCEPT ![s] = built]
  /\ Goto(s, "pop")
  /\ UNCHANGED <<connection, handler, made, item, tries, history>>

\* Mutant of Pop: the entry stays in the queue while it is sent.
PopPeek(s) ==
  /\ pc[s] = "pop"
  /\ queues[at[s]] # <<>>
  /\ item' = [item EXCEPT ![s] = Head(queues[at[s]])]
  /\ at' = [at EXCEPT ![s] = 0]
  /\ Goto(s, "send")
  /\ UNCHANGED <<connection, handler, made, tries, history>>

Pop(s) ==
  /\ pc[s] = "pop"
  /\ queues[at[s]] # <<>>
  /\ item' = [item EXCEPT ![s] = Head(queues[at[s]])]
  /\ queues' = [queues EXCEPT ![at[s]] = Tail(@)]
  /\ at' = [at EXCEPT ![s] = 0]
  /\ Goto(s, "send")
  /\ UNCHANGED <<connection, built, callback, made, tries, history>>

\* g_async_queue_timeout_pop gives up after a millisecond.
PopTimesOut(s) ==
  /\ pc[s] = "pop"
  /\ queues[at[s]] = <<>>
  /\ at' = [at EXCEPT ![s] = 0]
  /\ Goto(s, "idle")
  /\ UNCHANGED <<connection, handler, made, item, tries, history>>

\* Mutant of SendSucceeds: the loop is not left after a success.
SendSucceedsNoBreak(s) ==
  /\ pc[s] = "send"
  /\ handle = "open"
  /\ tries[s] + 1 < MaxTries
  /\ sent' = sent \cup {item[s]}
  /\ tries' = [tries EXCEPT ![s] = @ + 1]
  /\ UNCHANGED <<connection, handler, pc, made, at, item, dropped, failed>>

SendSucceeds(s) ==
  /\ pc[s] = "send"
  /\ handle = "open"
  /\ sent' = sent \cup {item[s]}
  /\ item' = [item EXCEPT ![s] = NoMsg]
  /\ tries' = [tries EXCEPT ![s] = 0]
  /\ Goto(s, "idle")
  /\ UNCHANGED <<connection, handler, made, at, dropped, failed>>

\* Mutant of SendRetries: the count is not advanced.
SendRetriesForever(s) ==
  /\ pc[s] = "send"
  /\ SendFails \/ handle # "open"
  /\ tries[s] + 1 < MaxTries
  /\ UNCHANGED vars

\* A failed attempt, followed by a pause, while retry_count <= 3.
SendRetries(s) ==
  /\ pc[s] = "send"
  /\ SendFails \/ handle # "open"
  /\ tries[s] + 1 < MaxTries
  /\ tries' = [tries EXCEPT ![s] = @ + 1]
  /\ UNCHANGED <<connection, handler, pc, made, at, item, history>>

SendGivesUp(s) ==
  /\ pc[s] = "send"
  /\ SendFails \/ handle # "open"
  /\ tries[s] + 1 = MaxTries
  /\ failed' = failed \cup {item[s]}
  /\ item' = [item EXCEPT ![s] = NoMsg]
  /\ tries' = [tries EXCEPT ![s] = 0]
  /\ Goto(s, "idle")
  /\ UNCHANGED <<connection, handler, made, at, dropped, sent>>
-----------------------------------------------------------------------------
ClientStep ==
  \/ CheckModel \/ ConnectFails \/ Connect \/ ClientGet \/ ClientNew \/ Register
  \/ SetInitialNotify \/ ReceiveError \/ WaitTimesOut \/ WaitStopped \/ Close

SenderStep(s) ==
  \/ SenderNew(s) \/ PushDropped(s) \/ Accept(s) \/ Push(s)
  \/ Fetch(s) \/ Pop(s) \/ PopTimesOut(s)
  \/ SendSucceeds(s) \/ SendRetries(s) \/ SendGivesUp(s)

Next ==
  \/ ClientStep
  \/ Stop
  \/ \E s \in Senders : Report(s) \/ SenderStep(s)

Spec == Init /\ [][Next]_vars

\* The threads are scheduled.  Nothing is assumed about Parodus: connecting
\* and sending may fail every time.
FairSpec ==
  /\ Spec
  /\ WF_vars(ClientStep)
  /\ \A s \in Senders : WF_vars(SenderStep(s))
-----------------------------------------------------------------------------
(* Properties.                                                             *)

In(q) == {q[i] : i \in DOMAIN q}
Entries == UNION {In(queues[k]) : k \in 1..built}
Popped == {item[s] : s \in Senders} \ {NoMsg}

\* A push is matched by a pop: as many entries wait in the queue as there are
\* threads on their way to a pop of it, so no callback finds the queue empty
\* and no entry stays behind for a later caller.  When a second construction
\* of the handler has replaced the queue, an entry of the new one still has
\* its pop, but not every pop its entry.
PopsMatchEntries ==
  LET pops == Cardinality({s \in Senders : \/ pc[s] = "fetch"
                                           \/ pc[s] = "pop" /\ at[s] = built})
  IN  built > 0 => /\ Len(queues[built]) <= pops
                   /\ built = 1 => Len(queues[built]) = pops

\* Nothing is sent before the connection has been made, although the senders
\* use libparodus_instance without any synchronisation with the thread that
\* sets it.
SendsAfterConnect ==
  \A s \in Senders : pc[s] \in {"fetch", "pop", "send"} => handle # "null"

\* connect_parodus pauses 3, 7, 15 and 31 seconds and starts over.
BackoffDoubles ==
  [][ slept' # slept /\ client' = "connect" =>
        slept' = (IF slept \in {0, MaxRetrySleep} THEN 3 ELSE 2 * slept + 1) ]_vars

\* Each caller of the notification handler gets its thread back: the callback
\* ends whether Parodus answers or not.
ReportReturns == \A s \in Senders : []<>(pc[s] = "idle")

\* A thread in the receive loop that is told to stop shuts the connection
\* down, also when it waits after an error.
StopEndsReceive == exit /\ client \in {"receive", "wait"} ~> client = "ended"

\* A queue that was replaced and that no thread is about to pop from.
Lost(k) == k # built /\ \A s \in Senders : pc[s] = "pop" => at[s] # k
\* What it holds, once the thread that pushed it is past its own pop.
Orphaned ==
  {m \in UNION {In(queues[k]) : k \in {l \in 1..built : Lost(l)}} :
     ~ (pc[m[1]] \in {"fetch", "pop"} /\ made[m[1]] = m[2])}

\* The queue, the callback and the retries implement the promise of
\* NotifyChannel, also when two threads construct the handler at the same
\* time: what is left behind in a replaced queue counts as given up.
Channel == INSTANCE NotifyChannel WITH taken <- (Entries \ Orphaned) \cup Popped,
                                       failed <- failed \cup Orphaned
ImplementsChannel == Channel!FairSpec
============================================================================
