--------------------------- MODULE NotifyChannel ---------------------------
(***************************************************************************)
(* What the notification path promises its callers, whatever queue,        *)
(* callback and retries it is built from: a notification offered before    *)
(* the WebPA callback is registered is dropped, every other one is taken   *)
(* and then either sent once or given up, never both.                      *)
(***************************************************************************)
CONSTANT Msgs        \* the notifications that may be offered

VARIABLES
  dropped,           \* offered and refused
  taken,             \* offered and not yet settled
  sent,              \* handed to libparodus
  failed             \* given up

vars == <<dropped, taken, sent, failed>>

Init == dropped = {} /\ taken = {} /\ sent = {} /\ failed = {}

New == Msgs \ (dropped \cup taken \cup sent \cup failed)

Drop(m) ==
  /\ m \in New
  /\ dropped' = dropped \cup {m}
  /\ UNCHANGED <<taken, sent, failed>>

Take(m) ==
  /\ m \in New
  /\ taken' = taken \cup {m}
  /\ UNCHANGED <<dropped, sent, failed>>

Send(m) ==
  /\ m \in taken
  /\ taken' = taken \ {m}
  /\ sent' = sent \cup {m}
  /\ UNCHANGED <<dropped, failed>>

\* Giving up one notification, or at once all that wait in a queue that is lost.
Fail(M) ==
  /\ M # {} /\ M \subseteq taken
  /\ taken' = taken \ M
  /\ failed' = failed \cup M
  /\ UNCHANGED <<dropped, sent>>

Next ==
  \/ \E m \in Msgs : Drop(m) \/ Take(m) \/ Send(m)
  \/ \E M \in SUBSET taken : Fail(M)

Settle(m) == Send(m) \/ \E M \in SUBSET taken : m \in M /\ Fail(M)
Settles == \A m \in Msgs : WF_vars(Settle(m))

Spec == Init /\ [][Next]_vars
FairSpec == Spec /\ Settles
============================================================================
