---------------------------- MODULE ParodusProofs ----------------------------
(* Theorems about the path of notifications to Parodus, for any number of  *)
(* senders and notifications and whatever fails, checked by TLAPS.         *)
EXTENDS ParodusClient, FiniteSetTheorems, SequenceTheorems, TLAPS

ClientPoints == {"model", "connect", "get", "new", "register", "notify", "receive", "wait",
                 "ended"}
SenderPoints == {"idle", "new", "push", "put", "fetch", "pop", "send"}
Early == {"new", "push", "put"}

\* Type correctness of the client's and the senders' state.
TypeOK ==
  /\ client \in ClientPoints
  /\ handle \in {"null", "open", "shut"}
  /\ built \in Nat
  /\ queues \in [1..built -> Seq(Msgs)]
  /\ callback \in BOOLEAN
  /\ pc \in [Senders -> SenderPoints]
  /\ made \in [Senders -> 0..MaxPush]
  /\ item \in [Senders -> Msgs \cup {NoMsg}]
  /\ at \in [Senders -> Nat]
  /\ \A s \in Senders : pc[s] \in {"put", "pop"} => at[s] \in 1..built
  /\ \A s \in Senders : pc[s] \in Early => made[s] \in 1..MaxPush
  /\ \A s \in Senders : pc[s] = "send" <=> item[s] # NoMsg
  /\ dropped \subseteq Msgs /\ sent \subseteq Msgs /\ failed \subseteq Msgs

\* The order in which the Parodus thread connects, finds or builds the handler
\* and registers the callback.
OrderInv ==
  /\ client \in {"model", "connect"} => handle = "null" /\ ~ callback
  /\ client \in {"get", "new", "register"} => handle = "open" /\ ~ callback
  /\ client \in {"notify", "receive", "wait"} => handle = "open" /\ callback
  /\ callback => handle # "null" /\ built > 0
  /\ client = "register" => built > 0
  /\ \A s \in Senders : pc[s] \in {"put", "fetch", "pop", "send"} => callback
  /\ \A s \in Senders : pc[s] = "push" => built > 0

LEMMA TypeInit == Init => TypeOK
<1> SUFFICES ASSUME Init PROVE TypeOK
  BY Zenon
<1>1. <<>> \in Seq(Msgs)
  BY Zenon, EmptySeq
<1>2. queues \in [1..built -> Seq(Msgs)]
  BY Zenon, <1>1 DEF Init
<1>3. 0 \in 0..MaxPush /\ built \in Nat /\ 0 \in Nat
  BY PCAssumption DEF Init
<1> QED
  BY Zenon, <1>2, <1>3 DEF Init, TypeOK, ClientPoints, SenderPoints, Early

LEMMA QueueEntries ==
  ASSUME NEW q \in Seq(Msgs)
  PROVE  In(q) \subseteq Msgs
  BY Zenon, ElementOfSeq, LenProperties DEF In

LEMMA TypeNext == TypeOK /\ OrderInv /\ [Next]_vars => TypeOK'
<1> SUFFICES ASSUME TypeOK, OrderInv, [Next]_vars PROVE TypeOK'
  BY Zenon
<1> USE PCAssumption DEF TypeOK, ClientPoints, SenderPoints, connection, handler, senders, history,
    Goto, Early
<1>1. ASSUME Construct
      PROVE  /\ built' \in Nat /\ queues' \in [1..built' -> Seq(Msgs)]
             /\ 1..built \subseteq 1..built'
  <2>1. <<>> \in Seq(Msgs)
    BY Zenon, EmptySeq
  <2> QED
    BY <1>1, <2>1 DEF Construct
<1>2. CASE ClientNew
  <2>1. Construct
    BY Zenon, <1>2 DEF ClientNew
  <2> QED
    BY Zenon, <1>1, <1>2, <2>1 DEF ClientNew, Construct
<1>3. CASE \/ CheckModel \/ ConnectFails \/ Connect \/ ClientGet \/ Register
           \/ SetInitialNotify \/ ReceiveError \/ WaitTimesOut \/ WaitStopped \/ Close \/ Stop
  BY Zenon, <1>3 DEF CheckModel, ConnectFails, Connect, ClientGet, Register, SetInitialNotify,
     ReceiveError, WaitTimesOut, WaitStopped, Close, Stop
<1>4. ASSUME NEW s \in Senders, Report(s) PROVE TypeOK'
  <2>1. made[s] + 1 \in 1..MaxPush /\ made[s] + 1 \in 0..MaxPush
    BY <1>4 DEF Report
  <2> QED
    BY Zenon, <1>4, <2>1 DEF Report
<1>5. ASSUME NEW s \in Senders, SenderNew(s) PROVE TypeOK'
  <2>1. Construct
    BY Zenon, <1>5 DEF SenderNew
  <2> QED
    BY Zenon, <1>1, <1>5, <2>1 DEF SenderNew, Construct
<1>6. ASSUME NEW s \in Senders, PushDropped(s) \/ Push(s) PROVE TypeOK'
  <2>1. Msg(s) \in Msgs /\ 0 \in Nat
    BY Zenon, <1>6 DEF PushDropped, Push, Msg, Msgs
  <2>2. CASE PushDropped(s)
    BY Zenon, <2>1, <2>2 DEF PushDropped
  <2>3. CASE Push(s)
    <3>1. Append(queues[at[s]], Msg(s)) \in Seq(Msgs)
      BY Zenon, <2>1, <2>3, AppendProperties DEF Push
    <3>2. queues' \in [1..built -> Seq(Msgs)]
      BY Zenon, <2>3, <3>1 DEF Push
    <3> QED
      BY Zenon, <2>1, <2>3, <3>2 DEF Push
  <2> QED
    BY Zenon, <1>6, <2>2, <2>3
<1>7. ASSUME NEW s \in Senders, Pop(s) PROVE TypeOK'
  <2>1. queues[at[s]] \in Seq(Msgs) /\ 0 \in Nat
    BY Zenon, <1>7 DEF Pop
  <2>2. Head(queues[at[s]]) \in Msgs /\ Tail(queues[at[s]]) \in Seq(Msgs)
    BY Zenon, <1>7, <2>1, HeadTailProperties DEF Pop
  <2>3. Head(queues[at[s]]) # NoMsg
    BY Zenon, <2>2
  <2>4. queues' \in [1..built -> Seq(Msgs)]
    BY Zenon, <1>7, <2>2 DEF Pop
  <2> QED
    BY Zenon, <1>7, <2>1, <2>2, <2>3, <2>4 DEF Pop
<1>8. ASSUME NEW s \in Senders, PopTimesOut(s) \/ SendRetries(s) PROVE TypeOK'
  <2>1. 0 \in Nat
    OBVIOUS
  <2>2. CASE PopTimesOut(s)
    BY Zenon, <2>1, <2>2 DEF PopTimesOut
  <2>3. CASE SendRetries(s)
    BY Zenon, <2>3 DEF SendRetries
  <2> QED
    BY Zenon, <1>8, <2>2, <2>3
<1>11. ASSUME NEW s \in Senders, OrderInv, Accept(s) \/ Fetch(s) PROVE TypeOK'
  <2>1. built \in 1..built
    BY <1>11 DEF OrderInv, Accept, Fetch
  <2> QED
    BY Zenon, <1>11, <2>1 DEF Accept, Fetch
<1>9. ASSUME NEW s \in Senders, SendSucceeds(s) \/ SendGivesUp(s) PROVE TypeOK'
  BY ZenonT(40), <1>9 DEF SendSucceeds, SendGivesUp
<1>10. CASE UNCHANGED vars
  BY Zenon, <1>10 DEF vars
<1> QED
  BY Zenon, <1>2, <1>3, <1>4, <1>5, <1>6, <1>7, <1>8, <1>9, <1>10, <1>11 DEF Next, ClientStep, SenderStep
-----------------------------------------------------------------------------
(* Nothing is sent before the connection has been made.                    *)

LEMMA OrderInit == Init => OrderInv
  BY Zenon DEF Init, OrderInv

LEMMA OrderNext == TypeOK /\ OrderInv /\ [Next]_vars => OrderInv'
<1> SUFFICES ASSUME TypeOK, OrderInv, [Next]_vars PROVE OrderInv'
  BY Zenon
<1> USE DEF TypeOK, ClientPoints, SenderPoints, connection, handler, senders, history, Goto,
    OrderInv, Early
<1>1. CASE ClientNew
  BY <1>1 DEF ClientNew, Construct
<1>2. CASE CheckModel \/ ConnectFails \/ Connect \/ ClientGet \/ Register
  BY <1>2 DEF CheckModel, ConnectFails, Connect, ClientGet, Register
<1>3. CASE SetInitialNotify \/ ReceiveError \/ WaitTimesOut \/ WaitStopped \/ Close \/ Stop
  BY <1>3 DEF SetInitialNotify, ReceiveError, WaitTimesOut, WaitStopped, Close, Stop
<1>4. ASSUME NEW s \in Senders, Report(s) PROVE OrderInv'
  BY Zenon, <1>4 DEF Report
<1>5. ASSUME NEW s \in Senders, SenderNew(s) PROVE OrderInv'
  BY <1>5 DEF SenderNew, Construct
<1>6. ASSUME NEW s \in Senders,
             \/ PushDropped(s) \/ Accept(s) \/ Push(s) \/ Fetch(s) \/ Pop(s) \/ PopTimesOut(s)
      PROVE  OrderInv'
  <2>1. CASE PushDropped(s)
    BY Zenon, <2>1 DEF PushDropped
  <2>5. CASE PopTimesOut(s)
    BY Zenon, <2>5 DEF PopTimesOut
  <2>4. CASE Push(s)
    BY Zenon, <2>4 DEF Push
  <2>2. CASE Accept(s)
    BY Zenon, <2>2 DEF Accept
  <2>3. CASE Fetch(s) \/ Pop(s)
    BY Zenon, <2>3 DEF Fetch, Pop
  <2> QED
    BY Zenon, <1>6, <2>1, <2>2, <2>3, <2>4, <2>5
<1>7. ASSUME NEW s \in Senders, SendSucceeds(s) \/ SendRetries(s) \/ SendGivesUp(s) PROVE OrderInv'
  BY Zenon, <1>7 DEF SendSucceeds, SendRetries, SendGivesUp
<1>8. CASE UNCHANGED vars
  BY Zenon, <1>8 DEF vars
<1> QED
  BY Zenon, <1>1, <1>2, <1>3, <1>4, <1>5, <1>6, <1>7, <1>8 DEF Next, ClientStep, SenderStep

\* No sender uses libparodus_instance before connect_parodus has set it.
THEOREM ConnectedFirst == Spec => []SendsAfterConnect
<1>1. OrderInv => SendsAfterConnect
  BY Zenon DEF OrderInv, SendsAfterConnect
<1> QED
  BY <1>1, TypeInit, TypeNext, OrderInit, OrderNext, PTL DEF Spec
-----------------------------------------------------------------------------
(* The queue.                                                              *)

Popping == {s \in Senders : pc[s] = "fetch" \/ (pc[s] = "pop" /\ at[s] = built)}
Matched == built > 0 => /\ Len(queues[built]) <= Cardinality(Popping)
                        /\ built = 1 => Len(queues[built]) = Cardinality(Popping)

LEMMA SubsetsFinite ==
  ASSUME NEW S \in SUBSET Senders
  PROVE  IsFiniteSet(S) /\ Cardinality(S) \in Nat
  BY Zenon, PCAssumption, FS_Subset, FS_CardinalityType

\* The new queue of a second handler is empty, and before the first one there
\* is nobody to pop.
LEMMA PopsConstruct ==
  ASSUME TypeOK, OrderInv, Construct,
         \A s \in Senders : pc'[s] \in {"fetch", "pop"} => pc[s] \in {"fetch", "pop"}
  PROVE  Matched'
<1>1. built' = built + 1 /\ built' \in 1..built' /\ Len(queues'[built']) = 0
  BY DEF Construct, TypeOK
<1>2. Popping' \subseteq Senders
  BY Zenon DEF Popping
<1>3. Cardinality(Popping') \in Nat
  BY Zenon, <1>2, SubsetsFinite
<1>4. ASSUME built' = 1 PROVE Cardinality(Popping') = 0
  <2>1. ~ callback
    BY <1>1, <1>4 DEF TypeOK, OrderInv
  <2>2. Popping' = {}
    BY Zenon, <2>1 DEF OrderInv, Popping
  <2> QED
    BY Zenon, <2>2, FS_EmptySet
<1> QED
  BY <1>1, <1>3, <1>4 DEF Matched

\* A push to a queue that has been replaced leaves its pop to the new one.
LEMMA PopsPush ==
  ASSUME TypeOK, Matched, NEW s \in Senders, Push(s)
  PROVE  Matched'
<1>1. at[s] \in 1..built /\ built' = built /\ built \in 1..built
  BY DEF Push, TypeOK
<1>2. Popping' = Popping \cup {s} /\ s \notin Popping /\ Popping \subseteq Senders
  BY Zenon DEF Push, Goto, Popping, TypeOK
<1>3. Cardinality(Popping') = Cardinality(Popping) + 1 /\ Cardinality(Popping) \in Nat
  BY Zenon, <1>2, SubsetsFinite, FS_AddElement
<1>4. Msg(s) \in Msgs
  BY Zenon DEF Push, Msg, Msgs, TypeOK, Early
<1>5. queues[built] \in Seq(Msgs) /\ Len(queues[built]) \in Nat
  BY Zenon, <1>1, LenProperties DEF TypeOK
<1>6. CASE at[s] = built
  <2>1. Len(queues'[built]) = Len(queues[built]) + 1
    BY <1>1, <1>4, <1>5, <1>6, AppendProperties DEF Push, TypeOK
  <2> QED
    BY <1>1, <1>3, <1>5, <2>1 DEF Matched, TypeOK
<1>7. CASE at[s] # built
  <2>1. queues'[built] = queues[built]
    BY Zenon, <1>1, <1>7 DEF Push, TypeOK
  <2>2. built # 1
    BY <1>1, <1>7
  <2> QED
    BY <1>1, <1>3, <1>5, <2>1, <2>2 DEF Matched, TypeOK
<1> QED
  BY Zenon, <1>6, <1>7

LEMMA PopsPop ==
  ASSUME TypeOK, Matched, NEW s \in Senders, Pop(s) \/ PopTimesOut(s)
  PROVE  Matched'
<1>1. at[s] \in 1..built /\ built' = built /\ built \in 1..built /\ pc[s] = "pop"
  BY DEF Pop, PopTimesOut, TypeOK, handler
<1>2. queues[built] \in Seq(Msgs) /\ Len(queues[built]) \in Nat
  BY Zenon, <1>1, LenProperties DEF TypeOK
<1>3. CASE at[s] = built
  <2>1. Popping' = Popping \ {s} /\ s \in Popping /\ Popping \subseteq Senders
    BY Zenon, <1>1, <1>3 DEF Pop, PopTimesOut, Goto, Popping, TypeOK
  <2>2. Cardinality(Popping') = Cardinality(Popping) - 1
    BY Zenon, <2>1, SubsetsFinite, FS_RemoveElement
  <2>3. Cardinality(Popping') \in Nat /\ Cardinality(Popping) \in Nat
    BY Zenon, <2>1, SubsetsFinite
  <2>4. CASE Pop(s)
    <3>1. Len(queues'[built]) = Len(queues[built]) - 1
      BY Zenon, <1>1, <1>2, <1>3, <2>4, HeadTailProperties DEF Pop, TypeOK
    <3> QED
      BY <1>1, <1>2, <2>2, <2>3, <3>1 DEF Matched, TypeOK
  <2>5. CASE PopTimesOut(s)
    <3>1. queues' = queues /\ Len(queues[built]) = 0
      BY Zenon, <1>3, <2>5 DEF PopTimesOut, handler
    <3> QED
      BY <1>1, <2>2, <2>3, <3>1 DEF Matched, TypeOK
  <2> QED
    BY Zenon, <2>4, <2>5
<1>4. CASE at[s] # built
  <2>1. Popping' = Popping
    BY Zenon, <1>1, <1>4 DEF Pop, PopTimesOut, Goto, Popping, TypeOK
  <2>2. queues'[built] = queues[built]
    BY Zenon, <1>1, <1>4 DEF Pop, PopTimesOut, TypeOK, handler
  <2> QED
    BY Zenon, <1>1, <2>1, <2>2 DEF Matched
<1> QED
  BY Zenon, <1>3, <1>4

LEMMA PopsNext == TypeOK /\ OrderInv /\ Matched /\ [Next]_vars => Matched'
<1> SUFFICES ASSUME TypeOK, OrderInv, Matched, [Next]_vars PROVE Matched'
  BY Zenon
<1> USE DEF connection, handler, senders, history, Goto
<1>1. ASSUME Popping' = Popping, UNCHANGED <<queues, built>> PROVE Matched'
  BY Zenon, <1>1 DEF Matched
<1>2. CASE ClientNew
  BY Zenon, <1>2, PopsConstruct DEF ClientNew
<1>3. ASSUME NEW s \in Senders, SenderNew(s) PROVE Matched'
  BY Zenon, <1>3, PopsConstruct DEF SenderNew, TypeOK
<1>4. ASSUME NEW s \in Senders, Push(s) \/ Pop(s) \/ PopTimesOut(s) PROVE Matched'
  BY Zenon, <1>4, PopsPush, PopsPop
<1>5. ASSUME NEW s \in Senders, Accept(s) \/ Fetch(s) PROVE Matched'
  <2>1. Popping' = Popping /\ UNCHANGED <<queues, built>>
    BY Zenon, <1>5 DEF Accept, Fetch, Popping, TypeOK
  <2> QED
    BY Zenon, <1>1, <2>1
<1>6. ASSUME NEW s \in Senders,
             \/ Report(s) \/ PushDropped(s) \/ SendSucceeds(s) \/ SendRetries(s) \/ SendGivesUp(s)
      PROVE  Matched'
  <2>1. Popping' = Popping /\ UNCHANGED <<queues, built>>
    BY Zenon, <1>6 DEF Report, PushDropped, SendSucceeds, SendRetries, SendGivesUp, Popping, TypeOK
  <2> QED
    BY Zenon, <1>1, <2>1
<1>7. CASE \/ CheckModel \/ ConnectFails \/ Connect \/ ClientGet \/ Register
           \/ SetInitialNotify \/ ReceiveError \/ WaitTimesOut \/ WaitStopped \/ Close \/ Stop
           \/ UNCHANGED vars
  <2>1. Popping' = Popping /\ UNCHANGED <<queues, built>>
    BY Zenon, <1>7 DEF CheckModel, ConnectFails, Connect, ClientGet, Register, SetInitialNotify,
       ReceiveError, WaitTimesOut, WaitStopped, Close, Stop, vars, Popping
  <2> QED
    BY Zenon, <1>1, <2>1
<1> QED
  BY Zenon, <1>2, <1>3, <1>4, <1>5, <1>6, <1>7 DEF Next, ClientStep, SenderStep

\* As many entries wait as there are threads on their way to a pop; when a
\* second handler is constructed, no more than that.
THEOREM PushesPopped == Spec => []PopsMatchEntries
<1>1. Init => Matched
  <2> SUFFICES ASSUME Init, built > 0 PROVE Matched
    BY Zenon DEF Matched
  <2>1. Popping = {} /\ built \in 1..built /\ Len(queues[built]) = 0
    BY PCAssumption DEF Init, Popping
  <2>2. Cardinality(Popping) = 0
    BY Zenon, <2>1, FS_EmptySet
  <2> QED
    BY <2>1, <2>2 DEF Matched
<1>2. Matched => PopsMatchEntries
  BY Zenon DEF Matched, Popping, PopsMatchEntries
<1> QED
  BY <1>1, <1>2, TypeInit, TypeNext, OrderInit, OrderNext, PopsNext, PTL DEF Spec
-----------------------------------------------------------------------------
(* The pauses of connect_parodus.                                          *)

\* The exponent, the pause to come and the last pause belong together.
BackoffInv ==
  \/ c = 2 /\ backoff = 0 /\ slept \in {0, 31}
  \/ c = 3 /\ backoff = 3 /\ slept = 3
  \/ c = 4 /\ backoff = 7 /\ slept = 7
  \/ c = 5 /\ backoff = 15 /\ slept = 15

LEMMA Powers == 2^2 = 4 /\ 2^3 = 8 /\ 2^4 = 16 /\ 2^5 = 32
  OBVIOUS

\* connect_parodus pauses 3, 7, 15 and 31 seconds and starts over, however
\* often it fails.
THEOREM BackoffSequence == Spec => BackoffDoubles
<1> DEFINE Doubled == slept' # slept /\ client' = "connect" =>
                        slept' = (IF slept \in {0, MaxRetrySleep} THEN 3 ELSE 2 * slept + 1)
<1> USE DEF MaxRetrySleep
<1>1. Init => BackoffInv
  BY Zenon DEF Init, BackoffInv
<1>2. BackoffInv /\ ConnectFails => BackoffInv' /\ Doubled
  <2>1. /\ c = 2 => 2^c = 4
        /\ c = 3 => 2^c = 8
        /\ c = 4 => 2^c = 16
        /\ c = 5 => 2^c = 32
    BY Powers, Zenon
  <2>2. BackoffInv => Pause = IF c = 2 THEN 3 ELSE 2 * slept + 1
    BY <2>1 DEF BackoffInv, Pause
  <2> QED
    BY <2>2 DEF BackoffInv, ConnectFails
<1>3. Connect => BackoffInv' /\ Doubled
  BY Zenon DEF Connect, BackoffInv
<1>4. BackoffInv /\ [Next]_vars => BackoffInv' /\ Doubled
  <2> SUFFICES ASSUME BackoffInv, [Next]_vars, ~ ConnectFails, ~ Connect
               PROVE  UNCHANGED <<c, backoff, slept>>
    BY Zenon, <1>2, <1>3 DEF BackoffInv
  <2> QED
    BY Zenon DEF Next, ClientStep, SenderStep, CheckModel, ClientGet, ClientNew, Register,
       SetInitialNotify, ReceiveError, WaitTimesOut, WaitStopped, Close, Stop, Report, SenderNew,
       PushDropped, Accept, Push, Fetch, Pop, PopTimesOut, SendSucceeds, SendRetries, SendGivesUp, vars,
       connection
<1> HIDE DEF Doubled
<1>5. BackoffInv /\ [Next]_vars => [Doubled]_vars
  BY Zenon, <1>4
<1>6. BackoffInv /\ [Next]_vars => BackoffInv'
  BY Zenon, <1>4
<1>7. [][Doubled]_vars => BackoffDoubles
  BY PTL DEF Doubled, BackoffDoubles
<1> QED
  BY <1>1, <1>5, <1>6, <1>7, PTL DEF Spec
-----------------------------------------------------------------------------
(* The notification path keeps the promise of NotifyChannel.               *)

Distinct(q) == \A i, j \in DOMAIN q : q[i] = q[j] => i = j

LEMMA AppendEntries ==
  ASSUME NEW q \in Seq(Msgs), NEW m \in Msgs
  PROVE  /\ In(Append(q, m)) = In(q) \cup {m}
         /\ Distinct(q) /\ m \notin In(q) => Distinct(Append(q, m))
<1>1. /\ Len(q) \in Nat /\ DOMAIN q = 1..Len(q) /\ DOMAIN Append(q, m) = 1..(Len(q) + 1)
      /\ \A i \in 1..Len(q) : Append(q, m)[i] = q[i]
      /\ Append(q, m)[Len(q) + 1] = m
  BY AppendProperties, LenProperties
<1>2. \A i \in 1..(Len(q) + 1) : i \in 1..Len(q) \/ i = Len(q) + 1
  BY <1>1
<1>3. 1..Len(q) \subseteq 1..(Len(q) + 1) /\ Len(q) + 1 \in 1..(Len(q) + 1)
  BY <1>1
<1> QED
  BY Zenon, <1>1, <1>2, <1>3 DEF In, Distinct

LEMMA TailEntries ==
  ASSUME NEW q \in Seq(Msgs), q # <<>>
  PROVE  /\ In(q) = In(Tail(q)) \cup {Head(q)}
         /\ Distinct(q) => Distinct(Tail(q)) /\ Head(q) \notin In(Tail(q))
<1>1. /\ Len(q) \in Nat \ {0} /\ DOMAIN q = 1..Len(q) /\ DOMAIN Tail(q) = 1..(Len(q) - 1)
      /\ \A i \in 1..(Len(q) - 1) : Tail(q)[i] = q[i + 1]
      /\ Head(q) = q[1]
  BY HeadTailProperties, LenProperties, EmptySeq
<1>2. /\ 1 \in 1..Len(q)
      /\ \A i \in 1..(Len(q) - 1) : i + 1 \in 1..Len(q) /\ i + 1 # 1
      /\ \A i \in 1..Len(q) : i = 1 \/ (i - 1 \in 1..(Len(q) - 1) /\ i = (i - 1) + 1)
      /\ \A i, j \in 1..(Len(q) - 1) : i + 1 = j + 1 => i = j
  BY <1>1
<1>3. In(Tail(q)) \cup {Head(q)} \subseteq In(q)
  BY <1>1, <1>2 DEF In
<1>4. ASSUME NEW x \in In(q) PROVE x \in In(Tail(q)) \cup {Head(q)}
  <2>1. PICK i \in 1..Len(q) : x = q[i]
    BY Zenon, <1>1 DEF In
  <2>2. CASE i = 1
    BY Zenon, <1>1, <2>1, <2>2
  <2>3. CASE i # 1
    <3>1. i - 1 \in DOMAIN Tail(q) /\ Tail(q)[i - 1] = q[i]
      BY Zenon, <1>1, <1>2, <2>1, <2>3
    <3> QED
      BY Zenon, <2>1, <3>1 DEF In
  <2> QED
    BY Zenon, <2>2, <2>3
<1>5. Distinct(q) => Distinct(Tail(q))
  BY <1>1, <1>2 DEF Distinct
<1>6. Distinct(q) => Head(q) \notin In(Tail(q))
  BY <1>1, <1>2 DEF Distinct, In
<1> QED
  BY Zenon, <1>3, <1>4, <1>5, <1>6

Settled == dropped \cup sent \cup failed
Used == Entries \cup Popped \cup Settled

\* Each notification is in one place at a time, and the one a sender is about
\* to push is nowhere yet.
MsgsInv ==
  /\ \A k \in 1..built : Distinct(queues[k])
  /\ \A k, l \in 1..built : k # l => In(queues[k]) \cap In(queues[l]) = {}
  /\ Entries \cap Popped = {}
  /\ \A s, t \in Senders : item[s] = item[t] /\ item[s] # NoMsg => s = t
  /\ (Entries \cup Popped) \cap Settled = {}
  /\ \A s \in Senders : pc[s] \in Early => Msg(s) \notin Used
  /\ \A m \in Used : m[2] <= made[m[1]]

LEMMA MsgsInit == Init => MsgsInv
<1> SUFFICES ASSUME Init PROVE MsgsInv
  BY Zenon
<1>1. \A k \in 1..built : In(queues[k]) = {} /\ Distinct(queues[k])
  BY DEF Init, In, Distinct
<1>2. Entries = {} /\ Popped = {} /\ Settled = {} /\ Used = {}
  BY Zenon, <1>1 DEF Init, Entries, Popped, Settled, Used
<1> QED
  BY Zenon, <1>1, <1>2 DEF Init, MsgsInv

LEMMA UsedMsgs == TypeOK => Used \subseteq Msgs /\ Entries \subseteq Msgs
  BY Zenon, QueueEntries DEF TypeOK, Used, Settled, Popped, Entries
-----------------------------------------------------------------------------
(* What is left behind in a queue that was replaced.                       *)

Waiting(m) == pc[m[1]] \in {"fetch", "pop"} /\ made[m[1]] = m[2]
Left == {l \in 1..built : Lost(l)}

LEMMA OrphanedIs ==
  /\ Orphaned \subseteq Entries
  /\ \A m : m \in Orphaned <=> ~ Waiting(m) /\ \E k \in Left : m \in In(queues[k])
  BY Zenon DEF Orphaned, Entries, Waiting, Left

\* It stays there.
LEMMA OrphansStay ==
  ASSUME \A k \in Left : k \in Left' /\ In(queues[k]) \subseteq In(queues'[k]),
         \A m \in Entries : Waiting(m)' => Waiting(m)
  PROVE  Orphaned \subseteq Orphaned'
<1>1. \A m : m \in Orphaned' <=> ~ Waiting(m)' /\ \E k \in Left' : m \in In(queues'[k])
  BY Zenon DEF Orphaned, Waiting, Left, Lost
<1> QED
  BY Zenon, <1>1, OrphanedIs

LEMMA OrphansSame ==
  ASSUME UNCHANGED queues, Left' = Left, \A m \in Entries : Waiting(m)' <=> Waiting(m),
         Entries' = Entries
  PROVE  Orphaned' = Orphaned
<1>1. \A m : m \in Orphaned' <=> ~ Waiting(m)' /\ \E k \in Left' : m \in In(queues'[k])
  BY Zenon DEF Orphaned, Waiting, Left, Lost
<1>2. Orphaned' \subseteq Entries'
  BY Zenon DEF Orphaned, Entries
<1>3. \A m \in Entries : m \in Orphaned' <=> m \in Orphaned
  <2>1. \A k : In(queues'[k]) = In(queues[k])
    BY Zenon
  <2> QED
    BY Zenon, <1>1, <2>1, OrphanedIs
<1> QED
  BY Zenon, <1>2, <1>3, OrphanedIs

\* More of it, and nothing else, is a giving up in the channel.
LEMMA OrphansFail ==
  ASSUME MsgsInv, MsgsInv', UNCHANGED history, Entries' \cup Popped' = Entries \cup Popped,
         Entries' \subseteq Entries, Orphaned \subseteq Orphaned'
  PROVE  [Channel!Next]_(Channel!vars)
<1> DEFINE M == Orphaned' \ Orphaned
           Taken == (Entries \ Orphaned) \cup Popped
           Given == failed \cup Orphaned
<1>1. Orphaned \subseteq Entries /\ Orphaned' \subseteq Entries'
  BY Zenon DEF Orphaned, Entries
<1>2. Entries \cap Popped = {} /\ Entries' \cap Popped' = {}
  BY Zenon DEF MsgsInv
<1>3. Taken' = Taken \ M /\ M \subseteq Taken
  BY Zenon, <1>1, <1>2
<1>4. Given' = Given \cup M /\ UNCHANGED <<dropped, sent>>
  BY Zenon DEF history
<1>5. CASE M = {}
  BY Zenon, <1>3, <1>4, <1>5 DEF Channel!vars
<1>6. CASE M # {}
  <2>1. Channel!Fail(M)
    BY Zenon, <1>3, <1>4, <1>6 DEF Channel!Fail
  <2> QED
    BY Zenon, <1>3, <2>1 DEF Channel!Next
<1> QED
  BY Zenon, <1>5, <1>6
-----------------------------------------------------------------------------
(* The steps, one by one.                                                  *)

\* A step that leaves the queues, and moves no sender to or from its pop but
\* to a pop of the current one.
Still ==
  /\ UNCHANGED <<queues, built, made>>
  /\ \A s \in Senders : /\ pc'[s] = "pop" /\ at'[s] # built => pc[s] = "pop" /\ at'[s] = at[s]
                        /\ pc[s] = "pop" => pc'[s] = "pop" /\ at'[s] = at[s]
                        /\ pc'[s] \in {"fetch", "pop"} <=> pc[s] \in {"fetch", "pop"}
LEMMA OrphansQuiet ==
  ASSUME TypeOK, Still
  PROVE  UNCHANGED <<Entries, Orphaned>>
<1>0. UNCHANGED queues /\ UNCHANGED built /\ UNCHANGED made
  BY Zenon DEF Still
<1>1. Entries' = Entries
  BY Zenon, <1>0 DEF Entries
<1>2. Left' = Left
  <2> SUFFICES ASSUME NEW k \in 1..built PROVE Lost(k)' <=> Lost(k)
    BY Zenon, <1>0 DEF Left
  <2>1. ASSUME Lost(k) PROVE Lost(k)'
    BY Zenon, <1>0, <2>1 DEF Lost, Still
  <2>2. ASSUME Lost(k)' PROVE Lost(k)
    BY Zenon, <1>0, <2>2 DEF Lost, Still
  <2> QED
    BY Zenon, <2>1, <2>2
<1>3. \A m \in Entries : m[1] \in Senders
  BY Zenon, UsedMsgs DEF Msgs
<1>4. \A m \in Entries : Waiting(m)' <=> Waiting(m)
  <2>1. \A s \in Senders : pc'[s] \in {"fetch", "pop"} <=> pc[s] \in {"fetch", "pop"}
    BY Zenon DEF Still
  <2> QED
    BY Zenon, <1>0, <1>3, <2>1 DEF Waiting
<1> QED
  BY Zenon, <1>0, <1>1, <1>2, <1>4, OrphansSame

LEMMA MsgsQuiet ==
  ASSUME TypeOK, MsgsInv, Still, UNCHANGED <<item, history>>,
         \A s \in Senders : pc'[s] \in Early => pc[s] \in Early
  PROVE  MsgsInv' /\ UNCHANGED Channel!vars
<1>1. UNCHANGED <<Entries, Popped, Orphaned>>
  BY Zenon, OrphansQuiet DEF Popped
<1>2. Settled' = Settled /\ Used' = Used
  BY Zenon, <1>1 DEF Settled, Used, history
<1>3. MsgsInv'
  BY Zenon, <1>1, <1>2 DEF MsgsInv, Msg, Still
<1> QED
  BY Zenon, <1>1, <1>3 DEF Channel!vars, history

\* A new handler takes the queue of the old one away.
LEMMA MsgsConstruct ==
  ASSUME TypeOK, MsgsInv, Construct, UNCHANGED <<at, item, made, history>>,
         \A s \in Senders : /\ pc'[s] = "pop" <=> pc[s] = "pop"
                            /\ pc'[s] = "fetch" <=> pc[s] = "fetch"
                            /\ pc'[s] \in Early => pc[s] \in Early
  PROVE  MsgsInv' /\ [Channel!Next]_(Channel!vars)
<1>1. /\ built' = built + 1 /\ 1..built' = 1..built \cup {built'} /\ built' \notin 1..built
      /\ \A k \in 1..built : queues'[k] = queues[k]
      /\ queues'[built'] = <<>>
  BY DEF Construct, TypeOK
<1>2. In(queues'[built']) = {} /\ Distinct(queues'[built'])
  BY <1>1 DEF In, Distinct
<1>3. \A k \in 1..built : In(queues'[k]) = In(queues[k])
  BY Zenon, <1>1
<1>4. Entries' = Entries
  <2>1. \A m : m \in Entries' <=> \E k \in 1..built' : m \in In(queues'[k])
    BY Zenon DEF Entries
  <2>2. \A m : m \in Entries <=> \E k \in 1..built : m \in In(queues[k])
    BY Zenon DEF Entries
  <2>3. \A m : m \in Entries' <=> m \in Entries
    BY Zenon, <1>1, <1>2, <1>3, <2>1, <2>2
  <2> QED
    BY Zenon, <2>3
<1>5. Popped' = Popped /\ Settled' = Settled /\ Used' = Used
  BY Zenon, <1>4 DEF Popped, Settled, Used, history
<1>6. MsgsInv'
  <2>1. \A k \in 1..built' : Distinct(queues'[k])
    BY Zenon, <1>1, <1>2 DEF MsgsInv
  <2>2. \A k, l \in 1..built' : k # l => In(queues'[k]) \cap In(queues'[l]) = {}
    BY Zenon, <1>1, <1>2, <1>3 DEF MsgsInv
  <2>3. \A s \in Senders : pc'[s] \in Early => Msg(s)' \notin Used'
    BY Zenon, <1>5 DEF MsgsInv, Msg
  <2> QED
    BY Zenon, <1>4, <1>5, <2>1, <2>2, <2>3 DEF MsgsInv
<1>7. \A k \in Left : k \in Left' /\ In(queues[k]) \subseteq In(queues'[k])
  <2>1. \A k \in Left : k \in 1..built' /\ k # built'
    BY Zenon, <1>1 DEF Left
  <2>2. \A k \in Left : Lost(k)'
    BY Zenon, <2>1 DEF Left, Lost
  <2> QED
    BY Zenon, <1>3, <2>1, <2>2 DEF Left
<1>8. \A m \in Entries : Waiting(m)' => Waiting(m)
  <2>1. \A m \in Entries : m[1] \in Senders
    BY Zenon, UsedMsgs DEF Msgs
  <2> QED
    BY Zenon, <2>1 DEF Waiting
<1> QED
  BY Zenon, <1>4, <1>5, <1>6, <1>7, <1>8, OrphansStay, OrphansFail


LEMMA MsgsReport ==
  ASSUME TypeOK, MsgsInv, NEW s \in Senders, Report(s)
  PROVE  MsgsInv' /\ UNCHANGED Channel!vars
<1>1. /\ UNCHANGED <<queues, built, at, item, history>> /\ made' = [made EXCEPT ![s] = @ + 1]
      /\ pc[s] = "idle" /\ pc'[s] \in {"new", "push"} /\ \A t \in Senders \ {s} : pc'[t] = pc[t]
  BY Zenon DEF Report, Goto, handler, TypeOK
<1>2. UNCHANGED <<Entries, Popped, Settled, Used>>
  BY Zenon, <1>1 DEF Entries, Popped, Settled, Used, history
<1>3. made[s] \in Nat /\ \A t \in Senders :
        made[t] \in Nat /\ made'[t] \in Nat /\ made[t] <= made'[t]
  BY <1>1, PCAssumption DEF TypeOK
<1>4. \A m \in Used : m[1] \in Senders /\ m[2] \in Nat /\ m[2] <= made[m[1]]
  BY UsedMsgs, PCAssumption DEF MsgsInv, Msgs
<1>5. \A m \in Used' : m[2] <= made'[m[1]]
  BY <1>2, <1>3, <1>4
<1>6. <<s, made[s] + 1>> \notin Used
  <2>1. SUFFICES ASSUME <<s, made[s] + 1>> \in Used PROVE FALSE
    BY Zenon
  <2>2. <<s, made[s] + 1>>[2] <= made[<<s, made[s] + 1>>[1]]
    BY Zenon, <1>4, <2>1
  <2> QED
    BY <1>3, <2>2
<1>7. Msg(s)' = <<s, made[s] + 1>> /\ \A t \in Senders \ {s} : Msg(t)' = Msg(t)
  BY Zenon, <1>1 DEF Msg, TypeOK
<1>8. \A t \in Senders : pc'[t] \in Early => Msg(t)' \notin Used'
  BY Zenon, <1>1, <1>2, <1>6, <1>7 DEF MsgsInv
<1>9. MsgsInv'
  BY Zenon, <1>1, <1>2, <1>5, <1>8 DEF MsgsInv
<1>10. Left' = Left
  <2>1. \A k \in 1..built : Lost(k)' <=> Lost(k)
    BY Zenon, <1>1 DEF Lost
  <2> QED
    BY Zenon, <1>1, <2>1 DEF Left
<1>11. \A m \in Entries : Waiting(m)' <=> Waiting(m)
  <2>1. \A m \in Entries : m[1] \in Senders
    BY Zenon, UsedMsgs DEF Msgs
  <2>2. \A t \in Senders \ {s} : made'[t] = made[t]
    BY Zenon, <1>1 DEF TypeOK
  <2> QED
    BY Zenon, <1>1, <2>1, <2>2 DEF Waiting
<1>12. Orphaned' = Orphaned
  BY Zenon, <1>1, <1>2, <1>10, <1>11, OrphansSame
<1> QED
  BY Zenon, <1>1, <1>2, <1>9, <1>12 DEF Channel!vars, history

\* The notification that is about to be pushed, or dropped, is new.
LEMMA MsgsNew ==
  ASSUME TypeOK, MsgsInv, NEW s \in Senders, pc[s] \in Early, pc'[s] \notin Early, made' = made,
         \A t \in Senders \ {s} : pc'[t] = pc[t]
  PROVE  /\ Msg(s) \in Msgs /\ Msg(s) \notin Used /\ Msg(s)[2] <= made[Msg(s)[1]]
         /\ \A t \in Senders : Msg(t)' = Msg(t)
         /\ \A t \in Senders : pc'[t] \in Early => Msg(t) \notin Used \cup {Msg(s)}
<1>1. Msg(s) \in Msgs /\ Msg(s)[2] <= made[Msg(s)[1]]
  BY PCAssumption DEF TypeOK, Msg, Msgs
<1>2. \A t \in Senders \ {s} : Msg(t) # Msg(s)
  BY Zenon DEF Msg
<1> QED
  BY Zenon, <1>1, <1>2 DEF MsgsInv, Msg

LEMMA MsgsDropped ==
  ASSUME TypeOK, MsgsInv, NEW s \in Senders, PushDropped(s)
  PROVE  MsgsInv' /\ [Channel!Next]_(Channel!vars)
<1>1. /\ UNCHANGED <<queues, built, at, item, made, sent, failed>>
      /\ dropped' = dropped \cup {Msg(s)} /\ pc[s] = "push" /\ pc'[s] = "idle"
      /\ \A t \in Senders \ {s} : pc'[t] = pc[t]
  BY Zenon DEF PushDropped, Goto, handler, TypeOK
<1>2. UNCHANGED <<Entries, Popped, Orphaned>>
  BY Zenon, <1>1, OrphansQuiet DEF Still, Popped
<1>3. Settled' = Settled \cup {Msg(s)} /\ Used' = Used \cup {Msg(s)}
  BY Zenon, <1>1, <1>2 DEF Settled, Used
<1>4. /\ Msg(s) \in Msgs /\ Msg(s) \notin Used /\ Msg(s)[2] <= made[Msg(s)[1]]
      /\ \A t \in Senders : Msg(t)' = Msg(t)
      /\ \A t \in Senders : pc'[t] \in Early => Msg(t) \notin Used \cup {Msg(s)}
  BY Zenon, <1>1, MsgsNew DEF Early
<1>5. (Entries' \cup Popped') \cap Settled' = {}
  BY Zenon, <1>2, <1>3, <1>4 DEF MsgsInv, Used
<1>6. MsgsInv'
  BY Zenon, <1>1, <1>2, <1>3, <1>4, <1>5 DEF MsgsInv
<1>7. Channel!Drop(Msg(s))
  <2>1. Msg(s) \notin dropped \cup ((Entries \ Orphaned) \cup Popped) \cup sent \cup (failed \cup Orphaned)
    BY Zenon, <1>4, OrphanedIs DEF Used, Settled
  <2> QED
    BY Zenon, <1>1, <1>2, <1>4, <2>1 DEF Channel!Drop, Channel!New
<1> QED
  BY Zenon, <1>4, <1>6, <1>7 DEF Channel!Next

LEMMA MsgsPush ==
  ASSUME TypeOK, MsgsInv, NEW s \in Senders, Push(s)
  PROVE  MsgsInv' /\ [Channel!Next]_(Channel!vars)
<1>k. PICK k : k = at[s]
  BY Zenon
<1>m. PICK m : m = Msg(s)
  BY Zenon
<1>1. /\ UNCHANGED <<built, item, made, history>> /\ pc[s] = "put" /\ pc'[s] = "fetch"
      /\ \A t \in Senders \ {s} : pc'[t] = pc[t] /\ at'[t] = at[t]
      /\ k \in 1..built /\ queues[k] \in Seq(Msgs)
      /\ queues'[k] = Append(queues[k], m)
      /\ \A l \in 1..built \ {k} : queues'[l] = queues[l]
  BY Zenon, <1>k, <1>m DEF Push, Goto, TypeOK
<1>2. /\ m \in Msgs /\ m \notin Used /\ m[2] <= made[m[1]]
      /\ \A t \in Senders : Msg(t)' = Msg(t)
      /\ \A t \in Senders : pc'[t] \in Early => Msg(t) \notin Used \cup {m}
  BY Zenon, <1>1, <1>m, MsgsNew DEF Early
<1>3. m \notin Entries /\ m \notin Popped /\ m \notin Settled
  BY Zenon, <1>2 DEF Used
<1>4. m[1] = s /\ m[2] = made[s]
  BY Zenon, <1>m DEF Msg
<1>5. \A l \in 1..built : In(queues[l]) \subseteq Entries
  BY Zenon DEF Entries
<1>6. In(queues'[k]) = In(queues[k]) \cup {m} /\ Distinct(queues'[k])
  BY Zenon, <1>1, <1>2, <1>3, <1>5, AppendEntries DEF MsgsInv
<1>7. \A l \in 1..built \ {k} : In(queues'[l]) = In(queues[l])
  BY Zenon, <1>1
<1>8. Entries' = Entries \cup {m}
  <2>1. \A x : x \in Entries' <=> \E l \in 1..built : x \in In(queues'[l])
    BY Zenon, <1>1 DEF Entries
  <2>2. \A x : x \in Entries <=> \E l \in 1..built : x \in In(queues[l])
    BY Zenon DEF Entries
  <2>3. \A x : x \in Entries' <=> x \in Entries \/ x = m
    BY Zenon, <1>1, <1>6, <1>7, <2>1, <2>2
  <2> QED
    BY Zenon, <2>3
<1>9. Popped' = Popped /\ Settled' = Settled /\ Used' = Used \cup {m}
  BY Zenon, <1>1, <1>8 DEF Popped, Settled, Used, history
<1>10. MsgsInv'
  <2>1. \A l \in 1..built : Distinct(queues'[l])
    BY Zenon, <1>1, <1>6 DEF MsgsInv
  <2>2. \A l \in 1..built : l # k => In(queues'[l]) \cap In(queues'[k]) = {}
    BY Zenon, <1>1, <1>3, <1>5, <1>6, <1>7 DEF MsgsInv
  <2>3. \A j, l \in 1..built : j # l => In(queues'[j]) \cap In(queues'[l]) = {}
    BY Zenon, <1>7, <2>2 DEF MsgsInv
  <2>4. Entries' \cap Popped' = {} /\ (Entries' \cup Popped') \cap Settled' = {}
    BY Zenon, <1>3, <1>8, <1>9 DEF MsgsInv
  <2>5. \A t \in Senders : pc'[t] \in Early => Msg(t)' \notin Used'
    BY Zenon, <1>2, <1>9
  <2>6. \A x \in Used' : x[2] <= made'[x[1]]
    BY Zenon, <1>1, <1>2, <1>9 DEF MsgsInv
  <2> QED
    BY Zenon, <1>1, <2>1, <2>3, <2>4, <2>5, <2>6 DEF MsgsInv
<1>11. Left' = Left
  <2>1. \A l \in 1..built : Lost(l)' <=> Lost(l)
    BY Zenon, <1>1 DEF Lost
  <2> QED
    BY Zenon, <1>1, <2>1 DEF Left
<1>12. \A x \in Entries : Waiting(x)' <=> Waiting(x)
  <2> SUFFICES ASSUME NEW x \in Entries PROVE Waiting(x)' <=> Waiting(x)
    BY Zenon
  <2>1. x \in Msgs /\ x # m
    BY Zenon, <1>3, UsedMsgs
  <2>2. x[1] \in Senders /\ x = <<x[1], x[2]>>
    BY <2>1 DEF Msgs
  <2>3. CASE x[1] = s
    <3>1. x[2] # made[s]
      BY Zenon, <1>m, <2>1, <2>2, <2>3 DEF Msg
    <3> QED
      BY Zenon, <1>1, <2>3, <3>1 DEF Waiting
  <2>4. CASE x[1] # s
    BY Zenon, <1>1, <2>2, <2>4 DEF Waiting
  <2> QED
    BY Zenon, <2>3, <2>4
<1>13. Orphaned' = Orphaned
  <2>1. \A x : x \in Orphaned' <=> ~ Waiting(x)' /\ \E l \in Left' : x \in In(queues'[l])
    BY Zenon DEF Orphaned, Waiting, Left, Lost
  <2>2. Waiting(m)'
    BY Zenon, <1>1, <1>4 DEF Waiting
  <2>3. \A x : x # m => \A l \in Left : x \in In(queues'[l]) <=> x \in In(queues[l])
    BY Zenon, <1>6, <1>7 DEF Left
  <2>4. m \notin Orphaned /\ m \notin Orphaned'
    BY Zenon, <1>3, <2>1, <2>2, OrphanedIs
  <2>5. \A x : \A l \in Left : x \in In(queues[l]) => x \in Entries
    BY Zenon, <1>5 DEF Left
  <2>6. \A x : x # m => (x \in Orphaned' <=> x \in Orphaned)
    BY Zenon, <1>11, <1>12, <2>1, <2>3, <2>5, OrphanedIs
  <2>7. \A x : x \in Orphaned' <=> x \in Orphaned
    BY Zenon, <2>4, <2>6
  <2> QED
    BY Zenon, <2>7
<1>14. Channel!Take(m)
  <2>1. m \notin dropped \cup ((Entries \ Orphaned) \cup Popped) \cup sent \cup (failed \cup Orphaned)
    BY Zenon, <1>3, OrphanedIs DEF Settled
  <2>2. (Entries' \ Orphaned') \cup Popped' = ((Entries \ Orphaned) \cup Popped) \cup {m}
    BY Zenon, <1>3, <1>8, <1>9, <1>13, OrphanedIs
  <2> QED
    BY Zenon, <1>1, <1>2, <1>13, <2>1, <2>2 DEF Channel!Take, Channel!New, history
<1> QED
  BY Zenon, <1>2, <1>10, <1>14 DEF Channel!Next

\* The end of a pop may leave a replaced queue to nobody.
LEMMA MsgsLeave ==
  ASSUME TypeOK, MsgsInv, MsgsInv', NEW s \in Senders, UNCHANGED <<built, made, history>>,
         pc[s] = "pop", pc'[s] \notin {"fetch", "pop"},
         \A t \in Senders \ {s} : pc'[t] = pc[t] /\ at'[t] = at[t],
         \A l \in 1..built \ {at[s]} : queues'[l] = queues[l],
         Entries' \cup Popped' = Entries \cup Popped, Entries' \subseteq Entries
  PROVE  [Channel!Next]_(Channel!vars)
<1>1. \A k \in Left : k \in Left' /\ In(queues[k]) \subseteq In(queues'[k])
  <2> SUFFICES ASSUME NEW k \in Left
               PROVE  k \in Left' /\ In(queues[k]) \subseteq In(queues'[k])
    BY Zenon
  <2>1. k \in 1..built /\ Lost(k) /\ k # at[s]
    BY Zenon DEF Left, Lost
  <2>2. queues'[k] = queues[k]
    BY Zenon, <2>1
  <2>3. Lost(k)'
    BY Zenon, <2>1 DEF Lost
  <2> QED
    BY Zenon, <2>1, <2>2, <2>3 DEF Left
<1>2. \A m \in Entries : Waiting(m)' => Waiting(m)
  <2>1. \A m \in Entries : m[1] \in Senders
    BY Zenon, UsedMsgs DEF Msgs
  <2> QED
    BY Zenon, <2>1 DEF Waiting
<1> QED
  BY Zenon, <1>1, <1>2, OrphansStay, OrphansFail

LEMMA MsgsPop ==
  ASSUME TypeOK, MsgsInv, NEW s \in Senders, Pop(s)
  PROVE  MsgsInv' /\ [Channel!Next]_(Channel!vars)
<1>k. PICK k : k = at[s]
  BY Zenon
<1>h. PICK h : h = Head(queues[k])
  BY Zenon
<1>1. /\ UNCHANGED <<built, made, history>> /\ pc[s] = "pop" /\ pc'[s] = "send"
      /\ \A t \in Senders \ {s} : pc'[t] = pc[t] /\ at'[t] = at[t] /\ item'[t] = item[t]
      /\ k \in 1..built /\ queues[k] \in Seq(Msgs) /\ queues[k] # <<>>
      /\ queues'[k] = Tail(queues[k]) /\ item[s] = NoMsg /\ item'[s] = h
      /\ \A l \in 1..built \ {k} : queues'[l] = queues[l]
  BY Zenon, <1>k, <1>h DEF Pop, Goto, TypeOK
<1>2. h \in Msgs /\ h # NoMsg
  BY <1>1, <1>h, HeadTailProperties, PCAssumption
<1>3. In(queues[k]) = In(queues'[k]) \cup {h} /\ Distinct(queues'[k]) /\ h \notin In(queues'[k])
  <2>1. Distinct(queues[k])
    BY Zenon, <1>1 DEF MsgsInv
  <2>2. In(queues[k]) = In(Tail(queues[k])) \cup {h} /\ Distinct(Tail(queues[k]))
        /\ h \notin In(Tail(queues[k]))
    BY Zenon, <1>1, <1>h, <2>1, TailEntries
  <2> QED
    BY Zenon, <1>1, <2>2
<1>4. \A l \in 1..built \ {k} : In(queues'[l]) = In(queues[l]) /\ h \notin In(queues[l])
  BY Zenon, <1>1, <1>3 DEF MsgsInv
<1>5. Entries = Entries' \cup {h} /\ h \notin Entries'
  <2>1. \A x : x \in Entries' <=> \E l \in 1..built : x \in In(queues'[l])
    BY Zenon, <1>1 DEF Entries
  <2>2. \A x : x \in Entries <=> \E l \in 1..built : x \in In(queues[l])
    BY Zenon DEF Entries
  <2>3. \A x : x \in Entries <=> x \in Entries' \/ x = h
    BY Zenon, <1>1, <1>3, <1>4, <2>1, <2>2
  <2>4. h \notin Entries'
    BY Zenon, <1>3, <1>4, <2>1
  <2> QED
    BY Zenon, <2>3, <2>4
<1>6. Popped' = Popped \cup {h}
  <2>1. \A x : x \in Popped' <=> x # NoMsg /\ \E t \in Senders : x = item'[t]
    BY Zenon DEF Popped
  <2>2. \A x : x \in Popped <=> x # NoMsg /\ \E t \in Senders : x = item[t]
    BY Zenon DEF Popped
  <2>3. ASSUME NEW x, x \in Popped' PROVE x \in Popped \/ x = h
    <3>1. PICK t \in Senders : x = item'[t] /\ x # NoMsg
      BY Zenon, <2>1, <2>3
    <3>2. CASE t = s
      BY Zenon, <1>1, <3>1, <3>2
    <3>3. CASE t \in Senders \ {s}
      BY Zenon, <1>1, <2>2, <3>1, <3>3
    <3> QED
      BY Zenon, <3>2, <3>3
  <2>4. ASSUME NEW x, x \in Popped PROVE x \in Popped'
    <3>1. PICK t \in Senders : x = item[t] /\ x # NoMsg
      BY Zenon, <2>2, <2>4
    <3>2. t \in Senders \ {s}
      BY Zenon, <1>1, <3>1
    <3> QED
      BY Zenon, <1>1, <2>1, <3>1, <3>2
  <2>5. h \in Popped'
    BY Zenon, <1>1, <1>2, <2>1
  <2> QED
    BY Zenon, <2>3, <2>4, <2>5
<1>7. Settled' = Settled /\ Used' = Used
  BY Zenon, <1>1, <1>5, <1>6 DEF Settled, Used, history
<1>8. MsgsInv'
  <2>1. \A l \in 1..built : Distinct(queues'[l])
    BY Zenon, <1>1, <1>3 DEF MsgsInv
  <2>2. \A l \in 1..built : In(queues'[l]) \subseteq In(queues[l])
    BY Zenon, <1>3, <1>4
  <2>3. \A j, l \in 1..built : j # l => In(queues'[j]) \cap In(queues'[l]) = {}
    BY Zenon, <2>2 DEF MsgsInv
  <2>4. Entries' \cap Popped' = {} /\ (Entries' \cup Popped') \cap Settled' = {}
    BY Zenon, <1>5, <1>6, <1>7 DEF MsgsInv
  <2>5. \A t \in Senders : item[t] # h
    BY Zenon, <1>2, <1>5 DEF MsgsInv, Popped
  <2>6. \A t, u \in Senders : item'[t] = item'[u] /\ item'[t] # NoMsg => t = u
    BY Zenon, <1>1, <2>5 DEF MsgsInv
  <2>7. \A t \in Senders : pc'[t] \in Early => Msg(t)' \notin Used'
    BY Zenon, <1>1, <1>7 DEF MsgsInv, Msg, Early
  <2> QED
    BY Zenon, <1>1, <1>7, <2>1, <2>3, <2>4, <2>6, <2>7 DEF MsgsInv
<1>9. Entries' \cup Popped' = Entries \cup Popped /\ Entries' \subseteq Entries
  BY Zenon, <1>5, <1>6
<1> QED
  BY Zenon, <1>k, <1>1, <1>8, <1>9, MsgsLeave

LEMMA MsgsTimeOut ==
  ASSUME TypeOK, MsgsInv, NEW s \in Senders, PopTimesOut(s)
  PROVE  MsgsInv' /\ [Channel!Next]_(Channel!vars)
<1>1. /\ UNCHANGED <<queues, built, item, made, history>> /\ pc[s] = "pop" /\ pc'[s] = "idle"
      /\ \A t \in Senders \ {s} : pc'[t] = pc[t] /\ at'[t] = at[t]
  BY Zenon DEF PopTimesOut, Goto, handler, TypeOK
<1>2. UNCHANGED <<Entries, Popped, Settled, Used>>
  BY Zenon, <1>1 DEF Entries, Popped, Settled, Used, history
<1>3. MsgsInv'
  BY Zenon, <1>1, <1>2 DEF MsgsInv, Msg, Early
<1> QED
  BY Zenon, <1>1, <1>2, <1>3, MsgsLeave

LEMMA MsgsSend ==
  ASSUME TypeOK, MsgsInv, NEW s \in Senders, SendSucceeds(s) \/ SendGivesUp(s)
  PROVE  MsgsInv' /\ [Channel!Next]_(Channel!vars)
<1>i. PICK i : i = item[s]
  BY Zenon
<1>1. /\ UNCHANGED <<queues, built, made, at, dropped>>
      /\ \A t \in Senders \ {s} : pc'[t] = pc[t] /\ item'[t] = item[t]
      /\ pc[s] = "send" /\ pc'[s] = "idle" /\ item'[s] = NoMsg
      /\ i # NoMsg /\ i \in Msgs
      /\ \/ sent' = sent \cup {i} /\ failed' = failed
         \/ sent' = sent /\ failed' = failed \cup {i}
  BY Zenon, <1>i DEF SendSucceeds, SendGivesUp, Goto, handler, TypeOK
<1>2. UNCHANGED <<Entries, Orphaned>>
  BY Zenon, <1>1, OrphansQuiet DEF Still
<1>3. \A t \in Senders \ {s} : item[t] # i
  BY Zenon, <1>i, <1>1 DEF MsgsInv
<1>4. Popped' = Popped \ {i} /\ i \in Popped
  <2>1. \A x : x \in Popped' <=> x # NoMsg /\ \E t \in Senders : x = item'[t]
    BY Zenon DEF Popped
  <2>2. \A x : x \in Popped <=> x # NoMsg /\ \E t \in Senders : x = item[t]
    BY Zenon DEF Popped
  <2>3. ASSUME NEW x, x \in Popped' PROVE x \in Popped /\ x # i
    <3>1. PICK t \in Senders : x = item'[t] /\ x # NoMsg
      BY Zenon, <2>1, <2>3
    <3>2. t \in Senders \ {s}
      BY Zenon, <1>1, <3>1
    <3> QED
      BY Zenon, <1>1, <1>3, <2>2, <3>1, <3>2
  <2>4. ASSUME NEW x, x \in Popped, x # i PROVE x \in Popped'
    <3>1. PICK t \in Senders : x = item[t] /\ x # NoMsg
      BY Zenon, <2>2, <2>4
    <3>2. t \in Senders \ {s}
      BY Zenon, <1>i, <2>4, <3>1
    <3> QED
      BY Zenon, <1>1, <2>1, <3>1, <3>2
  <2>5. i \in Popped
    BY Zenon, <1>i, <1>1, <2>2
  <2> QED
    BY Zenon, <2>3, <2>4, <2>5
<1>5. Settled' = Settled \cup {i}
  BY Zenon, <1>1 DEF Settled
<1>6. Used' = Used
  BY Zenon, <1>2, <1>4, <1>5 DEF Used
<1>7. MsgsInv'
  <2>1. Entries' \cap Popped' = {} /\ (Entries' \cup Popped') \cap Settled' = {}
    BY Zenon, <1>2, <1>4, <1>5 DEF MsgsInv
  <2>2. \A t, u \in Senders : item'[t] = item'[u] /\ item'[t] # NoMsg => t = u
    BY Zenon, <1>1 DEF MsgsInv
  <2>3. \A t \in Senders : pc'[t] \in Early => Msg(t)' \notin Used'
    BY Zenon, <1>1, <1>6 DEF MsgsInv, Msg, Early
  <2> QED
    BY Zenon, <1>1, <1>6, <2>1, <2>2, <2>3 DEF MsgsInv
<1>8. /\ (Entries' \ Orphaned') \cup Popped' = ((Entries \ Orphaned) \cup Popped) \ {i}
      /\ i \in (Entries \ Orphaned) \cup Popped
  BY Zenon, <1>2, <1>4 DEF MsgsInv
<1>9. CASE sent' = sent \cup {i} /\ failed' = failed
  <2>1. Channel!Send(i)
    BY Zenon, <1>1, <1>2, <1>8, <1>9 DEF Channel!Send
  <2> QED
    BY Zenon, <1>1, <1>7, <2>1 DEF Channel!Next
<1>10. CASE sent' = sent /\ failed' = failed \cup {i}
  <2>1. failed' \cup Orphaned' = (failed \cup Orphaned) \cup {i}
    BY Zenon, <1>2, <1>10
  <2>2. Channel!Fail({i})
    BY Zenon, <1>1, <1>8, <1>10, <2>1 DEF Channel!Fail
  <2> QED
    BY Zenon, <1>7, <1>8, <2>2 DEF Channel!Next
<1> QED
  BY Zenon, <1>1, <1>9, <1>10

LEMMA MsgsNext ==
  ASSUME TypeOK, MsgsInv, [Next]_vars
  PROVE  MsgsInv' /\ [Channel!Next]_(Channel!vars)
<1> USE DEF connection, handler, senders, history, Goto
<1>1. CASE \/ CheckModel \/ ConnectFails \/ Connect \/ ClientGet \/ Register
           \/ SetInitialNotify \/ ReceiveError \/ WaitTimesOut \/ WaitStopped \/ Close \/ Stop
           \/ UNCHANGED vars
  <2>1. UNCHANGED <<queues, built, item, made, history, pc, at>>
    BY Zenon, <1>1 DEF CheckModel, ConnectFails, Connect, ClientGet, Register, SetInitialNotify,
       ReceiveError, WaitTimesOut, WaitStopped, Close, Stop, vars
  <2> QED
    BY Zenon, <2>1, MsgsQuiet DEF Still
<1>2. ASSUME NEW s \in Senders, Accept(s) \/ Fetch(s) \/ SendRetries(s)
      PROVE  MsgsInv' /\ UNCHANGED Channel!vars
  <2>1. Still
    BY Zenon, <1>2 DEF Accept, Fetch, SendRetries, TypeOK, Still
  <2>2. UNCHANGED <<item, history>> /\ \A t \in Senders : pc'[t] \in Early => pc[t] \in Early
    BY Zenon, <1>2 DEF Accept, Fetch, SendRetries, TypeOK, Early
  <2> QED
    BY Zenon, <2>1, <2>2, MsgsQuiet
<1>3. CASE ClientNew
  <2>1. Construct /\ UNCHANGED pc /\ UNCHANGED <<at, item, made, history>>
    BY Zenon, <1>3 DEF ClientNew
  <2> QED
    BY Zenon, <2>1, MsgsConstruct
<1>4. ASSUME NEW s \in Senders, SenderNew(s) PROVE MsgsInv' /\ [Channel!Next]_(Channel!vars)
  <2>1. \A t \in Senders : /\ pc'[t] = "pop" <=> pc[t] = "pop"
                           /\ pc'[t] = "fetch" <=> pc[t] = "fetch"
                           /\ pc'[t] \in Early => pc[t] \in Early
    BY Zenon, <1>4 DEF SenderNew, TypeOK, Early
  <2>2. Construct /\ UNCHANGED <<at, item, made, history>>
    BY Zenon, <1>4 DEF SenderNew
  <2> QED
    BY Zenon, <2>1, <2>2, MsgsConstruct
<1>5. ASSUME NEW s \in Senders,
             \/ Report(s) \/ PushDropped(s) \/ Push(s) \/ Pop(s) \/ PopTimesOut(s)
             \/ SendSucceeds(s) \/ SendGivesUp(s)
      PROVE  MsgsInv' /\ [Channel!Next]_(Channel!vars)
  BY Zenon, <1>5, MsgsReport, MsgsDropped, MsgsPush, MsgsPop, MsgsTimeOut, MsgsSend
<1> QED
  BY Zenon, <1>1, <1>2, <1>3, <1>4, <1>5 DEF Next, ClientStep, SenderStep

\* The queue, the callback and the retries implement the channel: a
\* notification offered before the callback is registered is dropped, every
\* other one is taken and sent once or given up, never both, for any number of
\* senders.
THEOREM ChannelKept == Spec => Channel!Spec
<1>1. Init => Channel!Init
  <2> SUFFICES ASSUME Init PROVE Channel!Init
    BY Zenon
  <2>1. \A k \in 1..built : In(queues[k]) = {}
    BY DEF Init, In
  <2>2. Entries = {} /\ Popped = {} /\ Orphaned = {}
    BY Zenon, <2>1 DEF Init, Entries, Popped, Orphaned
  <2> QED
    BY Zenon, <2>2 DEF Init, Channel!Init
<1>2. TypeOK /\ MsgsInv /\ [Next]_vars => MsgsInv' /\ [Channel!Next]_(Channel!vars)
  BY Zenon, MsgsNext
<1> QED
  BY <1>1, <1>2, TypeInit, TypeNext, OrderInit, OrderNext, MsgsInit, PTL DEF Spec, Channel!Spec
=============================================================================
