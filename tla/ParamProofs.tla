---------------------------- MODULE ParamProofs ----------------------------
(***************************************************************************)
(* Proofs about the parameters of the profiles: for every kind of pair     *)
(* that is well formed, of which those of the source are some, and every   *)
(* set of values.                                                          *)
(***************************************************************************)
EXTENDS ParamValues, TLAPS

Answered == Contents \cup {"nok"}

TypeOK ==
    /\ kind \in Kinds
    /\ src \in [Cells -> Sources]
    /\ field \in [Cells -> Contents]
    /\ backup \in [Cells -> Contents]
    /\ called \in [Cells -> BOOLEAN]
    /\ th \in [Threads -> [pc: {"idle", "use"}, cell: Cells, as: Cells, val: Answered]]
    /\ seen \in Contents \cup {None}
    /\ put \in Values \cup {None}

(* Whether the answer a thread is about to return is in its own hands. *)
Own(t) ==
    LET g == kind.get[th[t].as]
    IN g.buf = 0 \/ th[t].val \in {"nok", "empty"} \/ g.src \in Filled

(* What it returns. *)
Returned(t) == IF Own(t) THEN th[t].val ELSE field[kind.get[th[t].as].buf]

-----------------------------------------------------------------------------
(* What a failure and a source give is an answer.                          *)
LEMMA FailureAnswers ==
    ASSUME NEW outcome \in {"nok", "void", "default", "stale", "fact"}, NEW f \in Contents
    PROVE  OnFailure(outcome, f) \in Answered
BY Zenon DEF OnFailure, Answered, Contents

LEMMA ShownAnswers ==
    ASSUME NEW g, NEW x \in Contents
    PROVE  Shown(g, x) \in Answered
BY Zenon DEF Shown, Answered, Contents, Texts

LEMMA AskedAnswers ==
    ASSUME NEW k \in Kinds, NEW c \in Cells, NEW s \in Sources, NEW f \in Contents
    PROVE  Asked(k.get[c], s, f) \in Answered
<1>1. /\ k.get[c].absent \in {"nok", "void", "default", "stale", "fact"}
      /\ k.get[c].fails \in {"nok", "void", "default", "stale", "fact"}
  BY Zenon, KindsAssumption DEF WellFormed
<1>2. s \in Values => Shown(k.get[c], s) \in Answered
  BY Zenon, ShownAnswers DEF Contents, Texts
<1> QED
  BY Zenon, <1>1, <1>2, FailureAnswers DEF Asked, Sources

LEMMA AnswersAnswered ==
    ASSUME NEW k \in Kinds, NEW c \in Cells, NEW s \in Sources, NEW f \in Contents
    PROVE  Answers(k.get[c], s, f) \subseteq Answered
<1> DEFINE g == k.get[c]
<1>1. g.src \in {"live", "cached", "once", "memo", "listed", "latched", "fixed", "void", "none"}
  BY Zenon, KindsAssumption DEF WellFormed
<1>2. OnFailure(g.absent, f) \in Answered /\ OnFailure(g.fails, f) \in Answered
  BY Zenon, KindsAssumption, FailureAnswers DEF WellFormed
<1>3. Asked(g, s, f) \in Answered
  BY Zenon, AskedAnswers
<1>4. /\ f \in Answered /\ {"nok", "empty", "const"} \subseteq Answered
      /\ Shown(g, f) \in Answered /\ (s \in Values => Shown(g, s) \in Answered)
  <2>1. Shown(g, f) \in Answered
    BY Zenon, ShownAnswers
  <2>2. s \in Values => Shown(g, s) \in Answered
    BY Zenon, ShownAnswers DEF Contents, Texts
  <2> QED
    BY Zenon, <2>1, <2>2 DEF Answered, Contents
<1> SUFFICES Answers(g, s, f) \subseteq Answered
  BY Zenon
<1> HIDE DEF g
<1>5. CASE g.src \in {"none", "void", "fixed"}
  BY Zenon, <1>4, <1>5 DEF Answers, Filled
<1>6. CASE g.src \in {"memo", "live"}
  BY Zenon, <1>3, <1>4, <1>6 DEF Answers, Filled
<1>7. CASE g.src \in Filled
  BY Zenon, <1>2, <1>4, <1>7 DEF Answers, Filled
<1>8. CASE g.src = "once"
  BY Zenon, <1>3, <1>4, <1>8 DEF Answers, Filled
<1>9. CASE g.src = "cached"
  BY Zenon, <1>3, <1>4, <1>9 DEF Answers, Filled
<1> QED
  BY Zenon, <1>1, <1>5, <1>6, <1>7, <1>8, <1>9 DEF Filled
-----------------------------------------------------------------------------
(* The numbers of the members of a kind.                                   *)
LEMMA Members ==
    ASSUME TypeOK, NEW c \in Cells
    PROVE  /\ kind.get[c].buf \in {0, 1, 2} /\ kind.poll[c] \in {0, 1, 2}
           /\ kind.get[c].slot \in {0, 1, 2} /\ kind.get[c].flag \in {0, 1, 2}
           /\ kind.get[c].slot = 0 <=> kind.get[c].flag = 0
           /\ kind.get[1].slot \in {0, 1} /\ kind.get[1].flag \in {0, 1}
           /\ kind.get[2].marks \in {0, 1}
<1>1. WellFormed(kind)
  BY Zenon, KindsAssumption DEF TypeOK
<1>2. 1 \in Cells /\ 2 \in Cells
  BY Zenon DEF Cells
<1>3. \A d \in Cells : /\ {kind.get[d].buf, kind.get[d].slot, kind.get[d].flag} \subseteq 0 .. d
                       /\ kind.get[d].slot = 0 <=> kind.get[d].flag = 0
                       /\ kind.get[d].marks \in {0, 3 - d} /\ kind.poll[d] \in {0, 1, 2}
  BY <1>1, Zenon DEF WellFormed
<1> QED
  BY <1>2, <1>3 DEF Cells

(* What a call does when it asks its source: the answer v, where it goes,  *)
(* and what stays.                                                         *)
Entered(t, c, d, v) ==
    LET g == kind.get[d]
    IN /\ \E s \in Found(d) : v \in Answers(g, s, Content(g.buf))
       /\ v \in Answered
       /\ th' = [th EXCEPT ![t] = [pc |-> "use", cell |-> c, as |-> d, val |-> v]]
       /\ field' = [i \in Cells |-> IF i = g.buf /\ v # "nok" /\ g.src \notin Filled THEN v
                                    ELSE IF i = g.also THEN "gone" ELSE field[i]]
LEMMA Asking ==
    ASSUME TypeOK, NEW t \in Threads, NEW c \in Cells, NEW d \in Cells, Ask(t, c, d)
    PROVE  \E v : Entered(t, c, d, v)
<1> DEFINE g == kind.get[d]
<1>1. PICK s \in Found(d) : \E v \in Answers(g, s, Content(g.buf)) :
          /\ th' = [th EXCEPT ![t] = [pc |-> "use", cell |-> c, as |-> d, val |-> v]]
          /\ field' = [i \in Cells |-> IF i = g.buf /\ v # "nok" /\ g.src \notin Filled THEN v
                                       ELSE IF i = g.also THEN "gone" ELSE field[i]]
  BY Zenon DEF Ask
<1>2. PICK v \in Answers(g, s, Content(g.buf)) :
          /\ th' = [th EXCEPT ![t] = [pc |-> "use", cell |-> c, as |-> d, val |-> v]]
          /\ field' = [i \in Cells |-> IF i = g.buf /\ v # "nok" /\ g.src \notin Filled THEN v
                                       ELSE IF i = g.also THEN "gone" ELSE field[i]]
  BY Zenon, <1>1
<1>3. Content(g.buf) \in Contents /\ s \in Sources
  <2>1. Content(g.buf) \in Contents
    BY Zenon, Members DEF TypeOK, Content, Contents, Cells
  <2>2. src[d] \in Sources /\ "absent" \in Sources
    BY Zenon DEF TypeOK, Sources
  <2> QED
    BY Zenon, <2>1, <2>2 DEF Found
<1>4. v \in Answered
  BY Zenon, <1>2, <1>3, AnswersAnswered DEF TypeOK
<1> QED
  BY <1>2, <1>4, Zenon DEF Entered

LEMMA AskTypes ==
    ASSUME TypeOK, NEW t \in Threads, NEW c \in Cells, NEW d \in Cells, Ask(t, c, d)
    PROVE  TypeOK'
<1>1. PICK v : Entered(t, c, d, v)
  BY Zenon, Asking
<1>2. field' \in [Cells -> Contents]
  <2>1. v # "nok" => v \in Contents
    BY Zenon, <1>1 DEF Entered, Answered
  <2>2. "gone" \in Contents
    BY Zenon DEF Contents
  <2> QED
    BY Zenon, <1>1, <2>1, <2>2 DEF Entered, TypeOK
<1>3. th' \in [Threads -> [pc: {"idle", "use"}, cell: Cells, as: Cells, val: Answered]]
  BY Zenon, <1>1 DEF Entered, TypeOK
<1>4. UNCHANGED <<kind, src, backup, called, seen, put>>
  BY Zenon DEF Ask
<1> QED
  BY Zenon, <1>2, <1>3, <1>4 DEF TypeOK

LEMMA ReturnTypes ==
    ASSUME TypeOK, NEW t \in Threads, Return(t)
    PROVE  TypeOK' /\ Returned(t) \in Answered
<1>1. th[t].as \in Cells /\ th[t].val \in Answered
  BY Zenon DEF TypeOK
<1>2. Returned(t) \in Answered
  BY Zenon, <1>1, Members DEF Returned, Own, TypeOK, Answered, Cells
<1>3. Returned(t) # "nok" => Returned(t) \in Contents
  BY Zenon, <1>2 DEF Answered
<1>4. \A i \in Cells : backup'[i] = backup[i] \/ (Returned(t) # "nok" /\ backup'[i] = Returned(t))
  BY Zenon DEF Return, Returned, Own
<1>5. seen' = seen \/ (Returned(t) # "nok" /\ seen' = Returned(t))
  BY Zenon DEF Return, Returned, Own
<1>6. backup' = [i \in Cells |-> backup'[i]] /\ called' \in [Cells -> BOOLEAN]
  BY Zenon DEF Return
<1>7. backup' \in [Cells -> Contents]
  BY Zenon, <1>3, <1>4, <1>6 DEF TypeOK
<1>8. th' \in [Threads -> [pc: {"idle", "use"}, cell: Cells, as: Cells, val: Answered]]
  BY Zenon DEF Return, TypeOK, Idle, Cells, Answered, Contents
<1>9. UNCHANGED <<kind, src, field, put>>
  BY Zenon DEF Return
<1> QED
  BY Zenon, <1>2, <1>3, <1>5, <1>6, <1>7, <1>8, <1>9 DEF TypeOK

LEMMA SetTypes ==
    ASSUME TypeOK, NEW c \in Cells, NEW v \in Values, SetMsg(c, v)
    PROVE  TypeOK'
<1>1. \A i \in Cells : \/ src'[i] = src[i] \/ src'[i] = v
                       \/ src[i] \in Values /\ src'[i] = Static
  BY Zenon DEF SetMsg
<1>2. src' = [i \in Cells |-> src'[i]] /\ field' = [i \in Cells |-> field'[i]]
  BY Zenon DEF SetMsg
<1>3. \A i \in Cells : field'[i] \in {field[i], v, "gone"}
  BY Zenon DEF SetMsg
<1>4. (\E w : w \in Values) => Static \in Values
  BY Zenon DEF Static
<1>5. src' \in [Cells -> Sources]
  BY Zenon, <1>1, <1>2, <1>4 DEF TypeOK, Sources
<1>6. field' \in [Cells -> Contents]
  BY Zenon, <1>2, <1>3 DEF TypeOK, Contents, Texts
<1>7. put' \in {v, None, put}
  BY Zenon DEF SetMsg
<1>8. UNCHANGED <<kind, backup, called, th, seen>>
  BY Zenon DEF SetMsg
<1> QED
  BY Zenon, <1>5, <1>6, <1>7, <1>8 DEF TypeOK

LEMMA TypesKept == TypeOK /\ [Next]_vars => TypeOK'
<1> SUFFICES ASSUME TypeOK, [Next]_vars PROVE TypeOK'
  BY Zenon
<1>1. ASSUME NEW c \in Cells, Change(c) PROVE TypeOK'
  BY <1>1 DEF Change, TypeOK, members
<1>2. ASSUME NEW c \in Cells, GetMsg(c) PROVE TypeOK'
  BY Zenon, <1>2, AskTypes DEF GetMsg, Enter, Threads, Lockers
<1>3. ASSUME NEW c \in Cells, PollEntry(c) PROVE TypeOK'
  <2>1. kind.poll[c] \in Cells
    BY Zenon, <1>3, Members DEF PollEntry, Cells
  <2> QED
    BY Zenon, <1>3, <2>1, AskTypes DEF PollEntry, Enter, Threads, Lockers
<1>4. ASSUME NEW t \in Threads, Return(t) PROVE TypeOK'
  BY Zenon, <1>4, ReturnTypes
<1>5. CASE FetchLists
  <2>1. \A i \in Cells : field'[i] \in {field[i], "gone"} \/ (field'[i] = src[i] /\ src[i] \in Values)
    BY <1>5 DEF FetchLists, TypeOK, Sources
  <2>2. field' = [i \in Cells |-> field'[i]]
    BY Zenon, <1>5 DEF FetchLists
  <2>3. field' \in [Cells -> Contents]
    BY Zenon, <2>1, <2>2 DEF TypeOK, Contents, Texts
  <2> QED
    BY Zenon, <1>5, <2>3 DEF FetchLists, TypeOK
<1>6. CASE SetAttributes
  BY Zenon, <1>6 DEF SetAttributes, TypeOK, members
<1>7. ASSUME NEW c \in Cells, NEW v \in Values, SetMsg(c, v) PROVE TypeOK'
  BY Zenon, <1>7, SetTypes
<1>8. CASE UNCHANGED vars
  BY Zenon, <1>8 DEF vars, members, TypeOK
<1>9. ASSUME NEW c \in Cells, OutsideCall(c) PROVE TypeOK'
  BY Zenon, <1>9, AskTypes DEF OutsideCall, Threads
<1> QED
  BY Zenon, <1>1, <1>2, <1>3, <1>4, <1>5, <1>6, <1>7, <1>8, <1>9 DEF Next

LEMMA TypesInvariant == Spec => []TypeOK
<1>1. Init => TypeOK
  BY DEF Init, TypeOK, Idle, Cells, Sources, Contents, Answered
<1> QED
  BY <1>1, TypesKept, PTL DEF Spec
-----------------------------------------------------------------------------
(* Which getter serves a thread: the one the poll's if-chain names for a   *)
(* poll, the parameter's own for any other call.                           *)
RoutedInv ==
    \A t \in Threads : th[t].pc = "use" =>
        th[t].as = IF t = "poll" THEN kind.poll[th[t].cell] ELSE th[t].cell

LEMMA AskRouted ==
    ASSUME TypeOK, RoutedInv, NEW t \in Threads, NEW c \in Cells, NEW d \in Cells, Ask(t, c, d),
           d = IF t = "poll" THEN kind.poll[c] ELSE c
    PROVE  RoutedInv'
<1>1. PICK v : Entered(t, c, d, v)
  BY Zenon, Asking
<1>2. kind' = kind
  BY Zenon DEF Ask
<1> QED
  BY Zenon, <1>1, <1>2 DEF Entered, TypeOK, RoutedInv

LEMMA RoutesInvariant == Spec => [](TypeOK /\ RoutedInv)
<1>1. Init => RoutedInv
  BY DEF Init, RoutedInv, Idle
<1>2. TypeOK /\ RoutedInv /\ [Next]_vars => RoutedInv'
  <2> SUFFICES ASSUME TypeOK, RoutedInv, [Next]_vars PROVE RoutedInv'
    BY Zenon
  <2>1. ASSUME NEW c \in Cells, Change(c) PROVE RoutedInv'
    BY Zenon, <2>1 DEF Change, RoutedInv
  <2>2. ASSUME NEW c \in Cells, GetMsg(c) PROVE RoutedInv'
    BY <2>2, AskRouted, Zenon DEF GetMsg, Enter, Threads, Lockers
  <2>3. ASSUME NEW c \in Cells, PollEntry(c) PROVE RoutedInv'
    <3>1. kind.poll[c] \in Cells
      BY Zenon, <2>3, Members DEF PollEntry, Cells
    <3> QED
      BY Zenon, <2>3, <3>1, AskRouted DEF PollEntry, Enter, Threads, Lockers
  <2>4. ASSUME NEW c \in Cells, OutsideCall(c) PROVE RoutedInv'
    BY <2>4, AskRouted, Zenon DEF OutsideCall, Threads
  <2>5. ASSUME NEW t \in Threads, Return(t) PROVE RoutedInv'
    BY Zenon, <2>5 DEF Return, Idle, TypeOK, RoutedInv
  <2>6. CASE FetchLists \/ SetAttributes
    BY Zenon, <2>6 DEF FetchLists, SetAttributes, RoutedInv
  <2>7. ASSUME NEW c \in Cells, NEW v \in Values, SetMsg(c, v) PROVE RoutedInv'
    <3>1. UNCHANGED <<kind, th>>
      BY Zenon, <2>7 DEF SetMsg
    <3> QED
      BY Zenon, <3>1 DEF RoutedInv
  <2>8. CASE UNCHANGED vars
    BY Zenon, <2>8 DEF vars, RoutedInv
  <2> QED
    BY Zenon, <2>1, <2>2, <2>3, <2>4, <2>5, <2>6, <2>7, <2>8 DEF Next
<1> QED
  BY <1>1, <1>2, TypesInvariant, PTL DEF Spec
-----------------------------------------------------------------------------
(* With a lock that excludes, a thread that has asked its source under the *)
(* lock holds it; so nobody touches the field its answer lies in, when it  *)
(* serves parameter 1 and no call without the lock goes through its field. *)
LockInv ==
    kind.lock = "excludes" =>
      /\ holder \in Lockers \cup {None}
      /\ \A t \in Lockers : th[t].pc = "use" =>
            holder = t /\ (Guarded /\ th[t].as = 1 => Returned(t) = th[t].val)
ReplyInv == TypeOK /\ LockInv /\ ReplyOwnValue

(* While the lock is free no thread is between its two steps under it.     *)
LEMMA FreeLock ==
    ASSUME TypeOK, LockInv, Open, kind.lock = "excludes"
    PROVE  holder = None /\ \A t \in Lockers : th[t].pc # "use"
BY Zenon, NamesAssumption DEF LockInv, Open, Threads, Lockers

LEMMA EnterLocks ==
    ASSUME ReplyInv, NEW t \in Lockers, NEW c \in Cells, NEW d \in Cells, Enter(t, c, d)
    PROVE  LockInv'
<1>1. kind' = kind /\ t \in Threads
  BY Zenon DEF Enter, Ask, Threads
<1> SUFFICES ASSUME kind.lock = "excludes"
             PROVE  LockInv'
  BY Zenon, <1>1 DEF LockInv
<1>2. holder = None /\ \A u \in Lockers : th[u].pc # "use"
  BY Zenon, FreeLock DEF Enter, ReplyInv
<1>3. holder' = t
  BY Zenon, <1>2, NamesAssumption DEF Enter
<1>4. PICK v : Entered(t, c, d, v)
  BY Zenon, <1>1, Asking DEF ReplyInv, Enter
<1>5. th'[t] = [pc |-> "use", cell |-> c, as |-> d, val |-> v]
  BY Zenon, <1>1, <1>4 DEF Entered, ReplyInv, TypeOK
<1>6. \A u \in Lockers \ {t} : th'[u] = th[u]
  BY Zenon, <1>4 DEF Entered, ReplyInv, TypeOK, Threads
<1>7. Returned(t)' = v
  <2>1. CASE kind.get[d].buf = 0 \/ v \in {"nok", "empty"} \/ kind.get[d].src \in Filled
    BY <1>1, <1>5, <2>1 DEF Returned, Own
  <2>2. CASE ~(kind.get[d].buf = 0 \/ v \in {"nok", "empty"} \/ kind.get[d].src \in Filled)
    <3>1. kind.get[d].buf \in Cells
      BY Zenon, <2>2, Members DEF ReplyInv, Cells
    <3>2. field'[kind.get[d].buf] = v
      BY Zenon, <1>4, <2>2, <3>1 DEF Entered
    <3> QED
      BY <1>1, <1>5, <2>2, <3>2 DEF Returned, Own
  <2> QED
    BY Zenon, <2>1, <2>2
<1> QED
  BY <1>1, <1>2, <1>3, <1>5, <1>6, <1>7 DEF LockInv

(* A call without the lock leaves the field of a guarded parameter.        *)
LEMMA OutsideLocks ==
    ASSUME ReplyInv, NEW c \in Cells, OutsideCall(c)
    PROVE  LockInv'
<1>1. UNCHANGED <<kind, holder>> /\ kind.get[c].bare
  BY Zenon DEF OutsideCall, Ask
<1> SUFFICES ASSUME kind.lock = "excludes" PROVE LockInv'
  BY Zenon, <1>1 DEF LockInv
<1>2. PICK v : Entered("other", c, c, v)
  BY Zenon, Asking DEF ReplyInv, OutsideCall, Threads
<1>3. \A t \in Lockers : th'[t] = th[t]
  BY <1>2, "other" \notin Lockers DEF Entered, ReplyInv, TypeOK, Threads, Lockers
<1>4. ASSUME Guarded, kind.get[1].buf # 0
      PROVE  field'[kind.get[1].buf] = field[kind.get[1].buf]
  <2>1. kind.get[1].buf \in Cells
    BY Zenon, <1>4, Members DEF ReplyInv, Cells
  <2>2. kind.get[1].buf # kind.get[c].buf
    BY Zenon, <1>1, <1>4 DEF Guarded
  <2>3. kind.get[c].also = 0
    <3>1. WellFormed(kind)
      BY Zenon, KindsAssumption DEF ReplyInv, TypeOK
    <3> QED
      BY Zenon, <1>1, <3>1 DEF WellFormed
  <2> QED
    BY Zenon, <1>2, <1>4, <2>1, <2>2, <2>3 DEF Entered
<1>5. ASSUME NEW t \in Lockers, th[t].pc = "use", Guarded, th[t].as = 1
      PROVE  Returned(t)' = th'[t].val
  <2>1. Returned(t) = th[t].val
    BY Zenon, <1>5 DEF ReplyInv, LockInv
  <2>2. Own(t)' <=> Own(t)
    BY Zenon, <1>1, <1>3 DEF Own
  <2>3. ~Own(t) => kind.get[1].buf # 0
    BY Zenon, <1>5 DEF Own
  <2> QED
    BY Zenon, <1>1, <1>3, <1>4, <1>5, <2>1, <2>2, <2>3 DEF Returned
<1> QED
  BY Zenon, <1>1, <1>3, <1>5 DEF ReplyInv, LockInv, Guarded

LEMMA ReturnLocks ==
    ASSUME ReplyInv, RoutedInv, NEW t \in Threads, Return(t)
    PROVE  LockInv' /\ ReplyOwnValue'
<1>1. UNCHANGED <<kind, field>>
  BY Zenon DEF Return
<1>2. th' = [th EXCEPT ![t] = Idle] /\ th[t].pc = "use"
  BY Zenon DEF Return
<1>3. LockInv'
  <2> SUFFICES ASSUME kind.lock = "excludes" PROVE LockInv'
    BY Zenon, <1>1 DEF LockInv
  <2>1. holder \in Lockers \cup {None}
    BY Zenon DEF ReplyInv, LockInv
  <2>2. "unmade" \notin Lockers \cup {None} /\ "other" \notin Lockers \cup {None}
    BY NamesAssumption DEF Threads, Lockers
  <2>3. \A u \in Lockers \ {t} : th'[u] = th[u]
    BY Zenon, <1>2 DEF ReplyInv, TypeOK, Threads
  <2>4. CASE t \in Lockers
    <3>1. holder = t /\ \A u \in Lockers : th[u].pc = "use" => u = t
      BY Zenon, <1>2, <2>4 DEF ReplyInv, LockInv
    <3>2. holder' = None
      BY Zenon, <3>1 DEF Return
    <3>3. \A u \in Lockers : th'[u].pc # "use"
      BY Zenon, <1>2, <2>3, <3>1 DEF ReplyInv, TypeOK, Idle
    <3> QED
      BY Zenon, <3>2, <3>3 DEF LockInv
  <2>5. CASE t \notin Lockers
    <3>1. t = "other"
      BY Zenon, <2>5 DEF Threads
    <3>2. holder' = holder
      BY <2>1, <2>2, <3>1 DEF Return
    <3>3. \A u \in Lockers : th'[u] = th[u]
      BY Zenon, <2>3, <2>5
    <3> QED
      BY Zenon, <1>1, <3>2, <3>3 DEF ReplyInv, LockInv, Returned, Own, Guarded
  <2> QED
    BY Zenon, <2>4, <2>5
<1>4. ReplyOwnValue'
  <2> SUFFICES ASSUME reply' # None, Guarded PROVE reply'.val = reply'.own
    BY Zenon, <1>1 DEF ReplyOwnValue, Guarded
  <2>1. reply' = [val |-> Returned(t), own |-> th[t].val] /\ t = "get" /\ th[t].cell = 1
    BY Zenon DEF Return, Returned, Own
  <2>2. th[t].as = 1 /\ t \in Lockers
    BY Zenon, <1>2, <2>1 DEF RoutedInv, Lockers
  <2>3. Returned(t) = th[t].val
    BY Zenon, <1>2, <2>2 DEF ReplyInv, LockInv, Guarded
  <2> QED
    BY Zenon, <2>1, <2>3
<1> QED
  BY Zenon, <1>3, <1>4

(* A step that leaves the threads and the lock alone, and the fields too   *)
(* unless the lock is free.                                                *)
LEMMA OthersLock ==
    ASSUME ReplyInv, UNCHANGED <<kind, holder, th>>, field' = field \/ Open
    PROVE  LockInv'
<1> SUFFICES ASSUME kind.lock = "excludes" PROVE LockInv'
  BY Zenon DEF LockInv
<1>1. CASE field' = field
  BY Zenon, <1>1 DEF ReplyInv, LockInv, Returned, Own, Guarded
<1>2. CASE Open
  BY Zenon, <1>2, FreeLock DEF ReplyInv, LockInv
<1> QED
  BY Zenon, <1>1, <1>2

LEMMA RepliesInvariant == Spec => []ReplyInv
<1>1. Init => LockInv /\ ReplyOwnValue
  BY DEF Init, LockInv, ReplyOwnValue, Idle, Threads
<1>2. ReplyInv /\ RoutedInv /\ [Next]_vars => LockInv' /\ ReplyOwnValue'
  <2> SUFFICES ASSUME ReplyInv, RoutedInv, [Next]_vars PROVE LockInv' /\ ReplyOwnValue'
    BY Zenon
  <2>1. ASSUME NEW c \in Cells, Change(c) PROVE LockInv' /\ ReplyOwnValue'
    BY Zenon, <2>1, OthersLock DEF Change, members, Quiet, ReplyOwnValue
  <2>2. ASSUME NEW c \in Cells, GetMsg(c) PROVE LockInv' /\ ReplyOwnValue'
    BY ZenonT(40), <2>2, EnterLocks DEF GetMsg, Lockers, Enter, Ask, Quiet, ReplyOwnValue
  <2>3. ASSUME NEW c \in Cells, PollEntry(c) PROVE LockInv' /\ ReplyOwnValue'
    <3>1. kind.poll[c] \in Cells
      BY Zenon, <2>3, Members DEF PollEntry, Cells, ReplyInv
    <3> QED
      BY Zenon, <2>3, <3>1, EnterLocks DEF PollEntry, Lockers, Enter, Ask, Quiet, ReplyOwnValue
  <2>4. ASSUME NEW t \in Threads, Return(t) PROVE LockInv' /\ ReplyOwnValue'
    BY Zenon, <2>4, ReturnLocks
  <2>5. CASE FetchLists
    BY Zenon, <2>5, OthersLock DEF FetchLists, Quiet, ReplyOwnValue
  <2>6. CASE SetAttributes
    BY Zenon, <2>6, OthersLock DEF SetAttributes, members, Quiet, ReplyOwnValue
  <2>7. ASSUME NEW c \in Cells, NEW v \in Values, SetMsg(c, v) PROVE LockInv' /\ ReplyOwnValue'
    BY Zenon, <2>7, OthersLock DEF SetMsg, Quiet, ReplyOwnValue
  <2>8. CASE UNCHANGED vars
    BY Zenon, <2>8, OthersLock DEF vars, members, ReplyInv, ReplyOwnValue, Guarded
  <2>9. ASSUME NEW c \in Cells, OutsideCall(c) PROVE LockInv' /\ ReplyOwnValue'
    BY Zenon, <2>9, OutsideLocks DEF OutsideCall, Ask, Quiet, ReplyOwnValue
  <2> QED
    BY Zenon, <2>1, <2>2, <2>3, <2>4, <2>5, <2>6, <2>7, <2>8, <2>9 DEF Next
<1> QED
  BY <1>1, <1>2, TypesInvariant, RoutesInvariant, PTL DEF Spec, ReplyInv

(* With a lock that excludes, and unless the getter is also called without *)
(* it, the reply to a Get is the answer of its own source, whatever static *)
(* fields the getters of the class share.                                  *)
THEOREM RepliesOwn == Spec => []ReplyOwnValue
<1>1. ReplyInv => ReplyOwnValue
  BY Zenon DEF ReplyInv
<1> QED
  BY <1>1, RepliesInvariant, PTL
-----------------------------------------------------------------------------
(* A backup that is the parameter's alone holds what the parameter was     *)
(* last found to be, and its called flag says whether it was.              *)
BackupInv ==
    OwnBackup => /\ seen = None => ~called[1]
                 /\ seen # None => called[1] /\ backup[1] = seen

ChangeInv == TypeOK /\ RoutedInv /\ BackupInv /\ EventMeansChange

(* A step that is not the end of a call leaves the backups.                *)
LEMMA OthersChange ==
    ASSUME ChangeInv, UNCHANGED <<kind, backup, called, seen>>, report' = None
    PROVE  BackupInv' /\ EventMeansChange'
BY Zenon DEF ChangeInv, BackupInv, OwnBackup, EventMeansChange

(* What the end of a call leaves in the backups and the flags,             *)
(* and what it reports of a getter whose comparison is right.              *)
Tracks(t) == Returned(t) # "nok" /\ kind.get[th[t].as].slot # 0
LEMMA Returning ==
    ASSUME TypeOK, NEW t \in Threads, Return(t)
    PROVE  LET g == kind.get[th[t].as]
               v == Returned(t)
           IN /\ \A i \in Cells : backup'[i] = IF Tracks(t) /\ i \in {g.slot, g.marks}
                                                THEN v ELSE backup[i]
              /\ \A i \in Cells : called'[i] <=> (Tracks(t) /\ i \in {g.flag, g.marks}) \/ called[i]
              /\ report' # None /\ Tracks(t) /\ g.clip = "" =>
                   \E e \in {Changed(g, v), FALSE} :
                      report' = [val |-> v, event |-> e, was |-> seen]
              /\ v # "nok" /\ th[t].cell = 1 => seen' = v
              /\ v = "nok" \/ th[t].cell # 1 => seen' = seen /\ report' = None
<1> DEFINE g == kind.get[th[t].as]
           v == Returned(t)
           taken == IF Tracks(t) THEN {g.slot, g.marks} ELSE {}
           flags == IF Tracks(t) THEN {g.flag, g.marks} ELSE {}
           looks == IF ~Tracks(t) THEN {FALSE}
                    ELSE CASE g.clip = "copies" -> {called[g.flag]}
                           [] g.clip = "short"  -> {Changed(g, v), called[g.flag]}
                           [] OTHER             -> {Changed(g, v)}
           events == looks \cup (IF sub = "freed" THEN {FALSE} ELSE {})
<1>1. backup' = [i \in Cells |-> IF i \in taken THEN v ELSE backup[i]]
  BY Zenon DEF Return, Returned, Own, Tracks
<1>2. called' = [i \in Cells |-> i \in flags \/ called[i]]
  BY Zenon DEF Return, Returned, Own, Tracks
<1>3. report' \in IF t # "poll" \/ ~(v # "nok" /\ th[t].cell = 1) \/ sub = "none" THEN {None}
                  ELSE {[val |-> v, event |-> e, was |-> seen] : e \in events}
  BY Zenon DEF Return, Returned, Own, Tracks
<1>4. \A i \in Cells : called'[i] <=> i \in flags \/ called[i]
  BY Zenon, <1>2
<1>5. ASSUME report' # None, Tracks(t), g.clip = ""
      PROVE  \E e \in {Changed(g, v), FALSE} :
                report' = [val |-> v, event |-> e, was |-> seen]
  <2>1. report' \in {[val |-> v, event |-> e, was |-> seen] : e \in events}
    BY Zenon, <1>3, <1>5
  <2>2. looks = {Changed(g, v)}
    BY Zenon, <1>5
  <2>3. events \subseteq {Changed(g, v), FALSE}
    BY Zenon, <1>5, <2>2
  <2> HIDE DEF events
  <2> QED
    BY <2>1, <2>3, Zenon
<1>6. seen' = IF v # "nok" /\ th[t].cell = 1 THEN v ELSE seen
  BY Zenon DEF Return, Returned, Own
<1>7. v = "nok" \/ th[t].cell # 1 => report' = None
  BY Zenon, <1>3
<1> HIDE DEF looks, events, v
<1> QED
  BY Zenon, <1>1, <1>4, <1>5, <1>6, <1>7 DEF v

(* What the end of a Get or a poll does to the parameter's own backup.     *)
LEMMA ReturnChanges ==
    ASSUME ChangeInv, NEW t \in Threads, Return(t)
    PROVE  BackupInv' /\ EventMeansChange'
<1> DEFINE g == kind.get[th[t].as]
           v == Returned(t)
<1>1. UNCHANGED kind
  BY Zenon DEF Return
<1> SUFFICES ASSUME OwnBackup PROVE BackupInv' /\ EventMeansChange'
  BY Zenon, <1>1 DEF BackupInv, EventMeansChange, OwnBackup
<1>2. kind.get[1].slot = 1 /\ kind.get[1].flag = 1 /\ kind.get[1].clip = ""
  BY Zenon, Members DEF OwnBackup, ChangeInv, Cells
<1>3. /\ kind.get[2].slot # 1 /\ kind.get[2].flag # 1 /\ kind.get[2].marks # 1
      /\ kind.poll[1] = 1
  BY Zenon, <1>2 DEF OwnBackup
<1>4. kind.poll[2] # 1
  BY Zenon, <1>3, KindsAssumption DEF ChangeInv, TypeOK, WellFormed
<1>5. th[t].cell \in Cells /\ th[t].as \in Cells /\ (th[t].cell = 1 <=> th[t].as = 1)
  BY Zenon, <1>3, <1>4 DEF Return, ChangeInv, RoutedInv, TypeOK, Cells
<1>6. v \in Answered
  BY Zenon, ReturnTypes DEF ChangeInv
<1>7. v # None
  BY Zenon, <1>6, NamesAssumption DEF Answered
<1>8. CASE th[t].as = 2 \/ v = "nok"
  <2>1. backup'[1] = backup[1] /\ (called'[1] <=> called[1])
    BY Zenon, <1>3, <1>5, <1>8, Returning DEF ChangeInv, Tracks, Cells
  <2>2. seen' = seen /\ report' = None
    <3>1. v = "nok" \/ th[t].cell # 1
      BY <1>5, <1>8
    <3> QED
      BY <3>1, Returning, Zenon DEF ChangeInv
  <2> QED
    BY Zenon, <1>1, <2>1, <2>2 DEF ChangeInv, BackupInv, OwnBackup, EventMeansChange
<1>9. CASE th[t].as = 1 /\ v # "nok"
  <2>0. Tracks(t)
    <3>1. kind.get[1].slot # 0
      BY Zenon DEF OwnBackup
    <3> QED
      BY <1>9, <3>1, Zenon DEF Tracks
  <2>1. backup'[1] = v /\ called'[1]
    BY Zenon, <1>2, <1>9, <2>0, Returning DEF ChangeInv, Cells
  <2>2. seen' = v
    BY Zenon, <1>5, <1>9, Returning DEF ChangeInv
  <2>3. ASSUME report' # None
        PROVE  /\ report'.val = v /\ report'.was = seen
               /\ report'.event => called[1] /\ v # backup[1]
    <3>1. PICK e \in {Changed(g, v), FALSE} : report' = [val |-> v, event |-> e, was |-> seen]
      BY ZenonT(40), <1>2, <1>9, <2>0, <2>3, Returning DEF ChangeInv
    <3>2. e => called[1] /\ v # backup[1]
      BY Zenon, <1>2, <1>9, <3>1 DEF Changed
    <3> QED
      BY Zenon, <3>1, <3>2
  <2>4. (called[1] /\ v # backup[1]) <=> (seen # None /\ v # seen)
    BY Zenon DEF ChangeInv, BackupInv
  <2>5. EventMeansChange'
    BY Zenon, <1>1, <2>3, <2>4 DEF EventMeansChange
  <2> QED
    BY Zenon, <1>1, <1>7, <2>1, <2>2, <2>5 DEF BackupInv
<1> QED
  BY Zenon, <1>5, <1>8, <1>9 DEF Cells

LEMMA ChangesInvariant == Spec => []ChangeInv
<1>1. Init => BackupInv /\ EventMeansChange
  BY DEF Init, BackupInv, EventMeansChange, Cells
<1>2. ChangeInv /\ [Next]_vars => BackupInv' /\ EventMeansChange'
  <2> SUFFICES ASSUME ChangeInv, [Next]_vars PROVE BackupInv' /\ EventMeansChange'
    BY Zenon
  <2>1. ASSUME NEW c \in Cells, Change(c) PROVE BackupInv' /\ EventMeansChange'
    BY Zenon, <2>1, OthersChange DEF Change, members, Quiet
  <2>2. ASSUME NEW c \in Cells, GetMsg(c) \/ PollEntry(c) \/ OutsideCall(c)
        PROVE  BackupInv' /\ EventMeansChange'
    <3>1. UNCHANGED <<kind, backup, called, seen>> /\ report' = None
      BY Zenon, <2>2 DEF GetMsg, PollEntry, OutsideCall, Enter, Ask, Quiet
    <3> QED
      BY Zenon, <3>1, OthersChange
  <2>3. ASSUME NEW t \in Threads, Return(t) PROVE BackupInv' /\ EventMeansChange'
    BY Zenon, <2>3, ReturnChanges
  <2>4. CASE FetchLists
    BY Zenon, <2>4, OthersChange DEF FetchLists, Quiet
  <2>5. CASE SetAttributes
    BY Zenon, <2>5, OthersChange DEF SetAttributes, members, Quiet
  <2>6. ASSUME NEW c \in Cells, NEW v \in Values, SetMsg(c, v)
        PROVE  BackupInv' /\ EventMeansChange'
    <3>1. UNCHANGED <<kind, backup, called, seen>> /\ report' = None
      BY Zenon, <2>6 DEF SetMsg, Quiet
    <3> QED
      BY Zenon, <3>1, OthersChange
  <2>7. CASE UNCHANGED vars
    BY Zenon, <2>7
       DEF vars, members, ChangeInv, BackupInv, OwnBackup, EventMeansChange, Guarded
  <2> QED
    BY Zenon, <2>1, <2>2, <2>3, <2>4, <2>5, <2>6, <2>7 DEF Next
<1> QED
  BY <1>1, <1>2, RoutesInvariant, PTL DEF Spec, ChangeInv

(* A poll of a parameter that is guarded and has a backup of its own       *)
(* raises an event only if an earlier call found the parameter and the     *)
(* last one found another value.                                           *)
THEOREM EventsMeanChanges == Spec => []EventMeansChange
<1>1. ChangeInv => EventMeansChange
  BY Zenon DEF ChangeInv
<1> QED
  BY <1>1, ChangesInvariant, PTL
-----------------------------------------------------------------------------
(* The value of a Set in force is where the getter looks for it, and the   *)
(* answer of a Get that has asked since.                                   *)
PutInv ==
    put # None /\ LooksAtResult =>
      /\ kind.get[1].src = "live" => src[1] = put
      /\ kind.get[1].src = "latched" => field[1] = put
      /\ th["get"].pc = "use" /\ th["get"].cell = 1 =>
            th["get"].val = Shown(kind.get[1], put)
SetInv == ReplyInv /\ RoutedInv /\ PutInv

(* A latch is written by nothing but the Set of its parameter.             *)
LEMMA Latch ==
    ASSUME TypeOK, LooksAtResult, kind.get[1].src = "latched"
    PROVE  /\ kind.get[1].buf = 1
           /\ kind.get[1].also # 1 /\ kind.get[2].also # 1
           /\ kind.get[2].buf = 1 => /\ kind.get[2].src = "latched"
                                     /\ ~kind.set[2].accepts /\ ~kind.set[2].clears
<1>1. WellFormed(kind) /\ kind.set[1].effect = 1
  BY Zenon, KindsAssumption DEF TypeOK, LooksAtResult
<1> QED
  BY <1>1, Zenon DEF WellFormed

(* Asking for the value of a Set in force gives that value.                *)
LEMMA AsksForPut ==
    ASSUME SetInv, put # None, LooksAtResult, NEW v, NEW s \in Found(1),
           v \in Answers(kind.get[1], s, Content(kind.get[1].buf))
    PROVE  v = Shown(kind.get[1], put)
<1>1. put \in Values
  BY Zenon DEF SetInv, ReplyInv, TypeOK
<1>2. put \notin {"absent", "fails", "init", "gone"}
  BY Zenon, <1>1, NamesAssumption DEF Texts
<1>3. s = src[1]
  BY Zenon DEF Found, LooksAtResult
<1>4. CASE kind.get[1].src = "live"
  <2>1. src[1] = put
    BY Zenon, <1>4 DEF SetInv, PutInv
  <2> QED
    BY Zenon, <1>2, <1>3, <1>4, <2>1 DEF Answers, Asked, Filled
<1>5. CASE kind.get[1].src = "latched"
  <2>1. kind.get[1].buf = 1 /\ field[1] = put
    BY Zenon, <1>5, Latch DEF SetInv, ReplyInv, PutInv
  <2>2. Content(kind.get[1].buf) = put
    BY <2>1 DEF Content
  <2> QED
    BY Zenon, <1>2, <1>5, <2>2 DEF Answers, Filled
<1> QED
  BY Zenon, <1>4, <1>5 DEF LooksAtResult

LEMMA AskPut ==
    ASSUME SetInv, NEW t \in Threads, NEW c \in Cells, NEW d \in Cells, Ask(t, c, d),
           d = IF t = "poll" THEN kind.poll[c] ELSE c
    PROVE  PutInv'
<1>1. PICK v : Entered(t, c, d, v)
  BY Zenon, Asking DEF SetInv, ReplyInv
<1>2. UNCHANGED <<kind, src, put>>
  BY Zenon DEF Ask
<1> SUFFICES ASSUME put # None, LooksAtResult
             PROVE  PutInv'
  BY Zenon, <1>2 DEF PutInv, LooksAtResult
<1>3. kind.get[1].src = "latched" => field'[1] = put
  <2> SUFFICES ASSUME kind.get[1].src = "latched" PROVE field'[1] = field[1]
    BY Zenon DEF SetInv, PutInv
  <2>1. kind.get[d].also # 1 /\ (kind.get[d].buf = 1 => kind.get[d].src \in Filled)
    BY Zenon, Latch DEF SetInv, ReplyInv, Cells, Filled
  <2> QED
    BY Zenon, <1>1, <2>1 DEF Entered, Cells
<1>4. CASE t = "get" /\ c = 1
  <2>1. v = Shown(kind.get[1], put)
    <3>1. d = 1
      BY <1>4
    <3> QED
      BY Zenon, <1>1, <3>1, AsksForPut DEF Entered
  <2>2. th'["get"].val = v
    BY Zenon, <1>1, <1>4 DEF Entered, SetInv, ReplyInv, TypeOK
  <2> QED
    BY Zenon, <1>2, <1>3, <2>1, <2>2 DEF SetInv, PutInv
<1>5. CASE t = "get" /\ c # 1
  <2>1. th'["get"].cell = c
    BY Zenon, <1>1, <1>5 DEF Entered, SetInv, ReplyInv, TypeOK
  <2> QED
    BY Zenon, <1>2, <1>3, <1>5, <2>1 DEF SetInv, PutInv
<1>6. CASE t # "get"
  <2>1. th'["get"] = th["get"]
    <3>1. "get" \in Threads
      BY Zenon DEF Threads, Lockers
    <3> QED
      BY Zenon, <1>1, <1>6, <3>1 DEF Entered, SetInv, ReplyInv, TypeOK
  <2> QED
    BY Zenon, <1>2, <1>3, <2>1 DEF SetInv, PutInv
<1> QED
  BY Zenon, <1>4, <1>5, <1>6

(* A Set of parameter 1 that may be answered OK is one that is done.       *)
LEMMA AcceptedDone ==
    ASSUME TypeOK, LooksAtResult, NEW ok \in Returns(kind.set[1], 1)
    PROVE  ok <=> kind.set[1].accepts /\ Works(kind.set[1], 1)
<1>1. (IF src[1] = "absent" THEN kind.set[1].absent ELSE kind.set[1].fails) = "nok"
  BY Zenon DEF LooksAtResult
<1>2. CASE ~kind.set[1].accepts
  BY Zenon, <1>2 DEF Returns
<1>3. CASE kind.set[1].accepts /\ Works(kind.set[1], 1)
  <2>1. src[1] \in Values
    BY Zenon, <1>3 DEF Works, LooksAtResult
  <2> QED
    BY Zenon, <1>3, <2>1 DEF Returns
<1>4. CASE kind.set[1].accepts /\ ~Works(kind.set[1], 1)
  BY Zenon, <1>1, <1>4 DEF Returns
<1> QED
  BY Zenon, <1>2, <1>3, <1>4

LEMMA SetPuts ==
    ASSUME SetInv, NEW c \in Cells, NEW v \in Values, SetMsg(c, v)
    PROVE  PutInv'
<1> DEFINE s == kind.set[c]
           done == s.accepts /\ Works(s, c) /\ s.effect # 0
           held == kind.get[c].src \in {"memo", "latched"}
           zeroes == s.clears /\ ~done
           moved == IF done /\ ~held THEN {s.effect} ELSE {}
<1>1. UNCHANGED <<kind, th>>
  BY Zenon DEF SetMsg
<1> SUFFICES ASSUME put' # None, LooksAtResult
             PROVE  PutInv'
  BY Zenon, <1>1 DEF PutInv, LooksAtResult
<1>2. PICK also \in {{}} \cup (IF done THEN {{s.drags}} ELSE {}) :
         src' = [i \in Cells |-> IF i \in moved THEN v
                                ELSE IF i \in also /\ src[i] \in Values THEN Static
                                ELSE src[i]]
  BY Zenon DEF SetMsg
<1>3. field' = [i \in Cells |-> IF i # kind.get[c].buf THEN field[i]
                               ELSE IF done /\ held THEN v
                               ELSE IF zeroes /\ field[i] # "init" THEN "gone" ELSE field[i]]
  BY Zenon DEF SetMsg
<1>4. PICK ok \in Returns(s, c) :
         put' = IF c = 1 /\ ok /\ th["get"].pc = "idle" THEN v
                ELSE IF \/ c = 1 /\ (ok \/ zeroes \/ done)
                        \/ c # 1 /\ (src'[1] # src[1] \/ (done /\ s.effect = 1))
                       THEN None ELSE put
  BY Zenon DEF SetMsg
<1>5. kind.get[1].src \in {"live", "latched"} /\ kind.set[1].effect = 1
  BY Zenon DEF LooksAtResult
<1>6. CASE c = 1
  <2>1. ok <=> done
    BY <1>4, <1>5, <1>6, AcceptedDone DEF SetInv, ReplyInv
  <2>2. CASE ok
    <3>1. put' = v /\ th["get"].pc = "idle"
      BY Zenon, <1>4, <1>6, <2>2
    <3>2. ASSUME kind.get[1].src = "live" PROVE src'[1] = v
      <4>1. ~held
        BY Zenon, <1>6, <3>2
      <4>2. 1 \in moved
        BY Zenon, <1>5, <1>6, <2>1, <2>2, <4>1
      <4> QED
        BY Zenon, <1>2, <4>2 DEF Cells
    <3>3. ASSUME kind.get[1].src = "latched" PROVE field'[1] = v
      <4>1. held /\ kind.get[1].buf = 1
        BY Zenon, <1>6, <3>3, Latch DEF SetInv, ReplyInv
      <4> QED
        BY Zenon, <1>3, <1>6, <2>1, <2>2, <4>1 DEF Cells
    <3> QED
      BY Zenon, <1>1, <3>1, <3>2, <3>3 DEF PutInv
  <2>3. CASE ~ok
    <3>1. put' = put /\ ~zeroes
      BY Zenon, <1>4, <1>6, <2>3
    <3>2. moved = {} /\ also = {}
      BY Zenon, <1>2, <2>1, <2>3
    <3>3. src'[1] = src[1]
      BY Zenon, <1>2, <3>2 DEF Cells
    <3>4. field'[1] = field[1]
      BY Zenon, <1>3, <2>1, <2>3, <3>1 DEF Cells
    <3> QED
      BY Zenon, <1>1, <3>1, <3>3, <3>4 DEF SetInv, PutInv
  <2> QED
    BY Zenon, <2>2, <2>3
<1>7. CASE c = 2
  <2>1. put' = put /\ src'[1] = src[1]
    BY <1>4, <1>7
  <2>2. ASSUME kind.get[1].src = "latched" PROVE field'[1] = field[1]
    <3>1. kind.get[2].buf = 1 => ~s.accepts /\ ~s.clears
      BY Zenon, <1>7, <2>2, Latch DEF SetInv, ReplyInv
    <3> QED
      BY Zenon, <1>3, <1>7, <3>1 DEF Cells
  <2> QED
    BY Zenon, <1>1, <2>1, <2>2 DEF SetInv, PutInv
<1> QED
  BY Zenon, <1>6, <1>7 DEF Cells

(* The end of a Get of parameter 1 while a Set is in force.                *)
LEMMA ReturnPut ==
    ASSUME SetInv, NEW t \in Threads, Return(t)
    PROVE  PutInv' /\ SetThenGet'
<1>1. UNCHANGED <<kind, src, field, put>>
  BY Zenon DEF Return
<1>2. th' = [th EXCEPT ![t] = Idle] /\ th[t].pc = "use"
  BY Zenon DEF Return
<1>3. th'["get"] = th["get"] \/ th'["get"].pc = "idle"
  <2>1. "get" \in Threads
    BY Zenon DEF Threads, Lockers
  <2> QED
    BY Zenon, <1>2, <2>1 DEF SetInv, ReplyInv, TypeOK, Idle
<1>4. PutInv'
  BY Zenon, <1>1, <1>3 DEF SetInv, PutInv, LooksAtResult
<1>5. SetThenGet'
  <2> SUFFICES ASSUME reply' # None, put # None, LooksAtResult, Undisturbed
               PROVE  reply'.val = Shown(kind.get[1], put)
    BY Zenon, <1>1 DEF SetThenGet, LooksAtResult, Undisturbed, Guarded, Shown
  <2>1. t = "get" /\ th[t].cell = 1 /\ reply' = [val |-> Returned(t), own |-> th[t].val]
    BY Zenon DEF Return, Returned, Own
  <2>2. th[t].val = Shown(kind.get[1], put)
    BY Zenon, <1>2, <2>1 DEF SetInv, PutInv
  <2>3. th[t].as = 1 /\ t \in Lockers
    BY Zenon, <1>2, <2>1 DEF SetInv, RoutedInv, Lockers
  <2>4. Returned(t) = th[t].val
    <3>1. CASE Guarded
      BY Zenon, <1>2, <2>3, <3>1 DEF SetInv, ReplyInv, LockInv, Guarded
    <3>2. CASE kind.get[1].buf = 0
      BY Zenon, <2>3, <3>2 DEF Returned, Own
    <3> QED
      BY Zenon, <3>1, <3>2 DEF Undisturbed
  <2> QED
    BY Zenon, <2>1, <2>2, <2>4
<1> QED
  BY Zenon, <1>4, <1>5

(* After a Set that was answered OK, and until the device changes, a Get   *)
(* returns the value that was set, in the words the getter has for it.     *)
THEOREM SetsServed == Spec => []SetThenGet
<1>1. Init => PutInv /\ SetThenGet
  BY Zenon DEF Init, PutInv, SetThenGet
<1>2. SetInv /\ SetThenGet /\ [Next]_vars => PutInv' /\ SetThenGet'
  <2> SUFFICES ASSUME SetInv, SetThenGet, [Next]_vars PROVE PutInv' /\ SetThenGet'
    BY Zenon
  <2>1. ASSUME NEW c \in Cells, Change(c) PROVE PutInv' /\ SetThenGet'
    <3>1. UNCHANGED <<kind, field, th>> /\ reply' = None
      BY Zenon, <2>1 DEF Change, members, Quiet
    <3>2. put' = None \/ (put' = put /\ src'[1] = src[1])
      BY Zenon, <2>1 DEF Change, Cells, SetInv, ReplyInv, TypeOK
    <3> QED
      BY Zenon, <3>1, <3>2 DEF SetInv, PutInv, SetThenGet, LooksAtResult
  <2>2. ASSUME NEW c \in Cells, GetMsg(c) PROVE PutInv' /\ SetThenGet'
    <3>1. Ask("get", c, c) /\ "get" \in Threads /\ "get" # "poll"
      BY Zenon, <2>2 DEF GetMsg, Enter, Threads, Lockers
    <3> QED
      BY ZenonT(40), <3>1, AskPut DEF Ask, Quiet, SetThenGet
  <2>3. ASSUME NEW c \in Cells, PollEntry(c) PROVE PutInv' /\ SetThenGet'
    <3>1. kind.poll[c] \in Cells
      BY Zenon, <2>3, Members DEF PollEntry, Cells, SetInv, ReplyInv
    <3>2. Ask("poll", c, kind.poll[c]) /\ "poll" \in Threads
      BY Zenon, <2>3 DEF PollEntry, Enter, Threads, Lockers
    <3> QED
      BY ZenonT(40), <3>1, <3>2, AskPut DEF Ask, Quiet, SetThenGet
  <2>4. ASSUME NEW t \in Threads, Return(t) PROVE PutInv' /\ SetThenGet'
    BY Zenon, <2>4, ReturnPut
  <2>5. CASE FetchLists
    <3>1. kind.get[1].src # "listed" => field'[1] = field[1]
      BY Zenon, <2>5 DEF FetchLists, Cells
    <3>2. UNCHANGED <<kind, src, th, put>> /\ reply' = None
      BY Zenon, <2>5 DEF FetchLists, Quiet
    <3> QED
      BY Zenon, <3>1, <3>2 DEF SetInv, PutInv, SetThenGet, LooksAtResult
  <2>6. CASE SetAttributes
    BY Zenon, <2>6 DEF SetAttributes, members, Quiet, SetInv, PutInv, SetThenGet, LooksAtResult
  <2>7. ASSUME NEW c \in Cells, NEW v \in Values, SetMsg(c, v) PROVE PutInv' /\ SetThenGet'
    <3>1. reply' = None
      BY Zenon, <2>7 DEF SetMsg, Quiet
    <3> QED
      BY Zenon, <2>7, <3>1, SetPuts DEF SetThenGet
  <2>8. CASE UNCHANGED vars
    BY Zenon, <2>8
       DEF vars, members, SetInv, PutInv, SetThenGet, LooksAtResult, Undisturbed, Guarded, Shown
  <2>9. ASSUME NEW c \in Cells, OutsideCall(c) PROVE PutInv' /\ SetThenGet'
    <3>1. Ask("other", c, c) /\ "other" \in Threads /\ "other" # "poll"
      BY Zenon, <2>9 DEF OutsideCall, Threads
    <3> QED
      BY ZenonT(40), <3>1, AskPut DEF Ask, Quiet, SetThenGet
  <2> QED
    BY Zenon, <2>1, <2>2, <2>3, <2>4, <2>5, <2>6, <2>7, <2>8, <2>9 DEF Next
<1>3. ReplyInv /\ ChangeInv => (PutInv => SetInv)
  BY Zenon DEF SetInv, ChangeInv
<1> QED
  BY <1>1, <1>2, <1>3, RepliesInvariant, ChangesInvariant, PTL DEF Spec
=============================================================================
