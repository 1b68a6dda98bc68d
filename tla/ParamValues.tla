---------------------------- MODULE ParamValues ----------------------------
(***************************************************************************)
(* One parameter of a profile class, another one that may interfere with   *)
(* it, the request threads that get and set them, the updateHandler thread *)
(* that polls the subscribed ones, and the other parts of the daemon that  *)
(* call a getter without the lock of its class.  How the getters and       *)
(* setters of the two behave, which static fields, backups and called      *)
(* flags they share, and what the class's lock does, is a kind: Profiles   *)
(* computes the kinds of all pairs the source has, and a behaviour starts  *)
(* by choosing one.  Cell 1 is the parameter observed, cell 2 the one that *)
(* interferes.                                                             *)
(***************************************************************************)
EXTENDS Naturals, FiniteSets

CONSTANTS Kinds,      \* the kinds of pairs a behaviour may start with
          Values,     \* what a source may answer and a Set may ask for
          Word,       \* what each is reported as by a getter with words of its own
          Nameless,   \* those for which such a getter may have no word
          None

Cells   == {1, 2}
Lockers == {"get", "poll"}
Threads == Lockers \cup {"other"}
Texts   == Values \cup {Word[v] : v \in Values}

(* What a source can be: it answers a value, refuses, or is not there.     *)
(* "init" is a freshly constructed member, "const" a constant the code     *)
(* reports, "empty" a message nobody wrote, "gone" the report that there   *)
(* is nothing to report.                                                   *)
Sources  == Values \cup {"absent", "fails"}
Contents == Texts \cup {"init", "const", "empty", "gone"}

(* The names used for what is not a value are no values, and None is none  *)
(* of them.                                                                *)
ASSUME NamesAssumption ==
    /\ Texts \cap {"absent", "fails", "init", "const", "empty", "gone", "nok"} = {}
    /\ None \notin Contents \cup {"nok", "unmade"} \cup Threads

(* What the kinds have in common.  Members are numbered so that those of   *)
(* cell 1 are number 1, a backup comes with a called flag, and a poll of   *)
(* the other parameter does not use the getter of one that is polled with  *)
(* its own.  A latch that a Set of parameter 1 fills is its field, which   *)
(* no other Set or getter writes.  A getter that is called without the     *)
(* lock leaves fields other than its own alone.                            *)
WellFormed(k) ==
    /\ \A c \in Cells :
          LET g == k.get[c] s == k.set[c]
          IN /\ {g.buf, g.slot, g.flag} \subseteq 0 .. c
             /\ g.slot = 0 <=> g.flag = 0
             /\ g.marks \in {0, 3 - c} /\ k.poll[c] \in {0, 1, 2}
             /\ g.src \in {"live", "cached", "once", "memo", "listed", "latched", "fixed",
                           "void", "none"}
             /\ {g.absent, g.fails} \subseteq {"nok", "void", "default", "stale", "fact"}
             /\ {s.absent, s.fails} \subseteq {"ok", "nok", "either"}
             /\ g.form \in {"plain", "word", "name"}
             /\ g.bare => k.lock = "excludes" /\ g.also = 0
    /\ k.poll[1] = 1 => k.poll[2] # 1
    /\ k.get[1].src = "latched" /\ k.set[1].effect = 1 =>
          /\ k.get[1].buf = 1
          /\ k.get[1].also # 1 /\ k.get[2].also # 1
          /\ k.get[2].buf = 1 => /\ k.get[2].src = "latched"
                                 /\ ~k.set[2].accepts /\ ~k.set[2].clears
ASSUME KindsAssumption == \A k \in Kinds : WellFormed(k)

VARIABLES kind,     \* which pair of parameters this is
          src,      \* the state of the device behind each parameter
          field,    \* the static fields the answers go through
          backup,   \* the values reported last
          called,   \* the flags that say a backup is valid
          sub,      \* its entry in the notify table: "none", "kept", "freed"
          holder,   \* who holds the class's lock
          th,       \* where each thread is
          report,   \* what the last step, the end of a poll of the parameter, did
          reply,    \* the reply to a Get the last step gave
          seen,     \* what the parameter was last found to be, by any call
          put       \* the value of the last accepted Set, while it is in force and
                    \* unless a Get was under way when it was made

members == <<field, backup, called>>
vars    == <<kind, src, members, sub, holder, th, report, reply, seen, put>>

Idle == [pc |-> "idle", cell |-> 1, as |-> 1, val |-> "init"]

Init == /\ kind \in Kinds
        /\ src \in [Cells -> Values]
        /\ field  = [i \in Cells |-> "init"]
        /\ backup = [i \in Cells |-> "init"]
        /\ called = [i \in Cells |-> FALSE]
        /\ sub    = "none"
        /\ holder = IF kind.lock = "lazy" THEN "unmade" ELSE None
        /\ th     = [t \in Threads |-> Idle]
        /\ report = None
        /\ reply  = None
        /\ seen   = None
        /\ put    = None

Quiet == report' = None /\ reply' = None

(* The device changes, disappears or starts to refuse. *)
Change(c) == /\ \E v \in Sources \ {src[c]} : src' = [src EXCEPT ![c] = v]
             /\ put' = IF c = 1 THEN None ELSE put
             /\ Quiet
             /\ UNCHANGED <<kind, members, sub, holder, th, seen>>

-----------------------------------------------------------------------------
(* How getter g reports the value x. *)
Shown(g, x) == IF g.form = "plain" \/ x \notin Values THEN x
               ELSE IF g.form = "name" /\ x \in Nameless THEN "nok"
               ELSE Word[x]

(* What getter g may get out of a source in state s when the field it goes *)
(* through holds f: a value, or "nok".                                     *)
OnFailure(outcome, f) ==
    CASE outcome = "nok"     -> "nok"
      [] outcome = "void"    -> "empty"
      [] outcome = "default" -> "const"
      [] outcome = "stale"   -> f
      [] outcome = "fact"    -> "gone"
Asked(g, s, f) == CASE s = "absent" -> OnFailure(g.absent, f)
                    [] s = "fails"  -> OnFailure(g.fails, f)
                    [] OTHER        -> Shown(g, s)
Filled == {"listed", "latched"}
Answers(g, s, f) ==
    CASE g.src = "none"   -> {"nok"}
      [] g.src = "void"   -> {"empty"}
      [] g.src = "fixed"  -> {"const"}
      [] g.src = "memo"   -> {f}
      [] g.src \in Filled -> {CASE f = "init" -> OnFailure(g.absent, f)
                                [] f = "gone" -> OnFailure(g.fails, f)
                                [] OTHER      -> Shown(g, f)}
      [] g.src = "live"   -> {Asked(g, s, f)}
      [] g.src = "once"   -> {IF f # "init" THEN f ELSE Asked(g, s, f)}
      [] g.src = "cached" -> IF f # "init"     THEN {f, Asked(g, s, f)}
                             ELSE IF s \in Values THEN {Shown(g, s)} ELSE {"nok"}

Content(i) == IF i = 0 THEN "init" ELSE field[i]

(* How a getter may find its source: as it is, or not at all while the     *)
(* name of the interface is being filled in.                               *)
Found(d) == {src[d]} \cup (IF kind.renamed THEN {"absent"} ELSE {})

(* A call for parameter c, served by the getter of d: it asks its source   *)
(* and leaves the answer in its field.                                     *)
Ask(t, c, d) ==
    /\ th[t].pc = "idle"
    /\ LET g == kind.get[d]
       IN \E s \in Found(d) : \E v \in Answers(g, s, Content(g.buf)) :
          /\ th' = [th EXCEPT ![t] = [pc |-> "use", cell |-> c, as |-> d, val |-> v]]
          /\ field' = [i \in Cells |-> IF i = g.buf /\ v # "nok" /\ g.src \notin Filled THEN v
                                       ELSE IF i = g.also THEN "gone" ELSE field[i]]
    /\ Quiet
    /\ UNCHANGED <<kind, src, backup, called, sub, seen, put>>

(* A Get, or the poll at a subscription.  It takes the class's lock, which *)
(* only holds it up when it excludes; of a mutex that is made on first     *)
(* use, two threads may each make one.                                     *)
OpenToAll == TRUE                             \* the handler forgets the lock
Open == \/ kind.lock \in {"reinit", "none"}
        \/ holder \in {None, "unmade"}
Enter(t, c, d) ==
    /\ Open
    /\ holder' \in IF holder = "unmade" /\ \A u \in Threads : th[u].pc = "idle"
                   THEN {t, "unmade"} ELSE {t}
    /\ Ask(t, c, d)
GetMsg(c)    == Enter("get", c, c)
PollEntry(c) == /\ c = 1 => sub # "none"
                /\ kind.poll[c] # 0
                /\ Enter("poll", c, kind.poll[c])

(* A call from another part of the daemon (the rebuilding of the interface *)
(* stack, the DHCP client, the notification of a boot), without the lock.  *)
OutsideCall(c) == /\ kind.get[c].bare
                  /\ Ask("other", c, c)
                  /\ UNCHANGED holder

(* Whether the value is not the backup of the getter, taken before. *)
DiffersFromBackup(g, v) == v # backup[g.slot]     \* a first value looks changed
Changed(g, v)           == called[g.flag] /\ v # backup[g.slot]

(* The getter compares what the field holds by now with the backup,        *)
(* remembers it and returns; the poll raises the event when the attribute  *)
(* of the parameter says so; the lock is released.                         *)
Return(t) ==
    /\ th[t].pc = "use"
    /\ LET c == th[t].cell
           g == kind.get[th[t].as]
           own == g.buf = 0 \/ th[t].val \in {"nok", "empty"} \/ g.src \in Filled
           v == IF own THEN th[t].val ELSE field[g.buf]
           tracks == v # "nok" /\ g.slot # 0
           taken  == IF tracks THEN {g.slot, g.marks} ELSE {}
           flags  == IF tracks THEN {g.flag, g.marks} ELSE {}
           mine   == v # "nok" /\ c = 1
           looks  == IF ~tracks THEN {FALSE}
                     ELSE CASE g.clip = "copies" -> {called[g.flag]}
                            [] g.clip = "short"  -> {Changed(g, v), called[g.flag]}
                            [] OTHER             -> {Changed(g, v)}
           events == looks \cup (IF sub = "freed" THEN {FALSE} ELSE {})
       IN /\ backup' = [i \in Cells |-> IF i \in taken THEN v ELSE backup[i]]
          /\ called' = [i \in Cells |-> i \in flags \/ called[i]]
          /\ report' \in IF t # "poll" \/ ~mine \/ sub = "none" THEN {None}
                         ELSE {[val |-> v, event |-> e, was |-> seen] : e \in events}
          /\ reply'  = IF t = "get" /\ c = 1 THEN [val |-> v, own |-> th[t].val] ELSE None
          /\ seen'   = IF mine THEN v ELSE seen
    /\ holder' = IF holder \in {t, "unmade"} \/ kind.lock = "lazy" THEN None ELSE holder
    /\ th' = [th EXCEPT ![t] = Idle]
    /\ UNCHANGED <<kind, src, field, sub, put>>

(* The poll thread queries the device lists whose last query is old; one   *)
(* that fails empties the list it was for, and without the Bluetooth       *)
(* manager none is made.                                                   *)
FetchLists ==
    LET lists == {c \in Cells : kind.get[c].src = "listed"}
    IN /\ lists # {}
       /\ th["poll"].pc = "idle"
       /\ Open
       /\ \E queried \in SUBSET lists :
            field' = [i \in Cells |-> IF i \notin queried \/ src[i] = "absent" THEN field[i]
                                     ELSE IF src[i] = "fails" THEN "gone" ELSE src[i]]
       /\ Quiet
       /\ UNCHANGED <<kind, src, backup, called, sub, holder, th, seen, put>>

(* An attribute request puts the parameter in the notify table, always     *)
(* with notifications on; a class that frees the entry it has just         *)
(* inserted leaves the poll to read freed memory, which may or may not     *)
(* still look like the entry.                                              *)
SetAttributes == /\ kind.attr # "none"
                 /\ Open
                 /\ sub' = kind.attr
                 /\ Quiet
                 /\ UNCHANGED <<kind, src, members, holder, th, seen, put>>

(* A Set of parameter c to v: refused, carried out, or answered OK without *)
(* anything having been done.  A setting that is only a field of the class *)
(* changes there, and if it does so ahead of the saving, it has changed    *)
(* even when the answer is that it could not be saved.                     *)
Static        == CHOOSE v \in Values : TRUE
Held(c)       == LET h == kind.get[3 - c]
                 IN IF h.src = "memo" THEN field[h.buf] ELSE backup[h.slot]
Allowed(s, c) == s.needs = 0 \/ Held(c) = "init" \/ (s.again /\ Held(c) = Static)
Works(s, c)   == (src[c] \in Values \/ kind.get[c].src = "memo") /\ Allowed(s, c)
(* Whether the Set may be answered OK. *)
IgnoresResult(s, c) == {s.accepts}
Returns(s, c) ==
    LET outcome == IF src[c] = "absent" THEN s.absent ELSE s.fails
    IN IF ~s.accepts THEN {FALSE}
       ELSE IF Works(s, c) /\ (s.ahead => src[c] \in Values) THEN {TRUE}
       ELSE CASE outcome = "ok"     -> {TRUE}
              [] outcome = "nok"    -> {FALSE}
              [] outcome = "either" -> BOOLEAN
SetMsg(c, v) ==
    /\ Open
    /\ LET s == kind.set[c]
           done  == s.accepts /\ Works(s, c) /\ s.effect # 0
           held  == kind.get[c].src \in {"memo", "latched"}
           zeroes == s.clears /\ ~done
           moved == (IF done /\ ~held THEN {s.effect} ELSE {})
       IN /\ \E also \in {{}} \cup (IF done THEN {{s.drags}} ELSE {}) :
                src' = [i \in Cells |-> IF i \in moved THEN v
                                       ELSE IF i \in also /\ src[i] \in Values THEN Static
                                       ELSE src[i]]
          /\ field' = [i \in Cells |->
                          IF i # kind.get[c].buf THEN field[i]
                          ELSE IF done /\ held THEN v
                          ELSE IF zeroes /\ field[i] # "init" THEN "gone" ELSE field[i]]
          /\ \E ok \in Returns(s, c) :
                put' = IF c = 1 /\ ok /\ th["get"].pc = "idle" THEN v
                       ELSE IF \/ c = 1 /\ (ok \/ zeroes \/ done)
                               \/ c # 1 /\ (src'[1] # src[1] \/ (done /\ s.effect = 1))
                              THEN None ELSE put
    /\ Quiet
    /\ UNCHANGED <<kind, backup, called, sub, holder, th, seen>>

Next == \/ \E c \in Cells : Change(c) \/ GetMsg(c) \/ PollEntry(c) \/ OutsideCall(c)
        \/ \E t \in Threads : Return(t)
        \/ FetchLists
        \/ SetAttributes
        \/ \E c \in Cells, v \in Values : SetMsg(c, v)

Spec == Init /\ [][Next]_vars

-----------------------------------------------------------------------------
(* The lock of the class excludes, and the field that parameter 1 goes     *)
(* through is written under it only.                                       *)
Guarded == /\ kind.lock = "excludes"
           /\ \A c \in Cells : kind.get[c].bare => kind.get[c].buf # kind.get[1].buf

(* A Get of a parameter that is guarded returns the answer of its own      *)
(* source: the static structures that the getters of other rows and other  *)
(* parameters go through (stIPInterfaceInstance, the counters of the IP    *)
(* statistics, activePort, processStatus) do not carry one parameter's     *)
(* value into another one's reply.  The name of an IP interface, the       *)
(* counts of Device.IP and the boot time are not: the interface stack, the *)
(* DHCP client and the boot notification ask for them without the lock.    *)
ReplyOwnValue ==
    reply # None /\ Guarded => reply.val = reply.own

(* For a parameter that is guarded, polled with its own getter and         *)
(* compared with a backup and a called flag that no other one uses, a poll *)
(* raises a value-change event only if an earlier call found the parameter *)
(* and the last one found another value: the first poll takes the          *)
(* baseline, a Get in between moves it, and a value that went and came     *)
(* back, or that another row of the table has, raises nothing.             *)
OwnBackup == /\ kind.get[1].slot # 0
             /\ kind.get[1].slot # kind.get[2].slot
             /\ kind.get[1].flag # kind.get[2].flag
             /\ kind.get[2].marks # kind.get[1].slot /\ kind.get[1].clip = ""
             /\ kind.poll[1] = 1
EventMeansChange ==
    report # None /\ Guarded /\ OwnBackup =>
        (report.event => report.was # None /\ report.val # report.was)

(* After a Set that was answered OK, and until the device changes by       *)
(* itself, a Get returns the value that was set, in the words the getter   *)
(* has for it, and fails when it has none, for every setter that looks at  *)
(* the result of what it does and every getter that asks its source.  For  *)
(* GetDeviceInfo until a later Set was refused: that one has zeroed the    *)
(* properties of the device named before.                                  *)
LooksAtResult == /\ kind.set[1].absent = "nok" /\ kind.set[1].fails = "nok"
                 /\ kind.set[1].effect = 1
                 /\ kind.get[1].src \in {"live", "latched"} /\ ~kind.renamed
Undisturbed == Guarded \/ kind.get[1].buf = 0
SetThenGet ==
    reply # None /\ put # None /\ LooksAtResult /\ Undisturbed =>
        reply.val = Shown(kind.get[1], put)
=============================================================================
