------------------------------ MODULE Getters ------------------------------
(***************************************************************************)
(* The vocabulary in which the profile modules describe what a TR-181      *)
(* getter or setter of the daemon does.  Every getter has the same shape:  *)
(* it asks a source (a file, a command, a driver handle, a bus call), puts *)
(* the answer in a field of the class or straight in the message, compares *)
(* it with the value it reported last, remembers it, and returns OK or     *)
(* NOK.  What differs from one getter to the next, and what the clients    *)
(* can see, is                                                             *)
(*   src     where the answer comes from: "live" (the source is asked on   *)
(*           every call), "cached" (the last answer while it is young, and *)
(*           when the source refuses), "once" (asked until it has answered *)
(*           one time, whose answer stays), "memo" (a field some other     *)
(*           call left behind), "listed" (what the poll thread's last      *)
(*           query left), "latched" (what the last Set asked the device    *)
(*           for), "fixed" (a constant), "void" (OK, and nothing written), *)
(*           "none" (a stub: NOK);                                         *)
(*   absent  what is returned when the source cannot be opened at all,     *)
(*   fails   and when it is there but refuses (of a list or a latch: when  *)
(*           it was never filled, and when the last attempt to fill it     *)
(*           failed): "nok", "void" (OK, nothing written),                 *)
(*           "default" (OK and a constant), "stale" (OK and whatever the   *)
(*           field held), "fact" (the refusal is the answer);              *)
(*   form    how the answer is written: "plain" (as a Set takes it),       *)
(*           "word" (in a form of its own, which several values may have   *)
(*           in common), "name" (likewise, and an answer it has no word    *)
(*           for is an error);                                             *)
(*   buf     the field the answer goes through, "" when it is a local;     *)
(*   slot    the backup member the answer is compared with, "" when the    *)
(*           getter never reports a change;                                *)
(*   flag    the bCalled member that says the backup has been set;         *)
(*   clip    how the comparison with the backup goes wrong: "" not at all, *)
(*           "short" (it does not fit, so an unchanged value may look      *)
(*           changed), "copies" (strncpy for strncmp: it always does);     *)
(*   also    another static field the call overwrites on its way;          *)
(*   marks   another parameter whose getter it calls, which takes that     *)
(*           one's backup along and drops the change it reports;           *)
(*   bare    whether another part of the daemon also calls it, without the *)
(*           lock of the class.                                            *)
(***************************************************************************)
EXTENDS TLC

Getter(src, absent, fails) ==
    [src |-> src, absent |-> absent, fails |-> fails, form |-> "plain", bare |-> FALSE,
     buf |-> "", slot |-> "", flag |-> "", clip |-> "", also |-> "", marks |-> ""]

Live(fails)            == Getter("live", fails, fails)
Handle(absent, fails)  == Getter("live", absent, fails)
Fixed                  == Getter("fixed", "nok", "nok")
Void                   == Getter("void", "nok", "nok")
Stub                   == Getter("none", "nok", "nok")
Cached                 == Getter("cached", "stale", "stale")
Once(field)            == [Getter("once", "nok", "nok") EXCEPT !.buf = field]
Memo(field)            == [Getter("memo", "nok", "nok") EXCEPT !.buf = field]

Listed(unset, emptied) == Getter("listed", unset, emptied)
Latched(unset, zeroed) == Getter("latched", unset, zeroed)

InWords(g)             == [g EXCEPT !.form = "word"]
ByName(g)              == [g EXCEPT !.form = "name"]
Bare(g)                == [g EXCEPT !.bare = TRUE]
Via(g, field)          == [g EXCEPT !.buf = field]
Overwrites(g, field)   == [g EXCEPT !.also = field]
Marks(g, slot)         == [g EXCEPT !.marks = slot]
Clipped(g)             == [g EXCEPT !.clip = "short"]
Copied(g)              == [g EXCEPT !.clip = "copies"]
Tracked(g, slot)       == [g EXCEPT !.slot = slot, !.flag = slot]
Flagged(g, slot, flag) == [g EXCEPT !.slot = slot, !.flag = flag]

(* One getter per name, each with the backup of its own name. *)
TrackedAll(S, g)       == [p \in S |-> Tracked(g, p)]
(* One getter per name, each through the static field of its own name too. *)
SharedAll(S, g)        == [p \in S |-> Tracked(Via(g, p), p)]
All(S, g)              == [p \in S |-> g]

(* A setter: whether it takes any value at all, what it returns when its   *)
(* facility is absent or refuses ("ok" when the refusal is not looked at,  *)
(* "either" when that depends on the value),                               *)
(* and what an accepted call changes: the value the getter of the same     *)
(* name will read ("self"), nothing ("none"), or the source of another     *)
(* name.  "needs" is a backup or field that must hold the value it was     *)
(* constructed with for the call to do anything, "again" whether that      *)
(* value can come back.  "drags" is a parameter the call may change too,   *)
(* "clears" whether a call without effect has emptied the field, "ahead"   *)
(* whether the field takes the value before the facility is asked.         *)
Setter(absent, fails, effect) ==
    [accepts |-> TRUE, absent |-> absent, fails |-> fails, effect |-> effect,
     needs |-> "", again |-> FALSE, drags |-> "", clears |-> FALSE, ahead |-> FALSE]
Checked    == Setter("nok", "nok", "self")
(* A file that has to open; what becomes of the writing is not looked at.  *)
Written    == Setter("nok", "ok", "self")
Unchecked  == Setter("ok", "ok", "self")
NoEffect   == Setter("ok", "ok", "none")
NotWritten == [Setter("nok", "nok", "none") EXCEPT !.accepts = FALSE]
Moves(s, p) == [s EXCEPT !.effect = p]
Drags(s, p) == [s EXCEPT !.drags = p]
Clears(s)   == [s EXCEPT !.clears = TRUE]
Ahead(s)    == [s EXCEPT !.ahead = TRUE]
While(s, member, again) == [s EXCEPT !.needs = member, !.again = again]

(* The names a handler's if-chain sends to the getter of the same name. *)
Same(S) == [p \in S |-> p]

(* A class of the profile: "rows" says whether every row of the table has  *)
(* an object, and so backups, of its own ("own"), rows share the object of *)
(* their parent ("shared"), there is only one row ("one"), or no object is *)
(* ever made and every request fails ("never"); "lock" what                *)
(* getLock() does: "excludes", "reinit" (initialises the mutex again on    *)
(* every call, so it excludes nobody), "lazy" (created by the first        *)
(* caller), "none"; "attr" what a SetAttributes leaves in the notify       *)
(* table: an entry ("kept"), an entry whose key and value are freed right  *)
(* away ("freed"), or nothing ("none"); "renamed" whether other parts of   *)
(* the daemon look its rows up without the lock, which empties the name of *)
(* the interface the getters ask about before it is filled in again.       *)
Class(rows, lock, attr) == [rows |-> rows, lock |-> lock, attr |-> attr, renamed |-> FALSE]
Renamed(class)          == [class EXCEPT !.renamed = TRUE]

(* A poll that looks for an instance number in the name finds none in the  *)
(* names of a class with one row.                                          *)
PerInstance(class, polls) == IF class.rows = "one" THEN Same({}) ELSE polls
=============================================================================
