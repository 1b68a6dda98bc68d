------------------------------ MODULE BSStore ------------------------------
(***************************************************************************)
(* The bootstrap store (XBSStore) and its journal (XBSStoreJournal).       *)
(*                                                                         *)
(* The store is a cache m_dict in front of bootstrap.ini; the journal      *)
(* keeps, for each key, the firmware default and the last override with    *)
(* its source, in a cache in front of a file of its own.  Each file is     *)
(* rewritten by truncating it and writing every cached entry, one flushed  *)
(* line at a time, so a process that dies inside a rewrite leaves any      *)
(* subset of the lines behind.                                             *)
(*                                                                         *)
(* Two threads use the store: "set", the dispatcher's serialised SET path  *)
(* (which also runs the constructor's init), and "watch", the detached     *)
(* thread that reloads the defaults when the partner id changes.  Steps of *)
(* one call that touch a file are separate actions.                        *)
(***************************************************************************)
EXTENDS Naturals, FiniteSets

CONSTANTS
  Keys,          \* the parameters the bootstrap store may hold
  PartnerIdKey,  \* TR181_PARTNER_ID_KEY
  RfcOnly,       \* keys whose data-model entry says bsUpdate="rfcUpdate"
  Values,        \* the values a request or a default may carry
  Partners,      \* the partner ids; they are values of PartnerIdKey
  None,          \* the absent entry, record, file or section
  Empty,         \* the empty string
  Dash,          \* the journal's placeholder "-"
  Firmwares,     \* the images the device may boot
  Generic,       \* partners_defaults.json of each image: section -> defaults
  Device,        \* partners_defaults_device.json of each image
  Ops,           \* the operations the clients of this instance use
  CrashPoints,   \* the program points at which the process may die
  IOFaults       \* the program points at which opening a file may fail

Threads == {"set", "watch"}
NoThread == "none"
NoFile == None
NoRec == None
NoSection == None

\* HostIf_Source_Type_t as the journal distinguishes it; a key without a
\* record has source HOSTIF_NONE.
Sources == {"default", "rfc", "webpa", "iarm"}

Stored == Values \cup {Dash}
Dict == [Keys -> Stored \cup {None}]
NoEntries == [k \in Keys |-> None]
Rec == [fw: Stored, upd: Stored, src: Sources, clear: BOOLEAN]
Journal == [Keys -> Rec \cup {NoRec}]
NoRecords == [k \in Keys |-> NoRec]

\* Program points.  "x.open" is reached before a file is opened, "x.write"
\* when it has been truncated and not yet written.
PCs == {"idle", "load", "loop", "return",
        "append", "set.open", "set.write", "jrn.open", "jrn.write",
        "rm.open", "rm.write", "clr.open", "clr.write",
        "end.open", "end.write"}
WritePoints == {"set.write", "jrn.write", "rm.write", "clr.write", "end.write"}
Returns == {"idle", "loop", "load", "unlock+load"}
Calls == {"none", "init", "override", "clearEnd", "setPartner", "reload"}
OpNames == {"override", "clear", "setPartner", "auth", "watch", "upgrade"}
NoCall == None
Call == [key: Keys, val: Values, src: Sources, rec: Rec \cup {NoRec}]

ASSUME BSAssumption ==
  /\ PartnerIdKey \in Keys
  /\ RfcOnly \subseteq Keys
  /\ Partners \subseteq Values
  /\ Empty \in Values \ Partners
  /\ Dash \notin Values
  /\ None \notin Values \cup {Dash} \cup Rec \cup Dict \cup Call
  /\ Ops \subseteq OpNames
  /\ Firmwares # {}
  /\ \A f \in Firmwares : \A file \in {Generic[f], Device[f]} :
       \A s \in DOMAIN file : /\ file[s] \in [Keys -> Values \cup {None}]
                              /\ file[s][PartnerIdKey] = None
  /\ CrashPoints \subseteq PCs
  /\ IOFaults \subseteq PCs

VARIABLES
  running,       \* the process is up
  fw,            \* the image the device booted
  authPartner,   \* the content of partnerId3.dat, None when it is absent
  dict,          \* XBSStore::m_dict
  storeFile,     \* bootstrap.ini
  journal,       \* XBSStoreJournal::m_dict
  journalFile,   \* the journal file
  initDone,      \* m_initDone
  initialUpdate, \* m_initialUpdate of the store and of the journal
  rfcUpdate,     \* m_rfcUpdateInProgress
  mtx,           \* the holder of XBSStore::mtx
  pc,            \* program point of each thread
  call,          \* the call each thread is in
  cur,           \* the setRawValue each thread is in
  ret,           \* where that setRawValue returns to
  todo,          \* the defaults loadFromJson has still to apply
  active,        \* history: the defaults last loaded
  resent,        \* history: keys an RFC session has set since ClearDB
  seen           \* newPartnerId: the id the watcher has read and not yet stored

disk == <<fw, authPartner, storeFile, journalFile>>
memory == <<dict, journal, initDone, initialUpdate, rfcUpdate>>
control == <<mtx, pc, call, cur, ret, todo>>
vars == <<running, disk, memory, control, active, resent, seen>>
-----------------------------------------------------------------------------
(* What the code computes.                                                 *)

\* getJournalSource
Source(k) == IF journal[k] = NoRec THEN "none" ELSE journal[k].src

\* Look a section up in a defaults file, falling back to "default".
Section(file, p) ==
  IF p \in DOMAIN file THEN file[p]
  ELSE IF "default" \in DOMAIN file THEN file["default"] ELSE NoSection

\* get_PartnerId_From_Script: partnerId3.dat, else the line in bootstrap.ini.
ScriptPartner ==
  IF authPartner # None THEN authPartner
  ELSE IF storeFile # NoFile /\ storeFile[PartnerIdKey] # None
       THEN storeFile[PartnerIdKey] ELSE Empty

\* The defaults loadFromJson selects: the partner's section, or default_boot
\* while the partner is unknown, overlaid with the device's section.
Defaults ==
  LET p == IF ScriptPartner = Empty THEN "default_boot" ELSE ScriptPartner
      generic == Section(Generic[fw], p)
      device == Section(Device[fw], p)
  IN  IF generic = NoSection THEN NoSection
      ELSE [k \in Keys |-> IF device # NoSection /\ device[k] # None
                           THEN device[k] ELSE generic[k]]

\* setJournalValue: the record of k after it is given v by source s.
Journaled(k, v, s) ==
  IF journal[k] = NoRec
  THEN IF s = "default"
       THEN [fw |-> v, upd |-> Dash, src |-> "default", clear |-> FALSE]
       ELSE [fw |-> Dash, upd |-> v, src |-> s, clear |-> FALSE]
  ELSE IF s = "default"
       THEN [journal[k] EXCEPT !.fw = v]
       ELSE [journal[k] EXCEPT !.upd = v, !.src = s, !.clear = FALSE]

\* A record as it comes back from the file: the mark is not written, and a
\* source other than rfc and webpa is written as "-".
Persisted(r) ==
  IF r = NoRec THEN NoRec
  ELSE [r EXCEPT !.clear = FALSE,
                 !.src = IF r.src \in {"rfc", "webpa"} THEN r.src ELSE "default"]
PersistedAll(j) == [k \in Keys |-> Persisted(j[k])]

Marked(k) == journal[k] # NoRec /\ journal[k].clear

\* clearRfcValues and clearRfcAndGetDefaultValue: every cached key that is
\* still marked goes back to its firmware value.
ClearedDict ==
  [k \in Keys |-> IF dict[k] # None /\ Marked(k) THEN journal[k].fw ELSE dict[k]]
ClearedJournal ==
  [k \in Keys |-> IF dict[k] # None /\ Marked(k)
                  THEN [journal[k] EXCEPT !.upd = Dash, !.src = "default", !.clear = FALSE]
                  ELSE journal[k]]

\* Keys the new defaults no longer have and nobody has overridden.
Obsolete(defaults) ==
  {k \in Keys \ {PartnerIdKey} :
     dict[k] # None /\ defaults[k] = None /\ Source(k) = "default"}
-----------------------------------------------------------------------------
Init ==
  /\ running = FALSE
  /\ fw \in Firmwares
  /\ authPartner = None
  /\ storeFile = NoFile
  /\ journalFile = NoRecords
  /\ dict = NoEntries
  /\ journal = NoRecords
  /\ initDone = FALSE
  /\ initialUpdate = FALSE
  /\ rfcUpdate = FALSE
  /\ mtx = NoThread
  /\ pc = [t \in Threads |-> "idle"]
  /\ call = [t \in Threads |-> "none"]
  /\ cur = [t \in Threads |-> NoCall]
  /\ ret = [t \in Threads |-> "idle"]
  /\ todo = [t \in Threads |-> NoEntries]
  /\ active = NoEntries
  /\ resent = {}
  /\ seen = None

\* Mutant of Decision: a default replaces an override.
DecisionDefaultWins(k, v, s, j) ==
  LET src == IF j[k] = NoRec THEN "none" ELSE j[k].src IN
  IF initialUpdate THEN "append"
  ELSE IF dict[k] \notin {None, Empty} /\ dict[k] = v
       THEN IF s # src THEN "jrn.open" ELSE "return"
  ELSE "set.open"

\* Mutant of Decision: a default is only stored for a key that has no value.
DecisionKeepsOld(k, v, s, j) ==
  LET src == IF j[k] = NoRec THEN "none" ELSE j[k].src IN
  IF initialUpdate THEN "append"
  ELSE IF dict[k] \notin {None, Empty} /\ (dict[k] = v \/ s = "default")
       THEN IF s # src THEN "jrn.open" ELSE "return"
  ELSE "set.open"

\* Mutant of Decision: the default of an overridden key is not recorded.
DecisionSkipsJournal(k, v, s, j) ==
  LET src == IF j[k] = NoRec THEN "none" ELSE j[k].src IN
  IF initialUpdate THEN "append"
  ELSE IF dict[k] \notin {None, Empty} /\ dict[k] = v
       THEN IF s # src THEN "jrn.open" ELSE "return"
  ELSE IF s = "default" /\ src \in {"rfc", "webpa"} THEN "return"
  ELSE "set.open"

\* What setRawValue(k, v, s) decides to do, given the journal j it consults.
Decision(k, v, s, j) ==
  LET src == IF j[k] = NoRec THEN "none" ELSE j[k].src IN
  IF initialUpdate THEN "append"
  ELSE IF dict[k] \notin {None, Empty} /\ dict[k] = v
       THEN IF s # src THEN "jrn.open" ELSE "return"
  ELSE IF s = "default" /\ src \in {"rfc", "webpa"} THEN "jrn.open"
  ELSE "set.open"

Goto(t, l) == pc' = [pc EXCEPT ![t] = l]

\* Thread t enters setRawValue(k, v, s) and goes on at r when it returns.
SetRawValue(t, k, v, s, j, r) ==
  /\ Goto(t, Decision(k, v, s, j))
  /\ cur' = [cur EXCEPT ![t] = [key |-> k, val |-> v, src |-> s, rec |-> NoRec]]
  /\ ret' = [ret EXCEPT ![t] = r]

\* Mutant of Leave: the watcher's unlock is missing.
LeaveKeepsLock(t) ==
  /\ Goto(t, "idle")
  /\ call' = [call EXCEPT ![t] = "none"]
  /\ cur' = [cur EXCEPT ![t] = NoCall]
  /\ ret' = [ret EXCEPT ![t] = "idle"]
  /\ todo' = [todo EXCEPT ![t] = NoEntries]
  /\ mtx' = IF mtx = t /\ t = "set" THEN NoThread ELSE mtx

\* Thread t leaves the call it is in.
Leave(t) ==
  /\ Goto(t, "idle")
  /\ call' = [call EXCEPT ![t] = "none"]
  /\ cur' = [cur EXCEPT ![t] = NoCall]
  /\ ret' = [ret EXCEPT ![t] = "idle"]
  /\ todo' = [todo EXCEPT ![t] = NoEntries]
  /\ mtx' = IF mtx = t THEN NoThread ELSE mtx

\* The end of setRawValue.  overrideValue unlocks mtx; the SET of the
\* partner id then calls loadFromJson without it, the watcher still holds it.
Return(t) ==
  /\ pc[t] = "return"
  /\ \/ /\ ret[t] = "idle"
        /\ Leave(t)
     \/ /\ ret[t] # "idle"
        /\ Goto(t, IF ret[t] = "unlock+load" THEN "load" ELSE ret[t])
        /\ mtx' = IF ret[t] = "unlock+load" THEN NoThread ELSE mtx
        /\ cur' = [cur EXCEPT ![t] = NoCall]
        /\ ret' = [ret EXCEPT ![t] = "idle"]
        /\ UNCHANGED <<call, todo>>
  /\ UNCHANGED <<running, disk, memory, active, resent, seen>>
-----------------------------------------------------------------------------
(* Starting the process and loading the defaults.                          *)

\* init: the cache is filled from bootstrap.ini, then the defaults follow.
EnterInit ==
  /\ dict' = IF storeFile = NoFile THEN NoEntries ELSE storeFile
  /\ mtx' = "set"
  /\ Goto("set", "load")
  /\ call' = [call EXCEPT !["set"] = "init"]
  /\ UNCHANGED <<cur, ret, todo>>

\* getInstance constructs the store; initBSPropertiesFileName constructs
\* the journal, which reads its file.
Start ==
  /\ ~running
  /\ running' = TRUE
  /\ journal' = journalFile
  /\ EnterInit
  /\ UNCHANGED <<disk, initDone, initialUpdate, rfcUpdate, active, resent, seen>>

\* A request that finds m_initDone false runs init again.
RetryInit ==
  /\ running
  /\ ~initDone
  /\ pc["set"] = "idle"
  /\ mtx = NoThread
  /\ EnterInit
  /\ UNCHANGED <<running, disk, journal, initDone, initialUpdate, rfcUpdate,
                 active, resent, seen>>

\* The first half of loadFromJson: select the defaults, note a missing
\* bootstrap.ini, and drop the defaults that disappeared.
Load(t) ==
  /\ pc[t] = "load"
  /\ IF Defaults = NoSection
     THEN /\ Leave(t)
          /\ UNCHANGED <<memory, active>>
     ELSE LET gone == Obsolete(Defaults) IN
          /\ initialUpdate' = (initialUpdate \/ storeFile = NoFile)
          /\ dict' = [k \in Keys |-> IF k \in gone THEN None ELSE dict[k]]
          /\ journal' = [k \in Keys |-> IF k \in gone THEN NoRec ELSE journal[k]]
          /\ active' = Defaults
          /\ todo' = [todo EXCEPT ![t] = Defaults]
          /\ Goto(t, IF gone = {} THEN "loop" ELSE "rm.open")
          /\ UNCHANGED <<initDone, rfcUpdate, mtx, call, cur, ret>>
  /\ UNCHANGED <<running, disk, resent, seen>>

\* The second half: apply each default, in the order of the JSON object.
\* Reading the current value takes mtx for a moment.
ApplyDefault(t) ==
  /\ pc[t] = "loop"
  /\ initialUpdate \/ mtx \in {NoThread, t}
  /\ \E k \in Keys :
       /\ todo[t][k] # None
       /\ SetRawValue(t, k, todo[t][k], "default", journal, "loop")
       /\ todo' = [todo EXCEPT ![t][k] = None]
  /\ UNCHANGED <<running, disk, memory, mtx, call, active, resent, seen>>

Loaded(t) ==
  /\ pc[t] = "loop"
  /\ todo[t] = NoEntries
  /\ initialUpdate' = FALSE
  /\ initDone' = (initDone \/ call[t] = "init")
  /\ Leave(t)
  /\ UNCHANGED <<running, disk, dict, journal, rfcUpdate, active, resent, seen>>
-----------------------------------------------------------------------------
(* The file steps of setRawValue and setJournalValue.                      *)

\* During the initial update a value is appended to the file.
Append(t) ==
  /\ pc[t] = "append"
  /\ LET k == cur[t].key IN
     /\ dict' = [dict EXCEPT ![k] = cur[t].val]
     /\ storeFile' = [IF storeFile = NoFile THEN NoEntries ELSE storeFile
                        EXCEPT ![k] = cur[t].val]
  /\ Goto(t, "jrn.open")
  /\ UNCHANGED <<running, fw, authPartner, journalFile, journal, initDone,
                 initialUpdate, rfcUpdate, mtx, call, cur, ret, todo, active, resent, seen>>

TruncateStore(t, from, to) ==
  /\ pc[t] = from
  /\ storeFile' = NoEntries
  /\ Goto(t, to)
  /\ UNCHANGED <<running, fw, authPartner, journalFile, memory, mtx, call,
                 cur, ret, todo, active, resent, seen>>

SetOpen(t) == TruncateStore(t, "set.open", "set.write")

\* The cache after setRawValue's assignment.
SetDict(t) == [dict EXCEPT ![cur[t].key] = cur[t].val]

\* Mutant of SetWrite: the file is written before the cache is updated.
SetWriteStale(t) ==
  /\ pc[t] = "set.write"
  /\ dict' = SetDict(t)
  /\ storeFile' = dict
  /\ Goto(t, "jrn.open")
  /\ UNCHANGED <<running, fw, authPartner, journalFile, journal, initDone,
                 initialUpdate, rfcUpdate, mtx, call, cur, ret, todo, active, resent, seen>>

SetWrite(t) ==
  /\ pc[t] = "set.write"
  /\ dict' = SetDict(t)
  /\ storeFile' = SetDict(t)
  /\ Goto(t, "jrn.open")
  /\ UNCHANGED <<running, fw, authPartner, journalFile, journal, initDone,
                 initialUpdate, rfcUpdate, mtx, call, cur, ret, todo, active, resent, seen>>

\* setJournalValue copies the record, then opens the file: appended to
\* during the initial update, truncated otherwise.
JrnOpen(t) ==
  /\ pc[t] = "jrn.open"
  /\ LET k == cur[t].key
         r == Journaled(k, cur[t].val, cur[t].src)
     IN  IF initialUpdate
         THEN /\ journal' = [journal EXCEPT ![k] = r]
              /\ journalFile' = [journalFile EXCEPT ![k] = Persisted(r)]
              /\ Goto(t, "return")
              /\ UNCHANGED cur
         ELSE /\ journalFile' = NoRecords
              /\ cur' = [cur EXCEPT ![t].rec = r]
              /\ Goto(t, "jrn.write")
              /\ UNCHANGED journal
  /\ UNCHANGED <<running, fw, authPartner, storeFile, dict, initDone,
                 initialUpdate, rfcUpdate, mtx, call, ret, todo, active, resent, seen>>

\* The journal after setJournalValue's assignment.
SetJournal(t) == [journal EXCEPT ![cur[t].key] = cur[t].rec]

JrnWrite(t) ==
  /\ pc[t] = "jrn.write"
  /\ journal' = SetJournal(t)
  /\ journalFile' = PersistedAll(SetJournal(t))
  /\ Goto(t, "return")
  /\ UNCHANGED <<running, fw, authPartner, storeFile, dict, initDone,
                 initialUpdate, rfcUpdate, mtx, call, cur, ret, todo, active, resent, seen>>

\* loadFromJson rewrites bootstrap.ini after it dropped entries.
RmOpen(t) == TruncateStore(t, "rm.open", "rm.write")

RmWrite(t) ==
  /\ pc[t] = "rm.write"
  /\ storeFile' = dict
  /\ Goto(t, "end.open")
  /\ UNCHANGED <<running, fw, authPartner, journalFile, memory, mtx, call,
                 cur, ret, todo, active, resent, seen>>

\* rfcUpdateEnd rewrites the journal, for loadFromJson and for ClearDBEnd.
EndOpen(t) ==
  /\ pc[t] = "end.open"
  /\ journalFile' = NoRecords
  /\ Goto(t, "end.write")
  /\ UNCHANGED <<running, fw, authPartner, storeFile, memory, mtx, call,
                 cur, ret, todo, active, resent, seen>>

AfterEnd(t) ==
  IF call[t] = "clearEnd"
  THEN rfcUpdate' = FALSE /\ Leave(t)
  ELSE Goto(t, "loop") /\ UNCHANGED <<rfcUpdate, mtx, call, cur, ret, todo>>

EndWrite(t) ==
  /\ pc[t] = "end.write"
  /\ journalFile' = PersistedAll(journal)
  /\ AfterEnd(t)
  /\ UNCHANGED <<running, fw, authPartner, storeFile, dict, journal, initDone,
                 initialUpdate, active, resent, seen>>
-----------------------------------------------------------------------------
(* The requests.                                                           *)

\* Mutant of Unmarked: resetClearRfc is not called.
UnmarkedNever(k) == journal

\* overrideValue of parameter k, up to the decision setRawValue takes: a
\* write in an RFC session takes the mark off the key.
Unmarked(k) ==
  IF rfcUpdate /\ Marked(k) THEN [journal EXCEPT ![k].clear = FALSE] ELSE journal

Overriding(c, k, v, s, r) ==
  /\ running
  /\ initDone
  /\ pc["set"] = "idle"
  /\ mtx = NoThread
  /\ mtx' = "set"
  /\ call' = [call EXCEPT !["set"] = c]
  /\ journal' = Unmarked(k)
  /\ SetRawValue("set", k, v, s, Unmarked(k), r)
  /\ resent' = IF ~rfcUpdate THEN resent
               ELSE IF s = "rfc" THEN resent \cup {k} ELSE resent \ {k}

\* A bootstrap parameter set by the RFC agent or by WebPA.  handleSetMsg
\* refuses a WebPA write to a parameter the data model reserves for RFC.
OverrideValue(k, v, s) ==
  /\ "override" \in Ops
  /\ s = "webpa" => k \notin RfcOnly
  /\ Overriding("override", k, v, s, "idle")
  /\ UNCHANGED <<running, disk, dict, initDone, initialUpdate, rfcUpdate,
                 todo, active, seen>>

\* set_Device_DeviceInfo_X_RDKCENTRAL_COM_Syndication_PartnerId: AuthService
\* is told the new id (its file follows now or later), the id is stored with
\* the requestor as its source, and the defaults are loaded again.
SetPartner(p, s) ==
  /\ "setPartner" \in Ops
  /\ ScriptPartner \notin {Empty, p}
  /\ Overriding("setPartner", PartnerIdKey, p, s, "unlock+load")
  /\ authPartner' \in {authPartner, p}
  /\ UNCHANGED <<running, fw, storeFile, journalFile, dict, initDone,
                 initialUpdate, rfcUpdate, todo, active, seen>>

\* ClearDB: rfcUpdateStarted marks every key whose value came from RFC.
\* overrideValue takes no lock for it.
ClearDBStart ==
  /\ "clear" \in Ops
  /\ running
  /\ initDone
  /\ pc["set"] = "idle"
  /\ rfcUpdate' = TRUE
  /\ journal' = [k \in Keys |-> IF Source(k) = "rfc"
                                THEN [journal[k] EXCEPT !.clear = TRUE]
                                ELSE journal[k]]
  /\ resent' = {}
  /\ UNCHANGED <<running, disk, dict, initDone, initialUpdate, control, active, seen>>

\* ClearDBEnd: clearRfcValues, then rfcUpdateEnd, again without the lock.
ClearDBEnd ==
  /\ "clear" \in Ops
  /\ running
  /\ initDone
  /\ pc["set"] = "idle"
  /\ Goto("set", "clr.open")
  /\ call' = [call EXCEPT !["set"] = "clearEnd"]
  /\ UNCHANGED <<running, disk, memory, mtx, cur, ret, todo, active, resent, seen>>

ClrOpen(t) == TruncateStore(t, "clr.open", "clr.write")

ClrWrite(t) ==
  /\ pc[t] = "clr.write"
  /\ dict' = ClearedDict
  /\ journal' = ClearedJournal
  /\ storeFile' = ClearedDict
  /\ Goto(t, "end.open")
  /\ UNCHANGED <<running, fw, authPartner, journalFile, initDone,
                 initialUpdate, rfcUpdate, mtx, call, cur, ret, todo, active, resent, seen>>

\* getAuthServicePartnerID has seen partnerId3.dat written, reads it, and
\* finds an id other than the stored one.  (The events themselves are not
\* modelled here: a read may follow any write, or none.)
WatchRead ==
  /\ "watch" \in Ops
  /\ running
  /\ pc["watch"] = "idle"
  /\ seen = None
  /\ mtx = NoThread
  /\ authPartner \notin {None, dict[PartnerIdKey]}
  /\ seen' = authPartner
  /\ UNCHANGED <<running, disk, memory, control, active, resent>>

\* Mutant of WatchReload: the reload does not take the lock.
WatchReloadUnlocked ==
  /\ "watch" \in Ops
  /\ running
  /\ pc["watch"] = "idle"
  /\ seen # None
  /\ call' = [call EXCEPT !["watch"] = "reload"]
  /\ SetRawValue("watch", PartnerIdKey, seen, "default", journal, "load")
  /\ seen' = None
  /\ UNCHANGED <<running, disk, memory, mtx, todo, active, resent>>

\* Once it has the lock it stores that id, though the file may by now hold
\* another, and loads the defaults again.
WatchReload ==
  /\ "watch" \in Ops
  /\ running
  /\ pc["watch"] = "idle"
  /\ mtx = NoThread
  /\ seen # None
  /\ mtx' = "watch"
  /\ call' = [call EXCEPT !["watch"] = "reload"]
  /\ SetRawValue("watch", PartnerIdKey, seen, "default", journal, "load")
  /\ seen' = None
  /\ UNCHANGED <<running, disk, memory, todo, active, resent>>
-----------------------------------------------------------------------------
(* What happens to the process and around it.                              *)

\* Opening a file fails: setRawValue returns false (the SET of the partner id
\* then loads nothing, the other callers go on), the journal's update is
\* skipped, loadFromJson gives up, clearRfcValues is skipped.
OpenFails(t) ==
  /\ pc[t] \in IOFaults
  /\ \/ /\ pc[t] \in {"append", "set.open"}
        /\ Goto(t, "return")
        /\ ret' = [ret EXCEPT ![t] = IF @ = "unlock+load" THEN "idle" ELSE @]
        /\ UNCHANGED <<rfcUpdate, mtx, call, cur, todo>>
     \/ /\ pc[t] = "jrn.open"
        /\ Goto(t, "return")
        /\ UNCHANGED <<rfcUpdate, mtx, call, cur, ret, todo>>
     \/ /\ pc[t] = "rm.open"
        /\ Leave(t)
        /\ UNCHANGED rfcUpdate
     \/ /\ pc[t] = "clr.open"
        /\ Goto(t, "end.open")
        /\ UNCHANGED <<rfcUpdate, mtx, call, cur, ret, todo>>
     \/ /\ pc[t] = "end.open"
        /\ AfterEnd(t)
  /\ UNCHANGED <<running, disk, dict, journal, initDone, initialUpdate, active, resent, seen>>

\* Any subset of the lines of a file that was being written.
Torn(file, none) ==
  {[k \in Keys |-> IF k \in kept THEN file[k] ELSE none] : kept \in SUBSET Keys}

\* The lines thread t was about to write to each file.
StoreLines(t) ==
  CASE pc[t] = "set.write" -> SetDict(t)
    [] pc[t] = "rm.write" -> dict
    [] pc[t] = "clr.write" -> ClearedDict
JournalLines(t) ==
  CASE pc[t] = "jrn.write" -> PersistedAll(SetJournal(t))
    [] pc[t] = "end.write" -> PersistedAll(journal)

\* The process dies or is stopped: the caches and the session flag are gone.
Crash ==
  /\ running
  /\ \A t \in Threads : pc[t] \in CrashPoints
  /\ LET st == {t \in Threads : pc[t] \in {"set.write", "rm.write", "clr.write"}}
         jt == {t \in Threads : pc[t] \in {"jrn.write", "end.write"}}
     IN  /\ storeFile' \in IF st = {} THEN {storeFile}
                           ELSE UNION {Torn(StoreLines(t), None) : t \in st}
         /\ journalFile' \in IF jt = {} THEN {journalFile}
                             ELSE UNION {Torn(JournalLines(t), NoRec) : t \in jt}
  /\ running' = FALSE
  /\ dict' = NoEntries
  /\ journal' = NoRecords
  /\ initDone' = FALSE
  /\ initialUpdate' = FALSE
  /\ rfcUpdate' = FALSE
  /\ mtx' = NoThread
  /\ pc' = [t \in Threads |-> "idle"]
  /\ call' = [t \in Threads |-> "none"]
  /\ cur' = [t \in Threads |-> NoCall]
  /\ ret' = [t \in Threads |-> "idle"]
  /\ todo' = [t \in Threads |-> NoEntries]
  /\ active' = NoEntries
  /\ resent' = {}
  /\ seen' = None
  /\ UNCHANGED <<fw, authPartner>>

\* Another image is booted.
Upgrade ==
  /\ "upgrade" \in Ops
  /\ ~running
  /\ fw' \in Firmwares \ {fw}
  /\ UNCHANGED <<running, authPartner, storeFile, journalFile, memory, control,
                 active, resent, seen>>

\* AuthService writes partnerId3.dat.
AuthServiceWrites(p) ==
  /\ "auth" \in Ops
  /\ authPartner # p
  /\ authPartner' = p
  /\ UNCHANGED <<running, fw, storeFile, journalFile, memory, control, active,
                 resent, seen>>
-----------------------------------------------------------------------------
\* One step of the call thread t is in.
Step(t) ==
  \/ Load(t) \/ ApplyDefault(t) \/ Loaded(t) \/ Return(t)
  \/ Append(t) \/ SetOpen(t) \/ SetWrite(t) \/ JrnOpen(t) \/ JrnWrite(t)
  \/ RmOpen(t) \/ RmWrite(t) \/ ClrOpen(t) \/ ClrWrite(t)
  \/ EndOpen(t) \/ EndWrite(t)

Request ==
  \/ \E k \in Keys \ {PartnerIdKey}, v \in Values \ Partners, s \in {"rfc", "webpa"} :
       OverrideValue(k, v, s)
  \/ \E p \in Partners, s \in {"rfc", "webpa", "iarm"} : SetPartner(p, s)
  \/ ClearDBStart
  \/ ClearDBEnd

Environment ==
  \/ Crash
  \/ Upgrade
  \/ \E p \in Partners : AuthServiceWrites(p)

Next ==
  \/ Start
  \/ RetryInit
  \/ \E t \in Threads : Step(t) \/ OpenFails(t)
  \/ Request
  \/ WatchRead
  \/ WatchReload
  \/ Environment

Spec == Init /\ [][Next]_vars

\* A thread inside a call keeps running, and the store's lock does not starve
\* a waiter: it is taken once for each write of partnerId3.dat.
FairSpec == Spec /\ \A t \in Threads : SF_vars(Step(t))
-----------------------------------------------------------------------------
(* Properties.                                                             *)

\* Type correctness of the store's state.
TypeOK ==
  /\ running \in BOOLEAN /\ initDone \in BOOLEAN
  /\ initialUpdate \in BOOLEAN /\ rfcUpdate \in BOOLEAN
  /\ fw \in Firmwares
  /\ authPartner \in Partners \cup {None}
  /\ dict \in Dict
  /\ storeFile \in Dict \cup {NoFile}
  /\ journal \in Journal
  /\ journalFile \in Journal
  /\ mtx \in Threads \cup {NoThread}
  /\ pc \in [Threads -> PCs]
  /\ call \in [Threads -> Calls]
  /\ cur \in [Threads -> Call \cup {NoCall}]
  /\ ret \in [Threads -> Returns]
  /\ todo \in [Threads -> [Keys -> Values \cup {None}]]
  /\ active \in [Keys -> Values \cup {None}]
  /\ resent \subseteq Keys
  /\ seen \in Partners \cup {None}

\* The store is initialised and no call is in progress.
Quiet == running /\ initDone /\ \A t \in Threads : call[t] = "none"

\* An override stays in force: between calls the value served for a key the
\* journal attributes to RFC or WebPA is the value that source wrote,
\* whatever restarts, upgrades, partner changes and reloads came between.
OverrideActive ==
  Quiet => \A k \in Keys :
             Source(k) \in {"rfc", "webpa"} => dict[k] = journal[k].upd

\* A key nobody has overridden is served with the default that the current
\* image and partner give it, after every boot and every reload.
DefaultServed ==
  Quiet => \A k \in Keys \ {PartnerIdKey} :
             active[k] # None /\ Source(k) \notin {"rfc", "webpa"} => dict[k] = active[k]

\* The journal holds the current default of every key, overridden or not, so
\* that the end of an RFC session restores that one and not an older one.
FirmwareRecorded ==
  Quiet => \A k \in Keys : active[k] # None =>
             journal[k] # NoRec /\ journal[k].fw = active[k]

\* Between calls both files hold what the caches hold, up to what the
\* journal's format can express: a restart at such a moment loses nothing.
StoreSynced ==
  Quiet => /\ storeFile = dict
           /\ journalFile = PersistedAll(journal)

\* When an RFC session (ClearDB ... ClearDBEnd) ends, exactly the keys the
\* session wrote are attributed to RFC and no key is left marked.
RfcSessionExact ==
  [][ rfcUpdate /\ ~rfcUpdate' /\ running' =>
        \A k \in Keys : /\ Source(k)' = "rfc" <=> k \in resent
                        /\ ~Marked(k)' ]_vars

\* The calls of the two threads exclude each other.
StoreMutualExclusion ==
  \A t, u \in Threads : call[t] # "none" /\ call[u] # "none" => t = u

\* Every call comes to its end: no thread waits for the store's lock forever.
EveryCallReturns ==
  \A t \in Threads : []<>(call[t] = "none")
============================================================================
