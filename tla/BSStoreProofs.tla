--------------------------- MODULE BSStoreProofs ---------------------------
(* Theorems about the bootstrap store for every set of keys, values,        *)
(* partners and images, checked by TLAPS.                                  *)
EXTENDS BSStore, TLAPS

\* A thread between the entry of setRawValue and its last file step knows
\* which key it is setting.
InSetRawValue == {"append", "set.open", "set.write", "jrn.open", "jrn.write"}
CallKnown == \A t \in Threads : pc[t] \in InSetRawValue => cur[t] \in Call
TypeInv == TypeOK /\ CallKnown

ConfigType == [Keys -> Values \cup {None}]

\* What loadFromJson selects is a set of defaults or no section at all.
LEMMA DefaultsType ==
  ASSUME TypeOK, Defaults # NoSection
  PROVE  Defaults \in ConfigType
<1> DEFINE p == IF ScriptPartner = Empty THEN "default_boot" ELSE ScriptPartner
<1> DEFINE g == Section(Generic[fw], p)
<1> DEFINE d == Section(Device[fw], p)
<1>1. \A file \in {Generic[fw], Device[fw]} :
        Section(file, p) \in ConfigType \cup {None}
  BY Zenon, BSAssumption DEF TypeOK, Section, ConfigType, NoSection
<1>2. g \in ConfigType \cup {None} /\ d \in ConfigType \cup {None}
  BY Zenon, <1>1
<1>3. Defaults = IF g = NoSection THEN NoSection
                 ELSE [k \in Keys |-> IF d # NoSection /\ d[k] # None THEN d[k] ELSE g[k]]
  BY Zenon DEF Defaults
<1> HIDE DEF g, d
<1> QED
  BY Zenon, <1>2, <1>3 DEF ConfigType, NoSection

\* The journal's operations keep its type.
LEMMA JournalTypes ==
  ASSUME TypeOK
  PROVE  /\ \A k \in Keys, v \in Values, s \in Sources : Journaled(k, v, s) \in Rec
         /\ \A r \in Rec \cup {NoRec} : Persisted(r) \in Rec \cup {NoRec}
         /\ \A j \in Journal : PersistedAll(j) \in Journal
         /\ ClearedDict \in Dict
         /\ ClearedJournal \in Journal
         /\ \A k \in Keys : Unmarked(k) \in Journal
<1> USE BSAssumption DEF NoRec
<1>1. ASSUME NEW k \in Keys, NEW v \in Values, NEW s \in Sources
      PROVE  Journaled(k, v, s) \in Rec
  <2>1. journal[k] \in Rec \cup {None}
    BY Zenon DEF TypeOK, Journal
  <2> QED
    BY Zenon, <2>1 DEF Journaled, Rec, Stored, Sources
<1>2. ASSUME NEW r \in Rec \cup {NoRec}
      PROVE  Persisted(r) \in Rec \cup {NoRec}
  BY Zenon DEF Persisted, Rec, Sources
<1>3. \A j \in Journal : PersistedAll(j) \in Journal
  BY Zenon, <1>2 DEF PersistedAll, Journal
<1>4. ClearedDict \in Dict
  BY Zenon DEF ClearedDict, Dict, TypeOK, Journal, Rec, Marked
<1>5. ASSUME NEW r \in Rec
      PROVE  /\ [r EXCEPT !.upd = Dash, !.src = "default", !.clear = FALSE] \in Rec
             /\ [r EXCEPT !.clear = FALSE] \in Rec
             /\ [r EXCEPT !.clear = TRUE] \in Rec
  BY Zenon DEF Rec, Stored, Sources
<1>6. \A k \in Keys : journal[k] \in Rec \cup {None}
  BY Zenon DEF TypeOK, Journal
<1>7. \A k \in Keys : Marked(k) => journal[k] \in Rec
  BY Zenon, <1>6 DEF Marked
<1>8. ClearedJournal \in Journal
  BY Zenon, <1>5, <1>6, <1>7 DEF ClearedJournal, Journal
<1>9. \A k \in Keys : Unmarked(k) \in Journal
  BY Zenon, <1>5, <1>6, <1>7 DEF Unmarked, Journal, TypeOK
<1> QED
  BY Zenon, <1>1, <1>2, <1>3, <1>4, <1>8, <1>9

\* The decision of setRawValue is a program point.
LEMMA DecisionType ==
  \A k, v, s, j : Decision(k, v, s, j) \in {"append", "jrn.open", "return", "set.open"}
  BY Zenon DEF Decision

LEMMA InitType == Init => TypeInv
<1> SUFFICES ASSUME Init PROVE TypeInv
  BY Zenon
<1>1. NoEntries \in Dict /\ NoEntries \in ConfigType /\ NoRecords \in Journal
  BY Zenon DEF NoEntries, NoRecords, Dict, ConfigType, Journal, NoRec
<1>2. /\ "idle" \in PCs /\ "none" \in Calls /\ "idle" \in Returns
      /\ "idle" \notin InSetRawValue
  BY Zenon DEF PCs, Calls, Returns, InSetRawValue
<1>3. /\ running \in BOOLEAN /\ initDone \in BOOLEAN
      /\ initialUpdate \in BOOLEAN /\ rfcUpdate \in BOOLEAN
  BY Zenon DEF Init
<1>4. CallKnown
  BY Zenon, <1>2 DEF Init, CallKnown
<1> QED
  BY Zenon, <1>1, <1>2, <1>3, <1>4 DEF Init, TypeInv, TypeOK, NoFile, NoThread, NoCall, ConfigType

\* Every step keeps the types, and every thread inside setRawValue knows its key.
LEMMA NextType == TypeInv /\ [Next]_vars => TypeInv'
<1> SUFFICES ASSUME TypeInv, [Next]_vars PROVE TypeInv'
  BY Zenon
<1> USE BSAssumption DEF TypeInv, NoFile, NoThread, NoCall, NoRec, NoSection
<1>t. "set" \in Threads /\ "watch" \in Threads
  BY Zenon DEF Threads
<1>g. TypeOK
  BY Zenon
<1>e. NoEntries \in Dict /\ NoEntries \in ConfigType /\ NoRecords \in Journal
  BY Zenon DEF NoEntries, NoRecords, Dict, ConfigType, Journal
<1>leave. ASSUME NEW t \in Threads, Leave(t)
          PROVE  /\ pc' \in [Threads -> PCs] /\ call' \in [Threads -> Calls]
                 /\ cur' \in [Threads -> Call \cup {None}]
                 /\ ret' \in [Threads -> Returns]
                 /\ todo' \in [Threads -> ConfigType]
                 /\ mtx' \in Threads \cup {"none"}
                 /\ CallKnown'
  BY Zenon, <1>leave, <1>e DEF Leave, Goto, TypeOK, ConfigType, PCs, Calls, Returns, CallKnown, InSetRawValue
<1>set. ASSUME NEW t \in Threads, NEW k \in Keys, NEW v \in Values, NEW s \in Sources,
               NEW j, NEW r \in Returns, SetRawValue(t, k, v, s, j, r)
        PROVE  /\ pc' \in [Threads -> PCs]
               /\ cur' \in [Threads -> Call \cup {None}]
               /\ ret' \in [Threads -> Returns]
               /\ CallKnown'
  <2>1. [key |-> k, val |-> v, src |-> s, rec |-> None] \in Call
    BY Zenon DEF Call
  <2>2. Decision(k, v, s, j) \in PCs
    BY Zenon, DecisionType DEF PCs
  <2> QED
    BY Zenon, <1>set, <2>1, <2>2 DEF SetRawValue, Goto, TypeOK, CallKnown
<1>1. CASE Start
  BY Zenon, <1>1, <1>t, <1>e DEF Start, EnterInit, Goto, TypeOK, CallKnown, PCs, Calls, disk, InSetRawValue
<1>2. CASE RetryInit
  BY Zenon, <1>2, <1>t, <1>e DEF RetryInit, EnterInit, Goto, TypeOK, CallKnown, PCs, Calls, disk, InSetRawValue
<1>3. ASSUME NEW t \in Threads, Load(t) PROVE TypeInv'
  <2>1. CASE Defaults = NoSection
    BY Zenon, <1>3, <2>1, <1>leave DEF Load, TypeOK, disk, memory, ConfigType
  <2>2. CASE Defaults # NoSection
    <3>1. Defaults \in ConfigType
      BY Zenon, <2>2, DefaultsType
    <3>2. /\ dict' \in Dict /\ journal' \in Journal
          /\ active' \in ConfigType /\ todo' \in [Threads -> ConfigType]
      BY <1>3, <2>2, <3>1 DEF Load, TypeOK, ConfigType, Dict, Journal
    <3>3. initialUpdate' \in BOOLEAN
      BY Zenon, <1>3, <2>2 DEF Load
    <3>4. pc' \in [Threads -> PCs] /\ CallKnown'
      BY <1>3, <2>2 DEF Load, Goto, TypeOK, PCs, CallKnown, InSetRawValue
    <3> QED
      BY Zenon, <1>3, <2>2, <3>2, <3>3, <3>4 DEF Load, TypeOK, disk, ConfigType
  <2> QED
    BY Zenon, <2>1, <2>2
<1>4. ASSUME NEW t \in Threads, ApplyDefault(t) PROVE TypeInv'
  <2>1. PICK k \in Keys : /\ todo[t][k] # None
                          /\ SetRawValue(t, k, todo[t][k], "default", journal, "loop")
                          /\ todo' = [todo EXCEPT ![t][k] = None]
    BY Zenon, <1>4 DEF ApplyDefault
  <2>2. todo[t][k] \in Values /\ "default" \in Sources /\ "loop" \in Returns
    BY <2>1 DEF TypeOK, Sources, Returns
  <2> QED
    BY Zenon, <1>4, <2>1, <2>2, <1>set DEF ApplyDefault, TypeOK, disk, memory
<1>5. ASSUME NEW t \in Threads, Loaded(t) PROVE TypeInv'
  BY Zenon, <1>5, <1>leave DEF Loaded, TypeOK, disk, ConfigType
<1>6. ASSUME NEW t \in Threads, Return(t) PROVE TypeInv'
  <2>1. CASE ret[t] = "idle"
    BY Zenon, <1>6, <2>1, <1>leave DEF Return, TypeOK, disk, memory, ConfigType
  <2>2. CASE ret[t] # "idle"
    <3> DEFINE l == IF ret[t] = "unlock+load" THEN "load" ELSE ret[t]
    <3>1. l \in PCs \ InSetRawValue
      BY Zenon, <2>2 DEF TypeOK, PCs, Returns, InSetRawValue
    <3>3. /\ pc' = [pc EXCEPT ![t] = l]
          /\ mtx' \in {mtx, "none"}
          /\ cur' = [cur EXCEPT ![t] = None]
          /\ ret' = [ret EXCEPT ![t] = "idle"]
          /\ call' = call /\ todo' = todo
      BY Zenon, <1>6, <2>2 DEF Return, Goto
    <3> HIDE DEF l
    <3>4. CallKnown'
      BY Zenon, <3>1, <3>3 DEF CallKnown, TypeOK
    <3>5. ret' \in [Threads -> Returns]
      BY Zenon, <3>3 DEF TypeOK, Returns
    <3> QED
      BY Zenon, <1>6, <3>1, <3>3, <3>4, <3>5 DEF Return, TypeOK, disk, memory
  <2> QED
    BY Zenon, <2>1, <2>2
<1>7. ASSUME NEW t \in Threads, Append(t) PROVE TypeInv'
  <2>1. cur[t] \in Call
    BY Zenon, <1>7 DEF Append, CallKnown, InSetRawValue
  <2>2. cur[t].key \in Keys /\ cur[t].val \in Stored
    BY Zenon, <2>1 DEF Call, Stored
  <2>3. \A d \in Dict : [d EXCEPT ![cur[t].key] = cur[t].val] \in Dict
    BY Zenon, <2>2 DEF Dict
  <2>4. dict' \in Dict
    BY Zenon, <1>7, <2>3 DEF Append, TypeOK
  <2>5. (IF storeFile = None THEN NoEntries ELSE storeFile) \in Dict
    BY Zenon, <1>e DEF TypeOK
  <2>6. storeFile' \in Dict
    BY Zenon, <1>7, <2>3, <2>5 DEF Append
  <2> QED
    BY Zenon, <1>7, <2>1, <2>4, <2>6 DEF Append, Goto, TypeOK, PCs, CallKnown
<1>8. ASSUME NEW t \in Threads, NEW a, NEW b \in PCs, TruncateStore(t, a, b),
             b \in InSetRawValue => a \in InSetRawValue
      PROVE  TypeInv'
  BY Zenon, <1>8, <1>e DEF TruncateStore, Goto, TypeOK, memory, CallKnown
<1>9. ASSUME NEW t \in Threads, SetWrite(t) PROVE TypeInv'
  <2>1. cur[t] \in Call
    BY Zenon, <1>9 DEF SetWrite, CallKnown, InSetRawValue
  <2>2. SetDict(t) \in Dict
    BY Zenon, <2>1 DEF SetDict, TypeOK, Dict, Call, Stored
  <2> QED
    BY Zenon, <1>9, <2>1, <2>2 DEF SetWrite, Goto, TypeOK, PCs, CallKnown
<1>10. ASSUME NEW t \in Threads, JrnOpen(t) PROVE TypeInv'
  <2> DEFINE r == Journaled(cur[t].key, cur[t].val, cur[t].src)
  <2>1. cur[t] \in Call
    BY Zenon, <1>10 DEF JrnOpen, CallKnown, InSetRawValue
  <2>2. r \in Rec /\ Persisted(r) \in Rec \cup {None} /\ cur[t].key \in Keys
    BY Zenon, <2>1, JournalTypes DEF Call
  <2>3. [cur[t] EXCEPT !.rec = r] \in Call
    BY Zenon, <2>1, <2>2 DEF Call
  <2> HIDE DEF r
  <2>4. CASE initialUpdate
    <3>1. /\ journal' = [journal EXCEPT ![cur[t].key] = r]
          /\ journalFile' = [journalFile EXCEPT ![cur[t].key] = Persisted(r)]
      BY Zenon, <1>10, <2>4 DEF JrnOpen, r
    <3>2. journal' \in Journal /\ journalFile' \in Journal
      BY Zenon, <2>2, <3>1 DEF TypeOK, Journal
    <3> QED
      BY <1>10, <2>4, <3>2 DEF JrnOpen, Goto, TypeOK, PCs, CallKnown, InSetRawValue
  <2>5. CASE ~initialUpdate
    <3>1. cur' = [cur EXCEPT ![t] = [cur[t] EXCEPT !.rec = r]]
      BY Zenon, <1>10, <2>5 DEF JrnOpen, r
    <3> QED
      BY ZenonT(40), <1>10, <2>3, <2>5, <3>1, <1>e DEF JrnOpen, Goto, TypeOK, PCs, CallKnown
  <2> QED
    BY Zenon, <2>4, <2>5
<1>11. ASSUME NEW t \in Threads, JrnWrite(t) PROVE TypeInv'
  <2>1. cur[t] \in Call
    BY Zenon, <1>11 DEF JrnWrite, CallKnown, InSetRawValue
  <2>2. SetJournal(t) \in Journal
    BY Zenon, <2>1 DEF SetJournal, TypeOK, Journal, Call
  <2> QED
    BY <1>11, <2>2, JournalTypes DEF JrnWrite, Goto, TypeOK, PCs, CallKnown, InSetRawValue
<1>12. ASSUME NEW t \in Threads, RmWrite(t) PROVE TypeInv'
  BY Zenon, <1>12 DEF RmWrite, Goto, TypeOK, memory, PCs, CallKnown, InSetRawValue
<1>13. ASSUME NEW t \in Threads, EndOpen(t) PROVE TypeInv'
  BY ZenonT(40), <1>13, <1>e DEF EndOpen, Goto, TypeOK, memory, PCs, CallKnown, InSetRawValue
<1>after. ASSUME NEW t \in Threads, AfterEnd(t)
          PROVE  /\ pc' \in [Threads -> PCs] /\ call' \in [Threads -> Calls]
                 /\ cur' \in [Threads -> Call \cup {None}]
                 /\ ret' \in [Threads -> Returns]
                 /\ todo' \in [Threads -> ConfigType]
                 /\ mtx' \in Threads \cup {"none"}
                 /\ rfcUpdate' \in BOOLEAN
                 /\ CallKnown'
  <2>1. CASE call[t] = "clearEnd"
    BY Zenon, <1>after, <2>1, <1>leave DEF AfterEnd
  <2>2. CASE call[t] # "clearEnd"
    BY <1>after, <2>2 DEF AfterEnd, Goto, TypeOK, PCs, CallKnown, InSetRawValue, ConfigType
  <2> QED
    BY Zenon, <2>1, <2>2
<1>14. ASSUME NEW t \in Threads, EndWrite(t) PROVE TypeInv'
  <2>1. PersistedAll(journal) \in Journal
    BY Zenon, JournalTypes DEF TypeOK
  <2> QED
    BY Zenon, <1>14, <2>1, <1>after DEF EndWrite, TypeOK, ConfigType
<1>15. ASSUME NEW t \in Threads, ClrWrite(t) PROVE TypeInv'
  BY Zenon, <1>15, JournalTypes DEF ClrWrite, Goto, TypeOK, PCs, CallKnown, InSetRawValue
<1>over. ASSUME NEW c \in Calls, NEW k \in Keys, NEW v \in Values, NEW s \in Sources,
                NEW r \in Returns, Overriding(c, k, v, s, r)
         PROVE  /\ pc' \in [Threads -> PCs] /\ call' \in [Threads -> Calls]
                /\ cur' \in [Threads -> Call \cup {None}]
                /\ ret' \in [Threads -> Returns]
                /\ mtx' \in Threads \cup {"none"}
                /\ journal' \in Journal
                /\ resent' \subseteq Keys
                /\ CallKnown'
  <2>1. SetRawValue("set", k, v, s, Unmarked(k), r)
    BY Zenon, <1>over DEF Overriding
  <2>2. /\ pc' \in [Threads -> PCs]
        /\ cur' \in [Threads -> Call \cup {None}]
        /\ ret' \in [Threads -> Returns]
        /\ CallKnown'
    BY Zenon, <1>t, <2>1, <1>set
  <2>3. journal' \in Journal
    BY Zenon, <1>over, JournalTypes DEF Overriding
  <2> QED
    BY Zenon, <1>over, <2>2, <2>3, <1>t DEF Overriding, TypeOK
<1>16. ASSUME NEW k \in Keys, NEW v \in Values, NEW s \in {"rfc", "webpa"},
              OverrideValue(k, v, s)
       PROVE  TypeInv'
  <2>1. "override" \in Calls /\ s \in Sources /\ "idle" \in Returns
    BY Zenon DEF Calls, Sources, Returns
  <2> QED
    BY Zenon, <1>16, <2>1, <1>over DEF OverrideValue, TypeOK, disk
<1>17. ASSUME NEW p \in Partners, NEW s \in {"rfc", "webpa", "iarm"}, SetPartner(p, s)
       PROVE  TypeInv'
  <2>1. "setPartner" \in Calls /\ s \in Sources /\ "unlock+load" \in Returns
    BY Zenon DEF Calls, Sources, Returns
  <2> QED
    BY Zenon, <1>17, <2>1, <1>over DEF SetPartner, TypeOK
<1>18. CASE ClearDBStart
  <2>1. \A r \in Rec : [r EXCEPT !.clear = TRUE] \in Rec
    BY Zenon DEF Rec
  <2>2. \A k \in Keys : Source(k) = "rfc" => journal[k] \in Rec
    BY Zenon DEF Source, TypeOK, Journal
  <2>3. journal' \in Journal
    BY Zenon, <1>18, <2>1, <2>2 DEF ClearDBStart, Journal, TypeOK
  <2> QED
    BY Zenon, <1>18, <2>3 DEF ClearDBStart, TypeOK, disk, control, CallKnown
<1>19. CASE ClearDBEnd
  BY Zenon, <1>19, <1>t DEF ClearDBEnd, Goto, TypeOK, disk, memory, PCs, Calls, CallKnown, InSetRawValue
<1>20. CASE WatchReload
  <2>1. seen \in Values /\ "default" \in Sources /\ "load" \in Returns
    BY Zenon, <1>20 DEF WatchReload, TypeOK, Sources, Returns
  <2>2. /\ pc' \in [Threads -> PCs]
        /\ cur' \in [Threads -> Call \cup {None}]
        /\ ret' \in [Threads -> Returns]
        /\ CallKnown'
    BY Zenon, <1>20, <2>1, <1>t, <1>set DEF WatchReload
  <2> QED
    BY Zenon, <1>20, <2>2, <1>t DEF WatchReload, TypeOK, disk, memory, Calls
<1>21. ASSUME NEW t \in Threads, OpenFails(t) PROVE TypeInv'
  <2>1. CASE pc[t] \in {"append", "set.open", "jrn.open", "clr.open"}
    <3>1. CallKnown' /\ pc' \in [Threads -> PCs] /\ ret' \in [Threads -> Returns]
      BY <1>21, <2>1 DEF OpenFails, Goto, TypeOK, PCs, Returns, CallKnown, InSetRawValue
    <3> QED
      BY Zenon, <1>21, <2>1, <3>1 DEF OpenFails, TypeOK, disk
  <2>2. CASE pc[t] = "rm.open"
    BY Zenon, <1>21, <2>2, <1>leave DEF OpenFails, TypeOK, disk, ConfigType
  <2>3. CASE pc[t] = "end.open"
    BY Zenon, <1>21, <2>3, <1>after DEF OpenFails, TypeOK, disk, ConfigType
  <2> QED
    BY Zenon, <1>21, <2>1, <2>2, <2>3 DEF OpenFails
<1>22. CASE Crash
  <2>1. \A f \in Dict : Torn(f, None) \subseteq Dict
    BY DEF Torn, Dict
  <2>2. \A f \in Journal : Torn(f, None) \subseteq Journal
    BY Zenon DEF Torn, Journal
  <2>3. ASSUME NEW t \in Threads, pc[t] \in {"set.write", "rm.write", "clr.write"}
        PROVE  StoreLines(t) \in Dict
    <3>1. CASE pc[t] = "set.write"
      <4>1. cur[t] \in Call
        BY Zenon, <3>1 DEF CallKnown, InSetRawValue
      <4> QED
        BY Zenon, <3>1, <4>1 DEF StoreLines, SetDict, TypeOK, Dict, Call, Stored
    <3>2. CASE pc[t] = "rm.write"
      BY Zenon, <3>2 DEF StoreLines, TypeOK
    <3>3. CASE pc[t] = "clr.write"
      BY Zenon, <3>3, JournalTypes DEF StoreLines
    <3> QED
      BY Zenon, <2>3, <3>1, <3>2, <3>3
  <2>4. ASSUME NEW t \in Threads, pc[t] \in {"jrn.write", "end.write"}
        PROVE  JournalLines(t) \in Journal
    <3>1. CASE pc[t] = "jrn.write"
      <4>1. cur[t] \in Call
        BY Zenon, <3>1 DEF CallKnown, InSetRawValue
      <4>2. SetJournal(t) \in Journal
        BY Zenon, <4>1 DEF SetJournal, TypeOK, Journal, Call
      <4> QED
        BY Zenon, <3>1, <4>2, JournalTypes DEF JournalLines
    <3>2. CASE pc[t] = "end.write"
      BY Zenon, <3>2, JournalTypes DEF JournalLines, TypeOK
    <3> QED
      BY Zenon, <2>4, <3>1, <3>2
  <2>5. storeFile' \in Dict \cup {None} /\ journalFile' \in Journal
    BY <1>22, <2>1, <2>2, <2>3, <2>4 DEF Crash, TypeOK
  <2>6. /\ running' \in BOOLEAN /\ initDone' \in BOOLEAN
        /\ initialUpdate' \in BOOLEAN /\ rfcUpdate' \in BOOLEAN
    BY Zenon, <1>22 DEF Crash
  <2>7. /\ pc' \in [Threads -> PCs] /\ call' \in [Threads -> Calls]
        /\ cur' \in [Threads -> Call \cup {None}] /\ ret' \in [Threads -> Returns]
        /\ todo' \in [Threads -> ConfigType] /\ CallKnown'
    BY Zenon, <1>22, <1>e DEF Crash, PCs, Calls, Returns, CallKnown, InSetRawValue
  <2> QED
    BY Zenon, <1>22, <1>e, <2>5, <2>6, <2>7 DEF Crash, TypeOK, ConfigType
<1>23. CASE Upgrade
  BY Zenon, <1>23 DEF Upgrade, TypeOK, memory, control, CallKnown
<1>27. CASE WatchRead
  BY Zenon, <1>27 DEF WatchRead, TypeOK, disk, memory, control, CallKnown
<1>24. ASSUME NEW p \in Partners, AuthServiceWrites(p) PROVE TypeInv'
  BY Zenon, <1>24 DEF AuthServiceWrites, TypeOK, memory, control, CallKnown
<1>25. CASE UNCHANGED vars
  BY Zenon, <1>25 DEF vars, disk, memory, control, TypeOK, CallKnown
<1>26. ASSUME NEW t \in Threads, Step(t) PROVE TypeInv'
  <2>1. {"set.write", "rm.write", "clr.write"} \subseteq PCs
    BY Zenon DEF PCs
  <2>2. SetOpen(t) \/ RmOpen(t) \/ ClrOpen(t) => TypeInv'
    BY Zenon, <2>1, <1>8 DEF SetOpen, RmOpen, ClrOpen, InSetRawValue
  <2> QED
    BY Zenon, <1>26, <2>2, <1>3, <1>4, <1>5, <1>6, <1>7, <1>9, <1>10, <1>11, <1>12, <1>13,
       <1>14, <1>15 DEF Step
<1> QED
  BY <1>1, <1>2, <1>16, <1>17, <1>18, <1>19, <1>20, <1>21, <1>22, <1>23, <1>24,
     <1>25, <1>26, <1>27 DEF Next, Request, Environment

\* The store's state keeps its types through every interleaving of the two
\* threads, every crash and every failure to open a file.
THEOREM TypeCorrect == Spec => []TypeOK
<1>1. TypeInv => TypeOK
  BY Zenon DEF TypeInv
<1> QED
  BY InitType, NextType, <1>1, PTL DEF Spec
-----------------------------------------------------------------------------
(* The lock theorem.                                                       *)

\* The schedules under which the calls of the two threads exclude each other:
\* the partner id is not watched, or nothing that bypasses the lock is used.
Unwatched == "watch" \notin Ops
Locked == "clear" \notin Ops /\ "setPartner" \notin Ops

\* Who is inside the store, and who holds its lock.
LockInv ==
  /\ \A t \in Threads : pc[t] = "idle" <=> call[t] = "none"
  /\ ~running => \A t \in Threads : call[t] = "none"
  /\ Unwatched => call["watch"] = "none"
  /\ Locked => \A t \in Threads :
       /\ call[t] # "none" => mtx = t
       /\ ret[t] # "unlock+load"
       /\ call[t] \notin {"clearEnd", "setPartner"}

\* LockInv holds of every schedule.
LEMMA LockInit == Init => LockInv
  BY Zenon DEF Init, LockInv, Threads

LEMMA LockNext == TypeInv /\ LockInv /\ [Next]_vars => LockInv'
<1> SUFFICES ASSUME TypeInv, LockInv, [Next]_vars PROVE LockInv'
  BY Zenon
<1> USE DEF NoThread
<1>t. "set" \in Threads /\ "watch" \in Threads /\ "none" \notin Threads
  BY Zenon DEF Threads
<1>y. /\ pc \in [Threads -> PCs] /\ call \in [Threads -> Calls]
      /\ ret \in [Threads -> Returns]
  BY Zenon DEF TypeInv, TypeOK
\* A step that moves a thread inside its call.
<1>move. ASSUME NEW t \in Threads, pc[t] # "idle", NEW l, l # "idle",
                pc' = [pc EXCEPT ![t] = l],
                UNCHANGED <<running, call, mtx>>,
                ret' = ret \/ (\E r : r # "unlock+load" /\ ret' = [ret EXCEPT ![t] = r])
         PROVE  LockInv'
  BY Zenon, <1>move, <1>y, <1>t DEF LockInv
<1>leave. ASSUME NEW t \in Threads, Leave(t), UNCHANGED running
          PROVE  LockInv'
  BY Zenon, <1>leave, <1>y, <1>t DEF LockInv, Leave, Goto
<1>1. CASE Start
  <2>1. /\ pc' = [pc EXCEPT !["set"] = "load"]
        /\ call' = [call EXCEPT !["set"] = "init"]
        /\ mtx' = "set" /\ ret' = ret /\ running' = TRUE /\ ~running
    BY Zenon, <1>1 DEF Start, EnterInit, Goto
  <2> QED
    BY Zenon, <2>1, <1>y, <1>t DEF LockInv, Threads
<1>2. CASE RetryInit
  <2>1. /\ pc' = [pc EXCEPT !["set"] = "load"]
        /\ call' = [call EXCEPT !["set"] = "init"]
        /\ mtx' = "set" /\ ret' = ret /\ running' = running /\ running
        /\ mtx = "none"
    BY Zenon, <1>2 DEF RetryInit, EnterInit, Goto
  <2> QED
    BY Zenon, <2>1, <1>y, <1>t DEF LockInv, Threads
<1>3. ASSUME NEW t \in Threads, Load(t) PROVE LockInv'
  <2>1. CASE Defaults = NoSection
    BY Zenon, <1>3, <2>1, <1>leave DEF Load
  <2>2. CASE Defaults # NoSection
    <3>1. PICK l : l # "idle" /\ pc' = [pc EXCEPT ![t] = l]
      BY Zenon, <1>3, <2>2 DEF Load, Goto
    <3> QED
      BY Zenon, <1>3, <2>2, <3>1, <1>move DEF Load
  <2> QED
    BY Zenon, <2>1, <2>2
<1>4. ASSUME NEW t \in Threads, ApplyDefault(t) PROVE LockInv'
  <2>1. PICK k \in Keys : SetRawValue(t, k, todo[t][k], "default", journal, "loop")
    BY Zenon, <1>4 DEF ApplyDefault
  <2>2. PICK l : l # "idle" /\ pc' = [pc EXCEPT ![t] = l]
    BY Zenon, <2>1, DecisionType DEF SetRawValue, Goto
  <2>3. \E r : r # "unlock+load" /\ ret' = [ret EXCEPT ![t] = r]
    BY Zenon, <2>1 DEF SetRawValue
  <2> QED
    BY Zenon, <1>4, <2>2, <2>3, <1>move DEF ApplyDefault
<1>5. ASSUME NEW t \in Threads, Loaded(t) PROVE LockInv'
  BY Zenon, <1>5, <1>leave DEF Loaded
<1>6. ASSUME NEW t \in Threads, Return(t) PROVE LockInv'
  <2>1. CASE ret[t] = "idle"
    BY Zenon, <1>6, <2>1, <1>leave DEF Return
  <2>2. CASE ret[t] # "idle"
    BY Zenon, <1>6, <2>2, <1>y, <1>t DEF Return, Goto, LockInv
  <2> QED
    BY Zenon, <2>1, <2>2
<1>7. ASSUME NEW t \in Threads,
             Append(t) \/ SetOpen(t) \/ SetWrite(t) \/ JrnOpen(t) \/ JrnWrite(t) \/ RmOpen(t)
               \/ RmWrite(t) \/ ClrOpen(t) \/ ClrWrite(t) \/ EndOpen(t)
      PROVE  LockInv'
  <2>1. PICK l : l # "idle" /\ pc' = [pc EXCEPT ![t] = l]
    BY Zenon, <1>7 DEF Append, SetOpen, SetWrite, JrnOpen, JrnWrite, RmOpen, RmWrite, ClrOpen,
       ClrWrite, EndOpen, TruncateStore, Goto
  <2>2. pc[t] # "idle" /\ UNCHANGED <<running, call, mtx, ret>>
    BY Zenon, <1>7 DEF Append, SetOpen, SetWrite, JrnOpen, JrnWrite, RmOpen, RmWrite, ClrOpen,
       ClrWrite, EndOpen, TruncateStore
  <2> QED
    BY Zenon, <2>1, <2>2, <1>move
<1>after. ASSUME NEW t \in Threads, pc[t] # "idle", AfterEnd(t), UNCHANGED running
          PROVE  LockInv'
  <2>1. CASE call[t] = "clearEnd"
    BY Zenon, <1>after, <2>1, <1>leave DEF AfterEnd
  <2>2. CASE call[t] # "clearEnd"
    BY Zenon, <1>after, <2>2, <1>move DEF AfterEnd, Goto
  <2> QED
    BY Zenon, <2>1, <2>2
<1>8. ASSUME NEW t \in Threads, EndWrite(t) PROVE LockInv'
  BY Zenon, <1>8, <1>after DEF EndWrite
<1>9. ASSUME NEW c \in Calls \ {"none"}, NEW k, NEW v, NEW s, NEW r,
             Overriding(c, k, v, s, r), UNCHANGED running,
             Locked => c # "setPartner" /\ c # "clearEnd" /\ r # "unlock+load"
      PROVE  LockInv'
  <2>1. PICK l : l # "idle" /\ pc' = [pc EXCEPT !["set"] = l]
    BY Zenon, <1>9, DecisionType DEF Overriding, SetRawValue, Goto
  <2>2. ret' = [ret EXCEPT !["set"] = r]
    BY Zenon, <1>9 DEF Overriding, SetRawValue
  <2> QED
    BY Zenon, <1>9, <2>1, <2>2, <1>y, <1>t DEF Overriding, LockInv, Threads
<1>10. ASSUME NEW k, NEW v, NEW s, OverrideValue(k, v, s) PROVE LockInv'
  BY Zenon, <1>10, <1>9 DEF OverrideValue, Calls
<1>11. ASSUME NEW p, NEW s, SetPartner(p, s) PROVE LockInv'
  BY Zenon, <1>11, <1>9 DEF SetPartner, Calls, Locked
<1>12. CASE ClearDBStart
  BY Zenon, <1>12 DEF ClearDBStart, control, LockInv
<1>13. CASE ClearDBEnd
  BY Zenon, <1>13, <1>y, <1>t DEF ClearDBEnd, Goto, LockInv, Locked, Threads
<1>14. CASE WatchReload
  <2>1. PICK l : l # "idle" /\ pc' = [pc EXCEPT !["watch"] = l]
    BY Zenon, <1>14, DecisionType DEF WatchReload, SetRawValue, Goto
  <2>2. ret' = [ret EXCEPT !["watch"] = "load"]
    BY Zenon, <1>14 DEF WatchReload, SetRawValue
  <2> QED
    BY Zenon, <1>14, <2>1, <2>2, <1>y, <1>t DEF WatchReload, LockInv, Unwatched, Threads
<1>15. ASSUME NEW t \in Threads, OpenFails(t) PROVE LockInv'
  <2>1. CASE pc[t] \in {"append", "set.open"}
    <3>1. PICK l : l # "idle" /\ pc' = [pc EXCEPT ![t] = l]
      BY Zenon, <1>15, <2>1 DEF OpenFails, Goto
    <3>2. \E r : r # "unlock+load" /\ ret' = [ret EXCEPT ![t] = r]
      BY Zenon, <1>15, <2>1, <1>y DEF OpenFails
    <3> QED
      BY Zenon, <1>15, <2>1, <3>1, <3>2, <1>move DEF OpenFails
  <2>2. CASE pc[t] \in {"jrn.open", "clr.open"}
    BY Zenon, <1>15, <2>2, <1>move DEF OpenFails, Goto
  <2>3. CASE pc[t] = "rm.open"
    BY Zenon, <1>15, <2>3, <1>leave DEF OpenFails
  <2>4. CASE pc[t] = "end.open"
    BY Zenon, <1>15, <2>4, <1>after DEF OpenFails
  <2> QED
    BY Zenon, <1>15, <2>1, <2>2, <2>3, <2>4 DEF OpenFails
<1>16. CASE Crash
  BY Zenon, <1>16, <1>t DEF Crash, LockInv
<1>17. CASE Upgrade \/ (\E p \in Partners : AuthServiceWrites(p)) \/ WatchRead \/ UNCHANGED vars
  BY Zenon, <1>17 DEF Upgrade, AuthServiceWrites, WatchRead, vars, control, LockInv
<1> QED
  BY Zenon, <1>1, <1>2, <1>3, <1>4, <1>5, <1>6, <1>7, <1>8, <1>10, <1>11, <1>12, <1>13, <1>14,
     <1>15, <1>16, <1>17 DEF Next, Step, Request, Environment

\* Under either schedule at most one thread is inside the store.
LEMMA Exclusive ==
  ASSUME LockInv, Unwatched \/ Locked
  PROVE  \A t, u \in Threads : pc[t] # "idle" /\ pc[u] # "idle" => t = u
  BY Zenon DEF LockInv, Threads

\* As long as neither ClearDB, ClearDBEnd nor the SET of the partner id is used,
\* the lock of XBSStore keeps the two threads apart.
THEOREM LockExcludes ==
  ASSUME Locked
  PROVE  Spec => []StoreMutualExclusion
<1>1. TypeInv /\ LockInv => StoreMutualExclusion
  BY Zenon DEF LockInv, StoreMutualExclusion, Threads
<1> QED
  BY <1>1, InitType, NextType, LockInit, LockNext, PTL DEF Spec
-----------------------------------------------------------------------------
(* What RFC or WebPA wrote stays in force.                                *)

\* The process is only stopped between two rewrites, and the journal can be
\* opened: by setJournalValue always, and by rfcUpdateEnd unless the process
\* is never stopped and so never reads the file again.
MayStop == CrashPoints # {}
Benign ==
  /\ CrashPoints \subseteq {"idle", "load", "loop"}
  /\ "jrn.open" \notin IOFaults
  /\ MayStop => "end.open" \notin IOFaults

Overrides == {"rfc", "webpa"}

\* The cached value of k is the override the journal knows of.
Mem(k) == Source(k) \in Overrides => dict[k] = journal[k].upd

\* The file holds the cached value of k.
Sync(k) == dict[k] # None => storeFile # NoFile /\ storeFile[k] = dict[k]

\* What a restart reads for k is the override the journal file knows of.
Recoverable(k) ==
  MayStop /\ journalFile[k] # NoRec /\ journalFile[k].src \in Overrides =>
    storeFile # NoFile /\ storeFile[k] = journalFile[k].upd

StoreWrites == {"set.write", "rm.write", "clr.write"}
Settled == {"idle", "load", "loop", "return", "append", "set.open", "rm.open", "clr.open"}

JrnPoints == {"jrn.open", "jrn.write"}

DownInv == ~running => /\ dict = NoEntries /\ journal = NoRecords /\ ~initialUpdate
                       /\ MayStop \/ journalFile = NoRecords

\* A write by a client is ahead of the journal until its record is written.
MemInv ==
  \A k \in Keys : \/ Mem(k)
                  \/ \E t \in Threads : /\ pc[t] \in JrnPoints
                                        /\ cur[t].key = k
                                        /\ cur[t].src # "default"
AheadInv ==
  \A t \in Threads : pc[t] \in JrnPoints /\ cur[t].src # "default"
                       => dict[cur[t].key] = cur[t].val

\* The record a thread is about to write is up to date.
RecInv ==
  \A t \in Threads : pc[t] = "jrn.write"
                       => cur[t].rec = Journaled(cur[t].key, cur[t].val, cur[t].src)

\* A default is never on its way to replace an override.
DefaultInv ==
  \A t \in Threads : pc[t] \in {"append", "set.open", "set.write"} /\ cur[t].src = "default"
                       => Source(cur[t].key) \notin Overrides

SyncInv == (\A t \in Threads : pc[t] \notin StoreWrites) => \A k \in Keys : Sync(k)
FileInv == (\A t \in Threads : pc[t] \in Settled) => \A k \in Keys : Recoverable(k)

\* While the files are created there are no overrides.
NoOverrides ==
  \A k \in Keys : /\ Source(k) \notin Overrides
                  /\ MayStop /\ journalFile[k] # NoRec => journalFile[k].src \notin Overrides
Creating(t) ==
  \/ pc[t] = "loop"
  \/ /\ pc[t] \in {"append", "jrn.open", "return"}
     /\ cur[t] \in Call
     /\ cur[t].src = "default"
     /\ ret[t] = "loop"
CreateInv == initialUpdate => NoOverrides /\ \E t \in Threads : Creating(t)

OverrideInv ==
  DownInv /\ MemInv /\ AheadInv /\ RecInv /\ DefaultInv /\ SyncInv /\ FileInv /\ CreateInv

LEMMA OverrideInit == Init => OverrideInv
<1> SUFFICES ASSUME Init PROVE OverrideInv
  BY Zenon
<1>1. \A k \in Keys : Mem(k) /\ Sync(k) /\ Recoverable(k)
  BY Zenon DEF Init, Mem, Sync, Recoverable, Source, NoEntries, NoRecords, NoRec, Overrides
<1>2. \A t \in Threads : pc[t] = "idle"
  BY Zenon DEF Init
<1> QED
  BY Zenon, <1>1, <1>2 DEF Init, OverrideInv, DownInv, MemInv, AheadInv, RecInv, DefaultInv,
     SyncInv, FileInv, CreateInv, JrnPoints

\* What the invariant says while only thread t is inside the store.
LEMMA Alone ==
  ASSUME OverrideInv, NEW t \in Threads, \A u \in Threads \ {t} : pc[u] = "idle"
  PROVE  /\ pc[t] \notin JrnPoints => \A k \in Keys : Mem(k)
         /\ \A k \in Keys : \/ Mem(k)
                            \/ pc[t] \in JrnPoints /\ cur[t].key = k /\ cur[t].src # "default"
         /\ pc[t] \in JrnPoints /\ cur[t].src # "default" => dict[cur[t].key] = cur[t].val
         /\ pc[t] = "jrn.write"
              => cur[t].rec = Journaled(cur[t].key, cur[t].val, cur[t].src)
         /\ pc[t] \in {"append", "set.open", "set.write"} /\ cur[t].src = "default"
              => Source(cur[t].key) \notin Overrides
         /\ pc[t] \notin StoreWrites => \A k \in Keys : Sync(k)
         /\ pc[t] \in Settled => \A k \in Keys : Recoverable(k)
         /\ initialUpdate => NoOverrides /\ Creating(t)
<1>1. /\ "idle" \notin JrnPoints /\ "idle" \notin StoreWrites /\ "idle" \in Settled
      /\ \A u \in Threads \ {t} : ~Creating(u)
  BY Zenon DEF JrnPoints, StoreWrites, Settled, Creating
<1>2. \A k \in Keys : \/ Mem(k)
                      \/ pc[t] \in JrnPoints /\ cur[t].key = k /\ cur[t].src # "default"
  BY Zenon, <1>1 DEF OverrideInv, MemInv
<1>3. /\ pc[t] \in JrnPoints /\ cur[t].src # "default" => dict[cur[t].key] = cur[t].val
      /\ pc[t] = "jrn.write"
           => cur[t].rec = Journaled(cur[t].key, cur[t].val, cur[t].src)
      /\ pc[t] \in {"append", "set.open", "set.write"} /\ cur[t].src = "default"
           => Source(cur[t].key) \notin Overrides
  BY Zenon DEF OverrideInv, AheadInv, RecInv, DefaultInv
<1>4. /\ pc[t] \notin StoreWrites => \A k \in Keys : Sync(k)
      /\ pc[t] \in Settled => \A k \in Keys : Recoverable(k)
  BY <1>1 DEF OverrideInv, SyncInv, FileInv
<1>5. initialUpdate => NoOverrides /\ Creating(t)
  BY Zenon, <1>1 DEF OverrideInv, CreateInv
<1> QED
  BY Zenon, <1>2, <1>3, <1>4, <1>5

\* The converse, for the state after a step of thread t to program point l.
LEMMA AloneAfter ==
  ASSUME TypeInv, NEW t \in Threads, \A u \in Threads \ {t} : pc[u] = "idle",
         NEW l \in PCs, pc' = [pc EXCEPT ![t] = l], running',
         \A k \in Keys : \/ Mem(k)'
                         \/ l \in JrnPoints /\ cur'[t].key = k /\ cur'[t].src # "default",
         l \in JrnPoints /\ cur'[t].src # "default" => dict'[cur'[t].key] = cur'[t].val,
         l = "jrn.write"
           => cur'[t].rec = Journaled(cur[t].key, cur[t].val, cur[t].src)',
         l \in {"append", "set.open", "set.write"} /\ cur'[t].src = "default"
           => Source(cur[t].key)' \notin Overrides,
         l \notin StoreWrites => \A k \in Keys : Sync(k)',
         l \in Settled => \A k \in Keys : Recoverable(k)',
         initialUpdate' => NoOverrides' /\ Creating(t)'
  PROVE  OverrideInv'
<1>1. pc'[t] = l /\ \A u \in Threads \ {t} : pc'[u] = "idle"
  BY Zenon DEF TypeInv, TypeOK
<1>2. "idle" \notin JrnPoints /\ "idle" \notin StoreWrites /\ "idle" \in Settled
  BY Zenon DEF JrnPoints, StoreWrites, Settled
<1>3. DownInv' /\ MemInv' /\ AheadInv'
  BY Zenon, <1>1, <1>2 DEF DownInv, MemInv, AheadInv
<1>4. RecInv' /\ DefaultInv'
  BY Zenon, <1>1, <1>2 DEF RecInv, DefaultInv
<1>5. SyncInv' /\ FileInv' /\ CreateInv'
  BY Zenon, <1>1, <1>2 DEF SyncInv, FileInv, CreateInv
<1> QED
  BY Zenon, <1>3, <1>4, <1>5 DEF OverrideInv

\* Two journals that differ in marks only.
SameRecord(a, b) ==
  (a = NoRec <=> b = NoRec) /\ (a # NoRec => a.src = b.src /\ a.upd = b.upd)

LEMMA UnmarkedSame ==
  ASSUME TypeInv, NEW k \in Keys
  PROVE  \A i \in Keys : SameRecord(Unmarked(k)[i], journal[i])
<1> USE BSAssumption DEF NoRec
<1>1. journal \in Journal
  BY Zenon DEF TypeInv, TypeOK
<1>2. CASE rfcUpdate /\ Marked(k)
  <2>1. journal[k] \in Rec
    BY Zenon, <1>1, <1>2 DEF Marked, Journal
  <2>2. [journal[k] EXCEPT !.clear = FALSE] \in Rec
    BY Zenon, <2>1 DEF Rec
  <2>3. SameRecord([journal[k] EXCEPT !.clear = FALSE], journal[k])
    BY Zenon, <2>1, <2>2 DEF SameRecord, Rec
  <2>4. Unmarked(k) = [journal EXCEPT ![k] = [journal[k] EXCEPT !.clear = FALSE]]
    BY Zenon, <1>2 DEF Unmarked
  <2> QED
    BY <1>1, <2>3, <2>4 DEF SameRecord, Journal
<1>3. CASE ~(rfcUpdate /\ Marked(k))
  BY Zenon, <1>3 DEF Unmarked, SameRecord
<1> QED
  BY Zenon, <1>2, <1>3

\* Entering setRawValue from a quiet point.
LEMMA Enter ==
  ASSUME TypeInv, TypeInv', OverrideInv, NEW t \in Threads,
         \A u \in Threads \ {t} : pc[u] = "idle", pc[t] \in {"idle", "loop"},
         NEW k \in Keys, NEW v \in Values, NEW s \in Sources, NEW r \in Returns,
         SetRawValue(t, k, v, s, journal', r),
         \A i \in Keys : SameRecord(journal'[i], journal[i]),
         UNCHANGED <<dict, storeFile, journalFile, initialUpdate>>, running',
         initialUpdate => s = "default" /\ r = "loop"
  PROVE  OverrideInv'
<1> USE DEF NoRec
<1> DEFINE l == Decision(k, v, s, journal')
<1>0. "idle" \notin JrnPoints /\ "loop" \notin JrnPoints /\ "idle" \in Settled /\ "loop" \in Settled
      /\ "idle" \notin StoreWrites /\ "loop" \notin StoreWrites
  BY Zenon DEF JrnPoints, Settled, StoreWrites
<1>1. /\ \A i \in Keys : Mem(i) /\ Sync(i) /\ Recoverable(i)
      /\ initialUpdate => NoOverrides
  BY Zenon, <1>0, Alone
<1>2. \A i \in Keys : Source(i)' = Source(i) /\ Mem(i)' /\ Sync(i)' /\ Recoverable(i)'
  BY Zenon, <1>1 DEF Source, Mem, Sync, Recoverable, SameRecord, Overrides
<1>3. /\ pc' = [pc EXCEPT ![t] = l]
      /\ cur'[t] = [key |-> k, val |-> v, src |-> s, rec |-> None]
      /\ ret'[t] = r
  BY Zenon DEF SetRawValue, Goto, TypeInv, TypeOK
<1>4. /\ l \in {"append", "jrn.open", "return", "set.open"}
      /\ initialUpdate => l = "append"
      /\ ~initialUpdate => l # "append"
      /\ l = "jrn.open" /\ s # "default" => dict[k] = v
      /\ l = "set.open" /\ s = "default" => Source(k)' \notin Overrides
  BY Zenon DEF Decision, Source, Overrides
<1>5. [key |-> k, val |-> v, src |-> s, rec |-> None] \in Call
  BY Zenon DEF Call
<1> HIDE DEF l
<1>6. l \in PCs /\ l # "jrn.write"
  BY Zenon, <1>4 DEF PCs
<1>7. l \in JrnPoints => l = "jrn.open"
  BY Zenon, <1>4 DEF JrnPoints
<1>8. NoOverrides => NoOverrides'
  BY Zenon, <1>2 DEF NoOverrides
<1>9. initialUpdate' => NoOverrides' /\ Creating(t)'
  <2>1. pc'[t] = l
    BY Zenon, <1>3 DEF TypeInv, TypeOK
  <2>2. initialUpdate => s = "default" /\ r = "loop" /\ l = "append"
    BY Zenon, <1>4
  <2>3. initialUpdate => cur'[t] \in Call /\ cur'[t].src = "default" /\ ret'[t] = "loop"
    BY <2>2, <1>3, <1>5
  <2>4. initialUpdate => Creating(t)'
    BY Zenon, <2>1, <2>2, <2>3 DEF Creating
  <2> QED
    BY Zenon, <2>4, <1>1, <1>8
<1>10. l \in {"append", "set.open", "set.write"} /\ cur'[t].src = "default"
         => Source(cur[t].key)' \notin Overrides
  <2>1. cur'[t].key = k /\ cur'[t].src = s
    BY <1>3
  <2>2. l = "append" => Source(k)' \notin Overrides
    BY Zenon, <1>1, <1>2, <1>4 DEF NoOverrides
  <2>3. Source(cur[t].key)' = Source(k)'
    BY Zenon, <2>1 DEF Source
  <2> QED
    BY Zenon, <1>4, <2>1, <2>2, <2>3
<1>11. l \in JrnPoints /\ cur'[t].src # "default" => dict'[cur'[t].key] = cur'[t].val
  <2>1. cur'[t].key = k /\ cur'[t].val = v /\ cur'[t].src = s /\ dict' = dict
    BY <1>3
  <2> QED
    BY Zenon, <2>1, <1>4, <1>7
<1>12. /\ \A i \in Keys : Mem(i)'
       /\ l \notin StoreWrites => \A i \in Keys : Sync(i)'
       /\ l \in Settled => \A i \in Keys : Recoverable(i)'
  BY Zenon, <1>2
<1>13. pc' = [pc EXCEPT ![t] = l]
  BY Zenon, <1>3
<1> QED
  BY Zenon, <1>6, <1>9, <1>10, <1>11, <1>12, <1>13, AloneAfter

\* A step of thread t between quiet points that leaves the data alone.
LEMMA Move ==
  ASSUME TypeInv, OverrideInv, NEW t \in Threads,
         \A u \in Threads \ {t} : pc[u] = "idle", pc[t] \in Settled,
         NEW l \in {"idle", "load", "loop", "return", "rm.open", "clr.open", "end.open"},
         pc' = [pc EXCEPT ![t] = l],
         UNCHANGED <<dict, journal, storeFile, journalFile>>, running',
         initialUpdate' => initialUpdate /\ Creating(t)'
  PROVE  OverrideInv'
<1>1. pc[t] \notin JrnPoints /\ pc[t] \notin StoreWrites
  BY Zenon DEF Settled, JrnPoints, StoreWrites
<1>2. /\ \A i \in Keys : Mem(i) /\ Sync(i) /\ Recoverable(i)
      /\ initialUpdate => NoOverrides
  BY Zenon, <1>1, Alone
<1>3. \A i \in Keys : Mem(i)' /\ Sync(i)' /\ Recoverable(i)'
  BY Zenon, <1>2 DEF Source, Mem, Sync, Recoverable
<1>4. NoOverrides => NoOverrides'
  BY Zenon DEF NoOverrides, Source
<1>5. /\ l \in PCs /\ l \notin JrnPoints /\ l # "jrn.write"
      /\ l \notin {"append", "set.open", "set.write"}
  BY Zenon DEF PCs, JrnPoints
<1> QED
  BY Zenon, <1>2, <1>3, <1>4, <1>5, AloneAfter

\* What the journal writes to its file about overrides is what it holds.
LEMMA PersistedOverride ==
  ASSUME NEW j \in Journal, NEW k \in Keys, PersistedAll(j)[k] # NoRec,
         PersistedAll(j)[k].src \in Overrides
  PROVE  j[k] # NoRec /\ j[k].src \in Overrides /\ j[k].upd = PersistedAll(j)[k].upd
<1> USE BSAssumption DEF NoRec
<1>1. PersistedAll(j)[k] = Persisted(j[k]) /\ j[k] \in Rec \cup {None}
  BY Zenon DEF PersistedAll, Journal
<1>2. j[k] \in Rec
  BY Zenon, <1>1 DEF Persisted
<1> QED
  BY Zenon, <1>1, <1>2 DEF Persisted, Rec, Overrides

\* Once the caches agree and the store file is written, writing the journal
\* file makes every override recoverable.
LEMMA Written ==
  ASSUME TypeInv', journalFile' = PersistedAll(journal'), NEW k \in Keys, Mem(k)', Sync(k)'
  PROVE  Recoverable(k)'
<1> USE BSAssumption DEF NoRec, NoFile
<1>1. SUFFICES ASSUME journalFile'[k] # NoRec, journalFile'[k].src \in Overrides
               PROVE  storeFile' # NoFile /\ storeFile'[k] = journalFile'[k].upd
  BY Zenon DEF Recoverable
<1>2. /\ journal'[k] # NoRec /\ journal'[k].src \in Overrides
      /\ journal'[k].upd = journalFile'[k].upd
  BY Zenon, <1>1, PersistedOverride DEF TypeInv, TypeOK
<1>3. dict'[k] = journal'[k].upd
  BY Zenon, <1>2 DEF Mem, Source
<1>4. journal'[k].upd # None
  BY Zenon, <1>2 DEF TypeInv, TypeOK, Journal, Rec, Stored
<1> QED
  BY Zenon, <1>2, <1>3, <1>4 DEF Sync

\* While a file is missing nothing is overridden.
LEMMA NoFileNoOverride ==
  ASSUME TypeInv, storeFile = NoFile, \A k \in Keys : Mem(k) /\ Sync(k) /\ Recoverable(k)
  PROVE  NoOverrides /\ dict = NoEntries
<1> USE BSAssumption DEF NoRec, NoFile
<1>1. \A k \in Keys : dict[k] = None
  BY Zenon DEF Sync
<1>2. dict = NoEntries
  BY Zenon, <1>1 DEF NoEntries, TypeInv, TypeOK, Dict
<1>3. \A k \in Keys : Source(k) \in Overrides => journal[k].upd # None
  BY Zenon DEF Source, Overrides, TypeInv, TypeOK, Journal, Rec, Stored
<1> QED
  BY Zenon, <1>1, <1>2, <1>3 DEF NoOverrides, Mem, Recoverable

\* Every file step and every step of loadFromJson preserves the invariant.
LEMMA OverrideStep ==
  ASSUME TypeInv, TypeInv', OverrideInv, running, NEW t \in Threads,
         \A u \in Threads \ {t} : pc[u] = "idle", Step(t)
  PROVE  OverrideInv'
<1> USE BSAssumption DEF NoRec, NoFile
<1>a. /\ pc[t] \notin JrnPoints => \A k \in Keys : Mem(k)
      /\ pc[t] \notin StoreWrites => \A k \in Keys : Sync(k)
      /\ pc[t] \in Settled => \A k \in Keys : Recoverable(k)
      /\ initialUpdate => NoOverrides /\ Creating(t)
      /\ \A k \in Keys : \/ Mem(k)
                         \/ pc[t] \in JrnPoints /\ cur[t].key = k /\ cur[t].src # "default"
      /\ pc[t] \in JrnPoints /\ cur[t].src # "default" => dict[cur[t].key] = cur[t].val
      /\ pc[t] = "jrn.write"
           => cur[t].rec = Journaled(cur[t].key, cur[t].val, cur[t].src)
      /\ pc[t] \in {"append", "set.open", "set.write"} /\ cur[t].src = "default"
           => Source(cur[t].key) \notin Overrides
  BY Zenon, Alone
<1>y. /\ pc \in [Threads -> PCs] /\ ret \in [Threads -> Returns]
      /\ dict \in Dict /\ journal \in Journal /\ journalFile \in Journal
      /\ cur \in [Threads -> Call \cup {None}]
  BY Zenon DEF TypeInv, TypeOK, NoCall
<1>1. CASE Load(t)
  <2>0. pc[t] = "load" /\ running'
    BY Zenon, <1>1 DEF Load
  <2>1. /\ \A k \in Keys : Mem(k) /\ Sync(k) /\ Recoverable(k)
        /\ ~initialUpdate
    BY Zenon, <1>a, <2>0 DEF JrnPoints, StoreWrites, Settled, Creating
  <2>2. CASE Defaults = NoSection
    BY Zenon, <1>1, <2>0, <2>1, <2>2, Move DEF Load, Leave, Goto, memory, disk, Settled
  <2>3. CASE Defaults # NoSection
    <3> DEFINE gone == Obsolete(Defaults)
    <3>1. /\ initialUpdate' = (initialUpdate \/ storeFile = NoFile)
          /\ dict' = [k \in Keys |-> IF k \in gone THEN None ELSE dict[k]]
          /\ journal' = [k \in Keys |-> IF k \in gone THEN NoRec ELSE journal[k]]
          /\ pc' = [pc EXCEPT ![t] = IF gone = {} THEN "loop" ELSE "rm.open"]
          /\ storeFile' = storeFile /\ journalFile' = journalFile
      BY Zenon, <1>1, <2>3 DEF Load, Goto, disk
    <3>2. dict = NoEntries => gone = {}
      BY Zenon DEF Obsolete, NoEntries
    <3> HIDE DEF gone
    <3>3. \A k \in Keys : Mem(k)' /\ Sync(k)' /\ Recoverable(k)'
      BY Zenon, <2>1, <3>1 DEF Mem, Sync, Recoverable, Source, Overrides
    <3>4. storeFile = NoFile => NoOverrides /\ dict = NoEntries
      BY Zenon, <2>1, NoFileNoOverride
    <3>5. NoOverrides => NoOverrides'
      BY Zenon, <3>1 DEF NoOverrides, Source, Overrides
    <3>6. initialUpdate' => NoOverrides' /\ Creating(t)'
      BY Zenon, <2>1, <3>1, <3>2, <3>4, <3>5, <1>y DEF Creating
    <3> DEFINE l == IF gone = {} THEN "loop" ELSE "rm.open"
    <3>7. l \in PCs /\ l \notin JrnPoints /\ l \notin {"append", "set.open", "set.write", "jrn.write"}
      BY Zenon DEF PCs, JrnPoints
    <3>8. pc' = [pc EXCEPT ![t] = l]
      BY Zenon, <3>1
    <3> HIDE DEF l
    <3> QED
      BY Zenon, <2>0, <3>3, <3>6, <3>7, <3>8, AloneAfter
  <2> QED
    BY Zenon, <2>2, <2>3
<1>2. CASE ApplyDefault(t)
  <2>1. PICK k \in Keys : /\ todo[t][k] # None
                          /\ SetRawValue(t, k, todo[t][k], "default", journal, "loop")
    BY Zenon, <1>2 DEF ApplyDefault
  <2>2. todo[t][k] \in Values /\ "default" \in Sources /\ "loop" \in Returns
    <3>1. todo \in [Threads -> [Keys -> Values \cup {None}]]
      BY Zenon DEF TypeInv, TypeOK
    <3> QED
      BY <2>1, <3>1 DEF Sources, Returns
  <2>3. UNCHANGED <<dict, journal, storeFile, journalFile, initialUpdate, running>> /\ pc[t] = "loop"
    BY Zenon, <1>2 DEF ApplyDefault, disk, memory
  <2>4. SetRawValue(t, k, todo[t][k], "default", journal', "loop")
    BY Zenon, <2>1, <2>3
  <2>5. \A i \in Keys : SameRecord(journal'[i], journal[i])
    BY Zenon, <2>3 DEF SameRecord
  <2> QED
    BY Zenon, <2>2, <2>3, <2>4, <2>5, Enter
<1>3. CASE Loaded(t)
  BY Zenon, <1>3, Move DEF Loaded, Leave, Goto, disk, Settled
<1>4. CASE Return(t)
  <2>0. /\ pc[t] = "return" /\ running'
        /\ UNCHANGED <<dict, journal, storeFile, journalFile, initialUpdate>>
    BY Zenon, <1>4 DEF Return, disk, memory
  <2>1. CASE ret[t] = "idle"
    <3>1. ~initialUpdate
      BY Zenon, <1>a, <2>0, <2>1 DEF Creating
    <3>2. pc' = [pc EXCEPT ![t] = "idle"]
      BY Zenon, <1>4, <2>1 DEF Return, Leave, Goto
    <3> QED
      BY Zenon, <2>0, <3>1, <3>2, Move DEF Settled
  <2>2. CASE ret[t] # "idle"
    <3> DEFINE l == IF ret[t] = "unlock+load" THEN "load" ELSE ret[t]
    <3>1. pc' = [pc EXCEPT ![t] = l]
      BY Zenon, <1>4, <2>2 DEF Return, Goto
    <3>2. l \in {"load", "loop"}
      BY Zenon, <2>2, <1>y DEF Returns
    <3>3. initialUpdate => l = "loop"
      BY Zenon, <1>a, <2>0 DEF Creating
    <3> HIDE DEF l
    <3>4. initialUpdate => Creating(t)'
      BY Zenon, <3>1, <3>3, <1>y DEF Creating
    <3> QED
      BY Zenon, <2>0, <3>1, <3>2, <3>4, Move DEF Settled
  <2> QED
    BY Zenon, <2>1, <2>2
<1>c. pc[t] \in InSetRawValue => /\ cur[t] \in Call /\ cur[t].key \in Keys
                                  /\ cur[t].val \in Stored /\ cur[t].val # None
  BY Zenon DEF TypeInv, CallKnown, Call, Stored
<1>5. CASE Append(t)
  <2> DEFINE k == cur[t].key
  <2>0. /\ pc[t] = "append" /\ running' /\ pc' = [pc EXCEPT ![t] = "jrn.open"]
        /\ UNCHANGED <<journal, journalFile, initialUpdate, cur, ret>>
        /\ dict' = [dict EXCEPT ![k] = cur[t].val]
        /\ storeFile' = [IF storeFile = NoFile THEN NoEntries ELSE storeFile EXCEPT ![k] = cur[t].val]
    BY Zenon, <1>5 DEF Append, Goto
  <2>1. cur[t] \in Call /\ k \in Keys
    BY Zenon, <2>0, <1>c DEF InSetRawValue
  <2>2. \A i \in Keys : Mem(i) /\ Sync(i)
    BY Zenon, <2>0, <1>a DEF JrnPoints, StoreWrites
  <2>3. (IF storeFile = NoFile THEN NoEntries ELSE storeFile) \in Dict
    BY Zenon DEF TypeInv, TypeOK, NoEntries, Dict
  <2>4. /\ storeFile' # None
        /\ storeFile'[k] = cur[t].val
        /\ \A i \in Keys \ {k} : storeFile # NoFile => storeFile'[i] = storeFile[i]
    <3> DEFINE f == IF storeFile = NoFile THEN NoEntries ELSE storeFile
    <3>1. f \in Dict /\ storeFile' = [f EXCEPT ![k] = cur[t].val]
      BY Zenon, <2>0, <2>3
    <3>2. storeFile # NoFile => f = storeFile
      BY Zenon
    <3>3. cur[t].val \in Stored
      BY Zenon, <2>0, <1>c DEF InSetRawValue
    <3> HIDE DEF f
    <3>4. storeFile' \in Dict /\ storeFile'[k] = cur[t].val
      BY <2>1, <3>1, <3>3 DEF Dict
    <3>5. \A i \in Keys \ {k} : storeFile'[i] = f[i]
      BY Zenon, <2>1, <3>1 DEF Dict
    <3> QED
      BY Zenon, <3>2, <3>4, <3>5
  <2>5. dict'[k] = cur[t].val /\ \A i \in Keys \ {k} : dict'[i] = dict[i]
    BY Zenon, <2>0, <2>1, <1>y DEF Dict
  <2>6. \A i \in Keys : Sync(i)'
    BY Zenon, <2>2, <2>4, <2>5 DEF Sync
  <2>7. \A i \in Keys : Source(i)' = Source(i)
    BY Zenon, <2>0 DEF Source
  <2>8. \A i \in Keys \ {k} : Mem(i)'
    BY Zenon, <2>0, <2>2, <2>5, <2>7 DEF Mem
  <2>9. cur[t].src = "default" => \A i \in Keys : i = k => Mem(i)'
    BY Zenon, <2>0, <2>7, <1>a DEF Mem
  <2>10. NoOverrides => NoOverrides'
    BY Zenon, <2>0, <2>7 DEF NoOverrides
  <2>11. initialUpdate' => NoOverrides' /\ Creating(t)'
    BY Zenon, <2>0, <2>1, <2>10, <1>a, <1>y DEF Creating
  <2>12. "jrn.open" \in PCs /\ "jrn.open" \in JrnPoints /\ "jrn.open" \notin Settled
    BY Zenon DEF PCs, JrnPoints, Settled
  <2> QED
    BY Zenon, <2>0, <2>5, <2>6, <2>8, <2>9, <2>11, <2>12, AloneAfter
<1>6. CASE SetOpen(t)
  <2>0. /\ pc[t] = "set.open" /\ running' /\ pc' = [pc EXCEPT ![t] = "set.write"]
        /\ UNCHANGED <<dict, journal, journalFile, initialUpdate, cur, ret>>
    BY Zenon, <1>6 DEF SetOpen, TruncateStore, Goto, memory
  <2>1. ~initialUpdate /\ \A i \in Keys : Mem(i)
    BY Zenon, <2>0, <1>a DEF Creating, JrnPoints
  <2>2. \A i \in Keys : Mem(i)' /\ Source(i)' = Source(i)
    BY Zenon, <2>0, <2>1 DEF Mem, Source
  <2>3. cur[t].src = "default" => Source(cur[t].key)' \notin Overrides
    BY Zenon, <2>0, <1>a DEF Source
  <2>4. /\ "set.write" \in PCs /\ "set.write" \notin JrnPoints /\ "set.write" \notin Settled
        /\ "set.write" \in StoreWrites
    BY Zenon DEF PCs, JrnPoints, Settled, StoreWrites
  <2> QED
    BY Zenon, <2>0, <2>1, <2>2, <2>3, <2>4, AloneAfter
<1>7. CASE SetWrite(t)
  <2> DEFINE k == cur[t].key
  <2>0. /\ pc[t] = "set.write" /\ running' /\ pc' = [pc EXCEPT ![t] = "jrn.open"]
        /\ UNCHANGED <<journal, journalFile, initialUpdate, cur, ret>>
        /\ dict' = [dict EXCEPT ![k] = cur[t].val]
        /\ storeFile' = dict'
    BY Zenon, <1>7 DEF SetWrite, SetDict, Goto
  <2>1. cur[t] \in Call /\ k \in Keys
    BY Zenon, <2>0, <1>c DEF InSetRawValue
  <2>2. ~initialUpdate /\ \A i \in Keys : Mem(i)
    BY Zenon, <2>0, <1>a DEF Creating, JrnPoints
  <2>3. dict'[k] = cur[t].val /\ \A i \in Keys \ {k} : dict'[i] = dict[i]
    BY Zenon, <2>0, <2>1, <1>y DEF Dict
  <2>4. \A i \in Keys : Sync(i)'
    <3>1. dict' # None
      BY Zenon DEF TypeInv, TypeOK
    <3> QED
      BY Zenon, <2>0, <3>1 DEF Sync
  <2>5. \A i \in Keys : Source(i)' = Source(i)
    BY Zenon, <2>0 DEF Source
  <2>6. \A i \in Keys \ {k} : Mem(i)'
    BY Zenon, <2>0, <2>2, <2>3, <2>5 DEF Mem
  <2>7. cur[t].src = "default" => \A i \in Keys : i = k => Mem(i)'
    BY Zenon, <2>0, <2>5, <1>a DEF Mem
  <2>8. "jrn.open" \in PCs /\ "jrn.open" \in JrnPoints /\ "jrn.open" \notin Settled
    BY Zenon DEF PCs, JrnPoints, Settled
  <2> QED
    BY Zenon, <2>0, <2>2, <2>3, <2>4, <2>6, <2>7, <2>8, AloneAfter
<1>8. CASE JrnOpen(t)
  <2> DEFINE k == cur[t].key
  <2> DEFINE r == Journaled(k, cur[t].val, cur[t].src)
  <2>0. /\ pc[t] = "jrn.open" /\ running' /\ cur[t] \in Call /\ k \in Keys
        /\ UNCHANGED <<dict, storeFile, initialUpdate, ret>>
    BY Zenon, <1>8, <1>c DEF JrnOpen, InSetRawValue
  <2>1. \A i \in Keys : Sync(i)'
    BY Zenon, <2>0, <1>a DEF Sync, StoreWrites
  <2>2. CASE initialUpdate
    <3>1. /\ journal' = [journal EXCEPT ![k] = r]
          /\ journalFile' = [journalFile EXCEPT ![k] = Persisted(r)]
          /\ pc' = [pc EXCEPT ![t] = "return"] /\ cur' = cur
      BY Zenon, <1>8, <2>2 DEF JrnOpen, Goto
    <3>2. NoOverrides /\ cur[t].src = "default" /\ ret[t] = "loop"
      BY Zenon, <2>0, <2>2, <1>a DEF Creating
    <3>3. r \in Rec /\ r.src \notin Overrides
      <4>1. cur[t].val \in Values /\ cur[t].src \in Sources
        BY Zenon, <2>0 DEF Call
      <4>2. r \in Rec
        BY Zenon, <2>0, <4>1, JournalTypes DEF TypeInv
      <4>3. journal[k] \in Rec \cup {None}
        BY Zenon, <2>0, <1>y DEF Journal
      <4> QED
        BY Zenon, <2>0, <3>2, <4>2, <4>3 DEF Journaled, NoOverrides, Source, Overrides, Rec
    <3>4. Persisted(r) \in Rec /\ Persisted(r).src \notin Overrides
      BY Zenon, <3>3 DEF Persisted, Rec, Overrides, Sources
    <3> HIDE DEF r
    <3>5. NoOverrides'
      BY Zenon, <2>0, <3>1, <3>2, <3>3, <3>4, <1>y DEF NoOverrides, Source, Journal
    <3>6. \A i \in Keys : Mem(i)' /\ Recoverable(i)'
      BY Zenon, <3>5 DEF NoOverrides, Mem, Recoverable
    <3>7. Creating(t)'
      BY Zenon, <2>0, <3>1, <3>2, <1>y DEF Creating
    <3>8. "return" \in PCs /\ "return" \notin JrnPoints
      BY Zenon DEF PCs, JrnPoints
    <3> QED
      BY Zenon, <2>0, <2>1, <3>1, <3>5, <3>6, <3>7, <3>8, AloneAfter
  <2>3. CASE ~initialUpdate
    <3>1. /\ journal' = journal
          /\ cur' = [cur EXCEPT ![t].rec = r]
          /\ pc' = [pc EXCEPT ![t] = "jrn.write"]
      BY Zenon, <1>8, <2>3 DEF JrnOpen, Goto
    <3>2. /\ cur'[t].key = k /\ cur'[t].val = cur[t].val /\ cur'[t].src = cur[t].src
          /\ cur'[t].rec = r
      BY <2>0, <3>1, <1>y DEF Call
    <3>3. Journaled(cur[t].key, cur[t].val, cur[t].src)' = r
      BY <3>1, <3>2 DEF Journaled
    <3>4. \A i \in Keys : Mem(i)' \/ (i = k /\ cur'[t].src # "default")
      BY Zenon, <2>0, <3>1, <3>2, <1>a DEF Mem, Source
    <3>5. "jrn.write" \in PCs /\ "jrn.write" \in JrnPoints /\ "jrn.write" \notin Settled
      BY Zenon DEF PCs, JrnPoints, Settled
    <3>6. cur'[t].src # "default" => dict'[cur'[t].key] = cur'[t].val
      BY Zenon, <2>0, <3>2, <1>a DEF JrnPoints
    <3> HIDE DEF r
    <3> QED
      BY Zenon, <2>0, <2>1, <2>3, <3>1, <3>2, <3>3, <3>4, <3>5, <3>6, AloneAfter
  <2> QED
    BY Zenon, <2>2, <2>3
<1>9. CASE JrnWrite(t)
  <2> DEFINE k == cur[t].key
  <2> DEFINE r == cur[t].rec
  <2>0. /\ pc[t] = "jrn.write" /\ running' /\ cur[t] \in Call /\ k \in Keys
        /\ pc' = [pc EXCEPT ![t] = "return"]
        /\ journal' = [journal EXCEPT ![k] = r]
        /\ journalFile' = PersistedAll(journal')
        /\ UNCHANGED <<dict, storeFile, initialUpdate, cur, ret>>
    BY Zenon, <1>9, <1>c DEF JrnWrite, SetJournal, Goto, InSetRawValue
  <2>1. ~initialUpdate
    BY Zenon, <2>0, <1>a DEF Creating
  <2>2. \A i \in Keys : Sync(i)'
    BY Zenon, <2>0, <1>a DEF Sync, StoreWrites
  <2>3. \A i \in Keys \ {k} : Mem(i)'
    BY ZenonT(40), <2>0, <1>a, <1>y DEF Mem, Source, Journal
  <2>4. ASSUME NEW i \in Keys, i = k PROVE Mem(i)'
    <3>1. r = Journaled(k, cur[t].val, cur[t].src) /\ journal'[i] = r
      BY Zenon, <2>0, <2>4, <1>a, <1>y DEF Journal
    <3>2. journal[k] \in Rec \cup {None}
      BY Zenon, <2>0, <1>y DEF Journal
    <3>3. CASE cur[t].src = "default"
      <4>1. Mem(i)
        BY Zenon, <2>0, <2>4, <3>3, <1>a
      <4>2. CASE journal[k] = None
        BY <2>4, <3>1, <3>3, <4>2 DEF Journaled, Mem, Source, Overrides
      <4>3. CASE journal[k] # None
        <5>1. r = [journal[k] EXCEPT !.fw = cur[t].val] /\ journal[k] \in Rec
          BY Zenon, <3>1, <3>2, <3>3, <4>3 DEF Journaled
        <5>2. r.src = journal[k].src /\ r.upd = journal[k].upd
          BY Zenon, <5>1 DEF Rec
        <5> QED
          BY Zenon, <2>0, <2>4, <3>1, <4>1, <4>3, <5>2 DEF Mem, Source, Overrides
      <4> QED
        BY Zenon, <4>2, <4>3
    <3>4. CASE cur[t].src # "default"
      <4>1. r.upd = cur[t].val
        BY <3>1, <3>2, <3>4 DEF Journaled, Rec
      <4> QED
        BY Zenon, <2>0, <2>4, <3>1, <3>4, <4>1, <1>a DEF Mem, Source, JrnPoints
    <3> QED
      BY Zenon, <3>3, <3>4
  <2>5. \A i \in Keys : Mem(i)' /\ Recoverable(i)'
    BY Zenon, <2>0, <2>2, <2>3, <2>4, Written
  <2>6. "return" \in PCs /\ "return" \notin JrnPoints
    BY Zenon DEF PCs, JrnPoints
  <2> QED
    BY Zenon, <2>0, <2>1, <2>2, <2>5, <2>6, AloneAfter
<1>10. CASE RmOpen(t) \/ ClrOpen(t)
  <2>0. /\ pc[t] \in {"rm.open", "clr.open"} /\ running'
        /\ UNCHANGED <<dict, journal, journalFile, initialUpdate, cur, ret>>
    BY Zenon, <1>10 DEF RmOpen, ClrOpen, TruncateStore, memory
  <2>1. PICK l \in {"rm.write", "clr.write"} : pc' = [pc EXCEPT ![t] = l]
    BY Zenon, <1>10 DEF RmOpen, ClrOpen, TruncateStore, Goto
  <2>2. ~initialUpdate /\ \A i \in Keys : Mem(i)
    BY Zenon, <2>0, <1>a DEF Creating, JrnPoints
  <2>3. \A i \in Keys : Mem(i)'
    BY Zenon, <2>0, <2>2 DEF Mem, Source
  <2>4. /\ l \in PCs /\ l \notin JrnPoints /\ l \notin Settled /\ l \in StoreWrites
        /\ l \notin {"append", "set.open", "set.write", "jrn.write"}
    BY Zenon DEF PCs, JrnPoints, Settled, StoreWrites
  <2> QED
    BY Zenon, <2>0, <2>1, <2>2, <2>3, <2>4, AloneAfter
<1>e. /\ "end.open" \in PCs /\ "end.open" \notin JrnPoints /\ "end.open" \notin Settled
      /\ "end.write" \in PCs /\ "end.write" \notin JrnPoints /\ "end.write" \notin Settled
  BY Zenon DEF PCs, JrnPoints, Settled
<1>11. CASE RmWrite(t)
  <2>0. /\ pc[t] = "rm.write" /\ running' /\ pc' = [pc EXCEPT ![t] = "end.open"]
        /\ storeFile' = dict
        /\ UNCHANGED <<dict, journal, journalFile, initialUpdate, cur, ret>>
    BY Zenon, <1>11 DEF RmWrite, Goto, memory
  <2>1. ~initialUpdate /\ \A i \in Keys : Mem(i)
    BY Zenon, <2>0, <1>a DEF Creating, JrnPoints
  <2>2. \A i \in Keys : Mem(i)' /\ Sync(i)'
    <3>1. dict # None
      BY Zenon DEF TypeInv, TypeOK
    <3> QED
      BY Zenon, <2>0, <2>1, <3>1 DEF Mem, Source, Sync
  <2> QED
    BY Zenon, <2>0, <2>1, <2>2, <1>e, AloneAfter
<1>12. CASE ClrWrite(t)
  <2>0. /\ pc[t] = "clr.write" /\ running' /\ pc' = [pc EXCEPT ![t] = "end.open"]
        /\ dict' = ClearedDict /\ journal' = ClearedJournal /\ storeFile' = ClearedDict
        /\ UNCHANGED <<journalFile, initialUpdate, cur, ret>>
    BY Zenon, <1>12 DEF ClrWrite, Goto
  <2>1. ~initialUpdate /\ \A i \in Keys : Mem(i)
    BY Zenon, <2>0, <1>a DEF Creating, JrnPoints
  <2>2. \A i \in Keys : Sync(i)'
    <3>1. dict' # None
      BY Zenon DEF TypeInv, TypeOK
    <3> QED
      BY Zenon, <2>0, <3>1 DEF Sync
  <2>3. ASSUME NEW i \in Keys PROVE Mem(i)'
    <3>1. CASE dict[i] # None /\ Marked(i)
      <4>1. journal[i] \in Rec
        BY Zenon, <3>1, <1>y DEF Marked, Journal
      <4>2. journal'[i] = [journal[i] EXCEPT !.upd = Dash, !.src = "default", !.clear = FALSE]
        BY Zenon, <2>0, <3>1 DEF ClearedJournal
      <4>3. journal'[i].src = "default"
        BY Zenon, <4>1, <4>2 DEF Rec
      <4> QED
        BY Zenon, <4>3 DEF Mem, Source, Overrides
    <3>2. CASE ~(dict[i] # None /\ Marked(i))
      <4>1. journal'[i] = journal[i] /\ dict'[i] = dict[i]
        BY Zenon, <2>0, <3>2 DEF ClearedJournal, ClearedDict
      <4> QED
        BY Zenon, <2>1, <4>1 DEF Mem, Source
    <3> QED
      BY Zenon, <3>1, <3>2
  <2> QED
    BY Zenon, <2>0, <2>1, <2>2, <2>3, <1>e, AloneAfter
<1>13. CASE EndOpen(t)
  <2>0. /\ pc[t] = "end.open" /\ running' /\ pc' = [pc EXCEPT ![t] = "end.write"]
        /\ UNCHANGED <<dict, journal, storeFile, initialUpdate, cur, ret>>
    BY Zenon, <1>13 DEF EndOpen, Goto, memory
  <2>1. ~initialUpdate /\ \A i \in Keys : Mem(i) /\ Sync(i)
    BY Zenon, <2>0, <1>a DEF Creating, JrnPoints, StoreWrites
  <2>2. \A i \in Keys : Mem(i)' /\ Sync(i)'
    BY Zenon, <2>0, <2>1 DEF Mem, Source, Sync
  <2> QED
    BY Zenon, <2>0, <2>1, <2>2, <1>e, AloneAfter
<1>14. CASE EndWrite(t)
  <2>0. /\ pc[t] = "end.write" /\ running'
        /\ journalFile' = PersistedAll(journal')
        /\ UNCHANGED <<dict, journal, storeFile, initialUpdate>>
    BY Zenon, <1>14 DEF EndWrite
  <2>1. PICK l \in {"idle", "loop"} : pc' = [pc EXCEPT ![t] = l]
    BY Zenon, <1>14 DEF EndWrite, AfterEnd, Leave, Goto
  <2>2. ~initialUpdate /\ \A i \in Keys : Mem(i) /\ Sync(i)
    BY Zenon, <2>0, <1>a DEF Creating, JrnPoints, StoreWrites
  <2>3. \A i \in Keys : Mem(i)' /\ Sync(i)'
    BY Zenon, <2>0, <2>2 DEF Mem, Source, Sync
  <2>4. \A i \in Keys : Recoverable(i)'
    BY Zenon, <2>0, <2>3, Written
  <2>5. l \in PCs /\ l \notin JrnPoints /\ l \notin {"append", "set.open", "set.write", "jrn.write"}
    BY Zenon DEF PCs, JrnPoints
  <2> QED
    BY Zenon, <2>0, <2>1, <2>2, <2>3, <2>4, <2>5, AloneAfter
<1> QED
  BY Zenon, <1>1, <1>2, <1>3, <1>4, <1>5, <1>6, <1>7, <1>8, <1>9, <1>10, <1>11, <1>12, <1>13,
     <1>14 DEF Step

\* Every step of the system preserves the invariant when the calls exclude
\* each other and the process only stops between rewrites.
LEMMA OverrideNext ==
  ASSUME Benign, Unwatched \/ Locked, TypeInv, TypeInv', LockInv, OverrideInv, [Next]_vars
  PROVE  OverrideInv'
<1> USE BSAssumption DEF NoRec, NoFile, NoThread
<1>t. "set" \in Threads /\ "watch" \in Threads /\ Threads = {"set", "watch"}
  BY Zenon DEF Threads
<1>y. pc \in [Threads -> PCs] /\ journal \in Journal
  BY Zenon DEF TypeInv, TypeOK
<1>x. \A t \in Threads : pc[t] # "idle" => \A u \in Threads \ {t} : pc[u] = "idle"
  BY Zenon, Exclusive
<1>r. \A t \in Threads : pc[t] # "idle" => running
  BY Zenon DEF LockInv
<1>q. ASSUME \A t \in Threads : pc[t] = "idle"
      PROVE  (\A k \in Keys : Mem(k) /\ Sync(k) /\ Recoverable(k)) /\ ~initialUpdate
  <2>1. \A u \in Threads \ {"set"} : pc[u] = "idle"
    BY Zenon, <1>q
  <2> QED
    BY Zenon, <1>q, <2>1, <1>t, Alone DEF JrnPoints, StoreWrites, Settled, Creating
\* A request finds no other thread in the store.
<1>free. ASSUME pc["set"] = "idle", mtx = "none" \/ ("clear" \in Ops)
         PROVE  \A t \in Threads : pc[t] = "idle"
  BY Zenon, <1>free, <1>t DEF LockInv, Locked, Unwatched
<1>init. ASSUME \A t \in Threads : pc[t] = "idle", EnterInit, running',
                UNCHANGED <<storeFile, journalFile, initialUpdate>>,
                \A k \in Keys : journal'[k] # None /\ journal'[k].src \in Overrides =>
                  storeFile # None /\ storeFile[k] = journal'[k].upd
         PROVE  OverrideInv'
  <2>1. /\ dict' = IF storeFile = NoFile THEN NoEntries ELSE storeFile
        /\ pc' = [pc EXCEPT !["set"] = "load"]
    BY Zenon, <1>init DEF EnterInit, Goto
  <2>2. \A k \in Keys : Mem(k)' /\ Sync(k)' /\ Recoverable(k)'
    BY Zenon, <1>init, <1>q, <2>1 DEF Mem, Source, Sync, Recoverable, NoEntries, Overrides
  <2>3. "load" \in PCs /\ "load" \notin JrnPoints
    BY Zenon DEF PCs, JrnPoints
  <2>4. \A u \in Threads \ {"set"} : pc[u] = "idle"
    BY Zenon, <1>init
  <2> QED
    BY Zenon, <1>init, <1>q, <1>t, <2>1, <2>2, <2>3, <2>4, AloneAfter
<1>1. CASE Start
  <2>1. \A t \in Threads : pc[t] = "idle"
    BY Zenon, <1>1, <1>r DEF Start
  <2>2. /\ EnterInit /\ running' /\ journal' = journalFile
        /\ UNCHANGED <<storeFile, journalFile, initialUpdate>>
    BY Zenon, <1>1 DEF Start, disk
  <2>3. ASSUME NEW k \in Keys, journalFile[k] # None, journalFile[k].src \in Overrides
        PROVE  storeFile # None /\ storeFile[k] = journalFile[k].upd
    <3>1. ~running
      BY Zenon, <1>1 DEF Start
    <3>2. MayStop
      BY Zenon, <2>3, <3>1 DEF OverrideInv, DownInv, NoRecords
    <3> QED
      BY Zenon, <2>1, <2>3, <3>2, <1>q DEF Recoverable
  <2> QED
    BY Zenon, <2>1, <2>2, <2>3, <1>init
<1>2. CASE RetryInit
  <2>1. \A t \in Threads : pc[t] = "idle"
    BY Zenon, <1>2, <1>free DEF RetryInit
  <2>2. /\ EnterInit /\ running' /\ journal' = journal
        /\ UNCHANGED <<storeFile, journalFile, initialUpdate>>
    BY Zenon, <1>2 DEF RetryInit, disk
  <2>3. ASSUME NEW k \in Keys, journal[k] # None, journal[k].src \in Overrides
        PROVE  storeFile # None /\ storeFile[k] = journal[k].upd
    <3>1. dict[k] = journal[k].upd /\ Sync(k)
      BY Zenon, <2>1, <2>3, <1>q DEF Mem, Source
    <3>2. journal[k].upd # None
      BY Zenon, <2>3, <1>y DEF Journal, Rec, Stored
    <3> QED
      BY Zenon, <3>1, <3>2 DEF Sync
  <2> QED
    BY Zenon, <2>1, <2>2, <2>3, <1>init
<1>3. ASSUME NEW t \in Threads, Step(t) PROVE OverrideInv'
  <2>1. pc[t] # "idle"
    BY Zenon, <1>3 DEF Step, Load, ApplyDefault, Loaded, Return, Append, SetOpen, SetWrite, JrnOpen,
       JrnWrite, RmOpen, RmWrite, ClrOpen, ClrWrite, EndOpen, EndWrite, TruncateStore
  <2> QED
    BY Zenon, <1>3, <2>1, <1>x, <1>r, OverrideStep
<1>over. ASSUME NEW c, NEW k \in Keys, NEW v \in Values, NEW s \in Sources, NEW r \in Returns,
                Overriding(c, k, v, s, r), running' = running,
                UNCHANGED <<dict, storeFile, journalFile, initialUpdate>>
         PROVE  OverrideInv'
  <2>1. /\ running' /\ pc["set"] = "idle" /\ journal' = Unmarked(k)
        /\ SetRawValue("set", k, v, s, journal', r)
    BY Zenon, <1>over DEF Overriding
  <2>2. \A t \in Threads : pc[t] = "idle"
    BY Zenon, <1>over, <1>free DEF Overriding
  <2>3. \A i \in Keys : SameRecord(journal'[i], journal[i])
    BY Zenon, <2>1, UnmarkedSame
  <2> QED
    BY Zenon, <1>over, <2>1, <2>2, <2>3, <1>t, <1>q, Enter
<1>4. ASSUME NEW k \in Keys, NEW v \in Values, NEW s \in {"rfc", "webpa"}, OverrideValue(k, v, s)
      PROVE  OverrideInv'
  BY <1>4, <1>over DEF OverrideValue, Sources, Returns, disk
<1>5. ASSUME NEW p \in Partners, NEW s \in {"rfc", "webpa", "iarm"}, SetPartner(p, s)
      PROVE  OverrideInv'
  BY <1>5, <1>over DEF SetPartner, Sources, Returns
<1>6. CASE ClearDBStart
  <2>1. /\ running /\ pc["set"] = "idle" /\ "clear" \in Ops
        /\ journal' = [k \in Keys |-> IF Source(k) = "rfc"
                                      THEN [journal[k] EXCEPT !.clear = TRUE] ELSE journal[k]]
        /\ UNCHANGED <<running, dict, storeFile, journalFile, initialUpdate, pc>>
    BY Zenon, <1>6 DEF ClearDBStart, disk, control
  <2>2. \A t \in Threads : pc[t] = "idle"
    BY Zenon, <2>1, <1>free
  <2>3. ASSUME NEW k \in Keys PROVE SameRecord(journal'[k], journal[k])
    <3>1. CASE Source(k) = "rfc"
      <4>1. journal[k] \in Rec
        BY Zenon, <3>1, <1>y DEF Source, Journal
      <4>2. journal'[k] = [journal[k] EXCEPT !.clear = TRUE]
        BY Zenon, <2>1, <3>1
      <4>3. journal'[k] \in Rec /\ journal'[k].src = journal[k].src
            /\ journal'[k].upd = journal[k].upd
        BY Zenon, <4>1, <4>2 DEF Rec
      <4>4. None \notin Rec
        BY Zenon DEF Rec
      <4> QED
        BY Zenon, <4>1, <4>3, <4>4 DEF SameRecord
    <3>2. CASE Source(k) # "rfc"
      BY Zenon, <2>1, <3>2 DEF SameRecord
    <3> QED
      BY Zenon, <3>1, <3>2
  <2>4. \A k \in Keys : Mem(k)' /\ Sync(k)' /\ Recoverable(k)'
    BY Zenon, <2>1, <2>2, <2>3, <1>q DEF Mem, Source, SameRecord, Sync, Recoverable
  <2>5. pc' = [pc EXCEPT !["set"] = "idle"] /\ "idle" \in PCs /\ "idle" \notin JrnPoints
        /\ \A u \in Threads \ {"set"} : pc[u] = "idle"
    BY Zenon, <2>1, <2>2, <1>y DEF PCs, JrnPoints
  <2> QED
    BY Zenon, <2>1, <2>2, <2>4, <2>5, <1>t, <1>q, AloneAfter
<1>7. CASE ClearDBEnd
  <2>1. /\ running /\ pc["set"] = "idle" /\ "clear" \in Ops
        /\ pc' = [pc EXCEPT !["set"] = "clr.open"]
        /\ UNCHANGED <<running, dict, journal, storeFile, journalFile, initialUpdate>>
    BY Zenon, <1>7 DEF ClearDBEnd, disk, memory, Goto
  <2>2. \A t \in Threads : pc[t] = "idle"
    BY Zenon, <2>1, <1>free
  <2> QED
    BY Zenon, <2>1, <2>2, <1>t, <1>q, Move DEF Settled
<1>8. CASE WatchReload
  <2>1. /\ running /\ pc["watch"] = "idle" /\ mtx = "none"
        /\ SetRawValue("watch", PartnerIdKey, seen, "default", journal', "load")
        /\ UNCHANGED <<running, dict, journal, storeFile, journalFile, initialUpdate>>
    BY Zenon, <1>8 DEF WatchReload, disk, memory
  <2>2. pc["set"] = "idle"
    BY Zenon, <1>8, <1>t DEF LockInv, Locked, Unwatched, WatchReload
  <2>3. \A t \in Threads : pc[t] = "idle"
    BY Zenon, <2>1, <2>2, <1>t
  <2>4. seen \in Values /\ PartnerIdKey \in Keys
    BY Zenon, <1>8 DEF WatchReload, TypeInv, TypeOK
  <2>5. \A i \in Keys : SameRecord(journal'[i], journal[i])
    BY Zenon, <2>1 DEF SameRecord
  <2> QED
    BY Zenon, <2>1, <2>3, <2>4, <2>5, <1>t, <1>q, Enter DEF Sources, Returns
\* rfcUpdateEnd does not reach the journal file: nothing reads it again.
<1>end. ASSUME NEW t \in Threads, OpenFails(t), pc[t] = "end.open" PROVE OverrideInv'
  <2>1. UNCHANGED <<running, dict, journal, storeFile, journalFile, initialUpdate>>
    BY Zenon, <1>end DEF OpenFails, disk
  <2>2. PICK l \in {"idle", "loop"} : pc' = [pc EXCEPT ![t] = l]
    BY Zenon, <1>end DEF OpenFails, AfterEnd, Leave, Goto
  <2>3. running' /\ \A u \in Threads \ {t} : pc[u] = "idle"
    BY Zenon, <1>end, <2>1, <1>r, <1>x
  <2>4. ~initialUpdate /\ \A k \in Keys : Mem(k) /\ Sync(k)
    BY Zenon, <1>end, <2>3, Alone DEF Creating, JrnPoints, StoreWrites
  <2>5. ~MayStop
    BY Zenon, <1>end DEF OpenFails, Benign
  <2>6. \A k \in Keys : Mem(k)' /\ Sync(k)' /\ Recoverable(k)'
    BY Zenon, <2>1, <2>4, <2>5 DEF Mem, Source, Sync, Recoverable
  <2>7. l \in PCs /\ l \notin JrnPoints /\ l \notin {"append", "set.open", "set.write", "jrn.write"}
    BY Zenon DEF PCs, JrnPoints
  <2> QED
    BY Zenon, <2>1, <2>2, <2>3, <2>4, <2>6, <2>7, AloneAfter
<1>9. ASSUME NEW t \in Threads, OpenFails(t), pc[t] # "end.open" PROVE OverrideInv'
  <2>1. /\ pc[t] \in {"append", "set.open", "rm.open", "clr.open"} /\ pc[t] # "idle"
        /\ UNCHANGED <<running, dict, journal, storeFile, journalFile, initialUpdate>>
    BY Zenon, <1>9 DEF OpenFails, Benign, disk
  <2>2. PICK l \in {"idle", "return", "end.open"} : pc' = [pc EXCEPT ![t] = l]
    BY Zenon, <1>9, <2>1 DEF OpenFails, Leave, Goto
  <2>3. running' /\ \A u \in Threads \ {t} : pc[u] = "idle"
    BY Zenon, <2>1, <1>r, <1>x
  <2>4. initialUpdate => Creating(t)
    BY Zenon, <2>3, Alone
  <2>5. initialUpdate => Creating(t)'
    <3>1. SUFFICES ASSUME initialUpdate PROVE Creating(t)'
      BY Zenon
    <3>2. /\ pc[t] = "append" /\ cur[t] \in Call /\ cur[t].src = "default" /\ ret[t] = "loop"
      BY Zenon, <3>1, <2>1, <2>4 DEF Creating
    <3>3. /\ pc' = [pc EXCEPT ![t] = "return"] /\ cur' = cur
          /\ ret' = [ret EXCEPT ![t] = IF @ = "unlock+load" THEN "idle" ELSE @]
      BY Zenon, <1>9, <3>2 DEF OpenFails, Goto
    <3>4. pc'[t] = "return" /\ ret'[t] = "loop"
      BY Zenon, <3>2, <3>3 DEF TypeInv, TypeOK
    <3> QED
      BY Zenon, <3>2, <3>3, <3>4 DEF Creating
  <2> QED
    BY Zenon, <2>1, <2>2, <2>3, <2>5, Move DEF Settled
<1>10. CASE Crash
  <2>1. /\ \A t \in Threads : pc[t] \in {"idle", "load", "loop"}
        /\ ~running' /\ dict' = NoEntries /\ journal' = NoRecords /\ ~initialUpdate'
        /\ pc' = [t \in Threads |-> "idle"]
        /\ storeFile' = storeFile /\ journalFile' = journalFile /\ MayStop
    BY Zenon, <1>10, <1>t DEF Crash, Benign, MayStop
  <2>2. \A k \in Keys : Recoverable(k)
    BY Zenon, <2>1 DEF OverrideInv, FileInv, Settled
  <2>3. \A k \in Keys : Mem(k)' /\ Sync(k)' /\ Recoverable(k)'
    BY Zenon, <2>1, <2>2 DEF Mem, Source, Sync, Recoverable, NoEntries, NoRecords, Overrides
  <2>4. \A t \in Threads : pc'[t] = "idle"
    BY Zenon, <2>1
  <2>5. "idle" \notin JrnPoints
    BY Zenon DEF JrnPoints
  <2>6. DownInv' /\ MemInv' /\ AheadInv' /\ RecInv' /\ DefaultInv'
    BY Zenon, <2>1, <2>3, <2>4, <2>5 DEF DownInv, MemInv, AheadInv, RecInv, DefaultInv
  <2>7. SyncInv' /\ FileInv' /\ CreateInv'
    BY Zenon, <2>1, <2>3 DEF SyncInv, FileInv, CreateInv
  <2> QED
    BY Zenon, <2>6, <2>7 DEF OverrideInv
<1>11. CASE /\ UNCHANGED <<running, dict, storeFile, journal, journalFile, initialUpdate>>
            /\ UNCHANGED <<pc, cur, ret>>
  <2>1. DownInv' /\ MemInv' /\ AheadInv'
    BY <1>11 DEF OverrideInv, DownInv, MemInv, AheadInv, Mem, Source
  <2>2. RecInv' /\ DefaultInv'
    BY Zenon, <1>11 DEF OverrideInv, RecInv, DefaultInv, Journaled, Source
  <2>3. SyncInv' /\ FileInv'
    BY Zenon, <1>11 DEF OverrideInv, SyncInv, FileInv, Sync, Recoverable
  <2>4. CreateInv'
    BY Zenon, <1>11 DEF OverrideInv, CreateInv, NoOverrides, Source, Creating
  <2> QED
    BY Zenon, <2>1, <2>2, <2>3, <2>4 DEF OverrideInv
<1>12. CASE Upgrade \/ WatchRead \/ \E p \in Partners : AuthServiceWrites(p)
  BY Zenon, <1>12, <1>11 DEF Upgrade, WatchRead, AuthServiceWrites, disk, memory, control
<1>13. CASE UNCHANGED vars
  BY Zenon, <1>13, <1>11 DEF vars, memory, control, disk
<1> QED
  BY <1>1, <1>2, <1>3, <1>4, <1>5, <1>6, <1>7, <1>8, <1>9, <1>end, <1>10, <1>12, <1>13
     DEF Next, Request, Environment

\* An override stays in force across restarts, upgrades, partner changes and
\* reloads, for every set of parameters, values, partners and images, as long
\* as the calls of the two threads exclude each other and the process is not
\* stopped in the middle of rewriting a file.
THEOREM OverridesKept ==
  ASSUME Benign, Unwatched \/ Locked
  PROVE  Spec => []OverrideActive
<1>1. TypeInv /\ LockInv /\ OverrideInv => OverrideActive
  <2>1. SUFFICES ASSUME LockInv, OverrideInv, Quiet
                 PROVE  \A k \in Keys : Source(k) \in Overrides => dict[k] = journal[k].upd
    BY Zenon DEF OverrideActive, Overrides
  <2>2. \A t \in Threads : pc[t] \notin JrnPoints
    BY Zenon, <2>1 DEF LockInv, Quiet, JrnPoints
  <2> QED
    BY Zenon, <2>1, <2>2 DEF OverrideInv, MemInv, Mem
<1>2. TypeInv /\ TypeInv' /\ LockInv /\ OverrideInv /\ [Next]_vars => OverrideInv'
  BY Zenon, OverrideNext
<1> QED
  BY <1>1, <1>2, InitType, NextType, LockInit, LockNext, OverrideInit, PTL DEF Spec

-----------------------------------------------------------------------------
(* What the store serves and what its files hold between calls.            *)

\* Every file can be opened.
Openable == IOFaults = {}

\* Every section of partners_defaults.json has at least one default.
Populated ==
  \A f \in Firmwares : \A s \in DOMAIN Generic[f] : \E k \in Keys : Generic[f][s][k] # None

\* No thread but t is inside the store.
Sole(t) == \A u \in Threads \ {t} : pc[u] = "idle"
-----------------------------------------------------------------------------
(* The files and the caches.                                               *)

SameStore == storeFile = dict \/ (storeFile = NoFile /\ dict = NoEntries)
SameJournal == journalFile = PersistedAll(journal)

\* What the journal file holds is what reading and writing it again gives.
Clean == PersistedAll(journalFile) = journalFile

\* The initial update is on while the defaults are being appended.
Appending(t) ==
  \/ pc[t] = "loop"
  \/ pc[t] \in {"append", "jrn.open", "return"} /\ ret[t] = "loop"

\* Where the thread inside the store may be while bootstrap.ini is missing.
Making(t) ==
  \/ pc[t] \in {"idle", "load"}
  \/ pc[t] \in {"set.open", "jrn.open", "jrn.write", "return"} /\ ret[t] = "load"
  \/ initialUpdate /\ pc[t] = "append"
  \/ initialUpdate /\ pc[t] = "loop" /\ todo[t] # NoEntries

StoreAhead == {"set.write", "rm.open", "rm.write", "clr.write"}
JournalAhead == {"jrn.write", "rm.open", "rm.write", "end.open", "end.write"}

FilesOK(t) ==
  /\ running /\ pc[t] \notin StoreAhead => SameStore
  /\ running /\ pc[t] \notin JournalAhead => SameJournal
  /\ initialUpdate => running /\ Appending(t)
  /\ Clean

MadeOK(t) == storeFile = NoFile => ~initDone /\ Making(t)
-----------------------------------------------------------------------------
(* Loading the defaults.                                                   *)

Between == {"idle", "load", "clr.open", "clr.write"}
Clearing == {"clr.open", "clr.write", "end.open", "end.write"}

\* Which defaults are still to come, and what setRawValue is called with.
LoadOK(t) ==
  /\ ~running => active = NoEntries
  /\ active[PartnerIdKey] = None
  /\ pc[t] \in Between => todo[t] = NoEntries
  /\ pc[t] \in InSetRawValue \cup {"return"} /\ ret[t] # "loop" => todo[t] = NoEntries
  /\ call[t] = "clearEnd" => pc[t] \in Clearing /\ todo[t] = NoEntries
  /\ pc[t] \in {"clr.open", "clr.write"} => call[t] = "clearEnd"
  /\ \A k \in Keys : todo[t][k] \in {None, active[k]}
  /\ pc[t] \in InSetRawValue =>
       /\ cur[t].src = "default" => active[cur[t].key] \in {None, cur[t].val}
       /\ ret[t] = "loop" => cur[t].src = "default"
       /\ cur[t].src = "iarm" => cur[t].key = PartnerIdKey /\ "setPartner" \in Ops
  /\ pc[t] \in JrnPoints /\ cur[t].src = "default" =>
       dict[cur[t].key] = cur[t].val \/ Source(cur[t].key) \in Overrides
  /\ pc[t] = "jrn.write" => cur[t].rec = Journaled(cur[t].key, cur[t].val, cur[t].src)

\* A default the load has finished with is served unless it is overridden.
ServedOK(t) ==
  \A k \in Keys \ {PartnerIdKey} :
    active[k] # None /\ Source(k) \notin Overrides =>
      \/ dict[k] = active[k]
      \/ todo[t][k] # None
      \/ pc[t] \in InSetRawValue /\ cur[t].key = k

\* A default the load has finished with is in the journal, and the journal's
\* default is the value served for a key that is not overridden.
RecordedOK(t) ==
  /\ \A k \in Keys : active[k] # None =>
       \/ journal[k] # NoRec /\ journal[k].fw = active[k]
       \/ todo[t][k] # None
       \/ pc[t] \in InSetRawValue /\ cur[t].key = k /\ cur[t].src = "default"
  /\ \A k \in Keys \ {PartnerIdKey} :
       /\ Source(k) # "iarm"
       /\ Source(k) = "default" => \/ dict[k] = journal[k].fw
                                   \/ pc[t] \in JrnPoints /\ cur[t].key = k
       /\ ~running /\ journalFile[k] # NoRec /\ journalFile[k].src = "default" =>
            storeFile # NoFile /\ storeFile[k] = journalFile[k].fw
-----------------------------------------------------------------------------
(* The RFC session.                                                        *)

\* A key set in the session is attributed to RFC and unmarked, or the call
\* that sets it has yet to write its record.
SessionOK(t) ==
  /\ rfcUpdate => running
  /\ \A k \in Keys : Marked(k) => rfcUpdate /\ Source(k) = "rfc"
  /\ call[t] = "clearEnd" /\ pc[t] \in {"end.open", "end.write"} => \A k \in Keys : ~Marked(k)
  /\ rfcUpdate => \A k \in Keys :
       \/ Source(k) = "rfc" /\ ~Marked(k) <=> k \in resent
       \/ pc[t] \in InSetRawValue /\ cur[t].key = k /\ cur[t].src # "default"
  /\ rfcUpdate /\ pc[t] \in InSetRawValue /\ cur[t].src # "default" =>
       (cur[t].key \in resent <=> cur[t].src = "rfc")
-----------------------------------------------------------------------------
\* The inductive invariant.  What it says of a thread it says while no other
\* thread is inside the store.
StoreOK(t) ==
  /\ FilesOK(t)
  /\ LoadOK(t)
  /\ Populated => MadeOK(t)
  /\ Locked => ServedOK(t)
  /\ Benign => RecordedOK(t) /\ SessionOK(t)

StoreInv ==
  /\ \A u \in Threads : pc[u] = "idle" => todo[u] = NoEntries
  /\ \A t \in Threads : Sole(t) => StoreOK(t)

LEMMA StoreInit == Init => StoreInv
<1> SUFFICES ASSUME Init PROVE StoreInv
  BY Zenon
<1> USE BSAssumption DEF NoRec, NoFile
<1>1. /\ \A t \in Threads : pc[t] = "idle" /\ todo[t] = NoEntries /\ call[t] = "none"
      /\ ~running /\ ~initialUpdate /\ ~initDone /\ ~rfcUpdate
      /\ active = NoEntries /\ journalFile = NoRecords /\ journal = NoRecords
      /\ storeFile = None
  BY Zenon DEF Init
<1>2. /\ "idle" \notin InSetRawValue /\ "idle" \notin JrnPoints /\ "idle" # "jrn.write"
      /\ "idle" # "return"
  BY Zenon DEF InSetRawValue, JrnPoints
<1>3. \A k \in Keys : /\ Source(k) = "none" /\ ~Marked(k) /\ active[k] = None
                      /\ journalFile[k] = None /\ NoEntries[k] = None
  BY Zenon, <1>1 DEF Source, Marked, NoRecords, NoEntries
<1>4. Clean
  BY Zenon, <1>1 DEF Clean, PersistedAll, Persisted, NoRecords
<1>5. ASSUME NEW t \in Threads PROVE FilesOK(t) /\ LoadOK(t)
  BY Zenon, <1>1, <1>2, <1>3, <1>4 DEF FilesOK, LoadOK
<1>6. ASSUME NEW t \in Threads PROVE MadeOK(t) /\ ServedOK(t) /\ RecordedOK(t) /\ SessionOK(t)
  BY Zenon, <1>1, <1>2, <1>3 DEF MadeOK, Making, ServedOK, RecordedOK, SessionOK
<1> QED
  BY Zenon, <1>1, <1>5, <1>6 DEF StoreInv, StoreOK

\* A step of thread t, alone in the store, preserves the invariant if it
\* preserves what the invariant says of t.
LEMMA After ==
  ASSUME TypeInv, TypeInv', LockInv', StoreInv, NEW t \in Threads, Sole(t),
         NEW l \in PCs, pc' = [pc EXCEPT ![t] = l],
         \A u \in Threads \ {t} : todo'[u] = todo[u],
         l = "idle" => todo'[t] = NoEntries,
         StoreOK(t)'
  PROVE  StoreInv'
<1> USE DEF NoRec, NoFile
<1>1. pc'[t] = l /\ \A u \in Threads \ {t} : pc'[u] = "idle" /\ todo'[u] = NoEntries
  BY Zenon DEF TypeInv, TypeOK, Sole, StoreInv
<1>2. \A u \in Threads : pc'[u] = "idle" => todo'[u] = NoEntries
  BY Zenon, <1>1
<1>3. SUFFICES ASSUME NEW u \in Threads, u # t, Sole(u)' PROVE StoreOK(u)'
  BY Zenon, <1>2 DEF StoreInv
<1>4. pc'[t] = "idle" /\ pc'[u] = "idle" /\ todo'[t] = NoEntries /\ todo'[u] = NoEntries
  BY Zenon, <1>1, <1>2, <1>3 DEF Sole
<1>5. call'[t] = "none" /\ call'[u] = "none"
  BY Zenon, <1>4 DEF LockInv
<1>6. "idle" \notin InSetRawValue /\ "idle" \notin JrnPoints /\ "idle" # "jrn.write"
  BY Zenon DEF InSetRawValue, JrnPoints
<1>7. FilesOK(u)' /\ LoadOK(u)'
  BY Zenon, <1>4, <1>5, <1>6 DEF StoreOK, FilesOK, LoadOK, Appending
<1>8. Populated => MadeOK(u)'
  BY Zenon, <1>4 DEF StoreOK, MadeOK, Making
<1>9. Locked => ServedOK(u)'
  BY Zenon, <1>4, <1>6 DEF StoreOK, ServedOK
<1>10. Benign => RecordedOK(u)' /\ SessionOK(u)'
  BY Zenon, <1>4, <1>5, <1>6 DEF StoreOK, RecordedOK, SessionOK
<1> QED
  BY Zenon, <1>7, <1>8, <1>9, <1>10 DEF StoreOK

\* What a step does when the calls exclude each other and no file fails to open.
Elsewhere ==
  UNCHANGED <<running, storeFile, journalFile, memory, control, active, resent>>

LEMMA Schedule ==
  ASSUME Openable, Unwatched \/ Locked, TypeInv, LockInv, [Next]_vars
  PROVE  \/ \E t \in Threads : Sole(t) /\ running /\ Step(t)
         \/ /\ \A t \in Threads : pc[t] = "idle"
            /\ Start \/ RetryInit \/ Request \/ WatchReload
         \/ Crash
         \/ Elsewhere
<1> USE DEF NoThread
<1>t. "set" \in Threads /\ "watch" \in Threads /\ Threads = {"set", "watch"}
  BY Zenon DEF Threads
<1>r. \A t \in Threads : pc[t] # "idle" => running
  BY Zenon DEF LockInv
<1>free. ASSUME pc["set"] = "idle", mtx = "none" \/ ("clear" \in Ops)
         PROVE  \A t \in Threads : pc[t] = "idle"
  BY Zenon, <1>free, <1>t DEF LockInv, Locked, Unwatched
<1>1. CASE Start
  BY Zenon, <1>1, <1>r DEF Start
<1>2. CASE RetryInit
  BY Zenon, <1>2, <1>free DEF RetryInit
<1>3. ASSUME NEW t \in Threads, Step(t) PROVE Sole(t) /\ running
  <2>1. pc[t] # "idle"
    BY Zenon, <1>3 DEF Step, Load, ApplyDefault, Loaded, Return, Append, SetOpen, SetWrite, JrnOpen,
       JrnWrite, RmOpen, RmWrite, ClrOpen, ClrWrite, EndOpen, EndWrite, TruncateStore
  <2> QED
    BY Zenon, <2>1, <1>r, Exclusive DEF Sole
<1>4. ASSUME NEW t \in Threads, OpenFails(t) PROVE FALSE
  BY Zenon, <1>4 DEF OpenFails, Openable
<1>5. CASE Request
  <2>1. ASSUME NEW c, NEW k, NEW v, NEW s, NEW r, Overriding(c, k, v, s, r)
        PROVE  \A t \in Threads : pc[t] = "idle"
    BY Zenon, <2>1, <1>free DEF Overriding
  <2>2. CASE ClearDBStart \/ ClearDBEnd
    BY Zenon, <2>2, <1>5, <1>free DEF ClearDBStart, ClearDBEnd
  <2> QED
    BY Zenon, <1>5, <2>1, <2>2 DEF Request, OverrideValue, SetPartner
<1>6. CASE WatchReload
  <2>1. pc["watch"] = "idle" /\ mtx = "none"
    BY Zenon, <1>6 DEF WatchReload
  <2>2. pc["set"] = "idle"
    BY Zenon, <1>6, <1>t DEF LockInv, Locked, Unwatched, WatchReload
  <2> QED
    BY Zenon, <1>6, <1>t, <2>1, <2>2
<1>7. CASE Upgrade \/ WatchRead \/ \E p \in Partners : AuthServiceWrites(p)
  BY Zenon, <1>7 DEF Upgrade, WatchRead, AuthServiceWrites, disk, Elsewhere
<1>8. CASE UNCHANGED vars
  BY Zenon, <1>8 DEF vars, disk, Elsewhere
<1> QED
  BY Zenon, <1>1, <1>2, <1>3, <1>4, <1>5, <1>6, <1>7, <1>8 DEF Next, Environment
-----------------------------------------------------------------------------
(* The steps of a call, one lemma for each.                                *)

\* The sets of program points are disjoint as their names say.
LEMMA Points ==
  /\ JrnPoints \subseteq InSetRawValue
  /\ InSetRawValue \cap (Between \cup Clearing \cup {"return", "loop", "rm.open", "rm.write"}) = {}
  /\ "jrn.write" \in JrnPoints
  BY Zenon DEF JrnPoints, InSetRawValue, Between, Clearing

\* setRawValue truncates bootstrap.ini.
LEMMA AtSetOpen ==
  ASSUME TypeInv, TypeInv', NEW t \in Threads, StoreOK(t), running, SetOpen(t)
  PROVE  StoreOK(t)'
<1> USE BSAssumption DEF NoRec, NoFile
<1>1. /\ pc[t] = "set.open" /\ pc'[t] = "set.write" /\ running'
      /\ UNCHANGED <<dict, journal, journalFile, initDone, initialUpdate, rfcUpdate>>
      /\ UNCHANGED <<call, cur, ret, todo, active, resent>>
      /\ storeFile' = NoEntries
  BY Zenon DEF SetOpen, TruncateStore, Goto, memory, TypeInv, TypeOK
<1>2. ~initialUpdate /\ SameJournal /\ Clean
  BY Zenon, <1>1 DEF StoreOK, FilesOK, Appending, JournalAhead
<1>3. FilesOK(t)'
  BY Zenon, <1>1, <1>2 DEF FilesOK, StoreAhead, SameJournal, Clean
<1>4. LoadOK(t)'
  <2>1. LoadOK(t) /\ pc[t] \in InSetRawValue /\ pc'[t] \in InSetRawValue
    BY Zenon, <1>1 DEF StoreOK, InSetRawValue
  <2> QED
    BY Zenon, <1>1, <2>1 DEF LoadOK, Between, Clearing, JrnPoints
<1>5. MadeOK(t)'
  <2>1. NoEntries # None
    BY Zenon DEF NoEntries, Dict
  <2> QED
    BY Zenon, <1>1, <2>1 DEF MadeOK
<1>6. Locked => ServedOK(t)'
  BY Zenon, <1>1 DEF StoreOK, ServedOK, Source, InSetRawValue
<1>7. Benign => RecordedOK(t)'
  BY Zenon, <1>1 DEF StoreOK, RecordedOK, Source, InSetRawValue, JrnPoints
<1>8. Benign => SessionOK(t)'
  BY Zenon, <1>1 DEF StoreOK, SessionOK, Source, Marked, InSetRawValue
<1> QED
  BY Zenon, <1>3, <1>4, <1>5, <1>6, <1>7, <1>8 DEF StoreOK

\* loadFromJson and clearRfcValues truncate bootstrap.ini.
LEMMA AtRmClrOpen ==
  ASSUME TypeInv, TypeInv', NEW t \in Threads, StoreOK(t), running, RmOpen(t) \/ ClrOpen(t)
  PROVE  StoreOK(t)'
<1> USE BSAssumption DEF NoRec, NoFile
<1>1. /\ \/ pc[t] = "rm.open" /\ pc'[t] = "rm.write"
         \/ pc[t] = "clr.open" /\ pc'[t] = "clr.write"
      /\ running'
      /\ UNCHANGED <<dict, journal, journalFile, initDone, initialUpdate, rfcUpdate>>
      /\ UNCHANGED <<call, cur, ret, todo, active, resent>>
      /\ storeFile' = NoEntries
  BY Zenon DEF RmOpen, ClrOpen, TruncateStore, Goto, memory, TypeInv, TypeOK
<1>2. ~initialUpdate /\ Clean /\ (pc[t] = "clr.open" => SameJournal)
  BY Zenon, <1>1 DEF StoreOK, FilesOK, Appending, JournalAhead
<1>3. FilesOK(t)'
  BY Zenon, <1>1, <1>2 DEF FilesOK, StoreAhead, JournalAhead, SameJournal, Clean
<1>4. LoadOK(t)'
  <2>1. LoadOK(t) /\ pc[t] \notin InSetRawValue /\ pc'[t] \notin InSetRawValue
    BY Zenon, <1>1 DEF StoreOK, InSetRawValue
  <2> QED
    BY Zenon, <1>1, <2>1, Points DEF LoadOK, Between, Clearing
<1>5. MadeOK(t)'
  <2>1. NoEntries # None
    BY Zenon DEF NoEntries, Dict
  <2> QED
    BY Zenon, <1>1, <2>1 DEF MadeOK
<1>6. Locked => ServedOK(t)'
  BY Zenon, <1>1, Points DEF StoreOK, ServedOK, Source, Clearing
<1>7. Benign => RecordedOK(t)'
  BY Zenon, <1>1, Points DEF StoreOK, RecordedOK, Source, Clearing
<1>8. Benign => SessionOK(t)'
  BY Zenon, <1>1, Points DEF StoreOK, SessionOK, Source, Marked, Clearing
<1> QED
  BY Zenon, <1>3, <1>4, <1>5, <1>6, <1>7, <1>8 DEF StoreOK

\* loadFromJson has rewritten bootstrap.ini without the entries it dropped.
LEMMA AtRmWrite ==
  ASSUME TypeInv, TypeInv', NEW t \in Threads, StoreOK(t), running, RmWrite(t)
  PROVE  StoreOK(t)'
<1> USE BSAssumption DEF NoRec, NoFile
<1>1. /\ pc[t] = "rm.write" /\ pc'[t] = "end.open" /\ running'
      /\ UNCHANGED <<dict, journal, journalFile, initDone, initialUpdate, rfcUpdate>>
      /\ UNCHANGED <<call, cur, ret, todo, active, resent>>
      /\ storeFile' = dict
  BY Zenon DEF RmWrite, Goto, memory, TypeInv, TypeOK
<1>2. ~initialUpdate /\ Clean
  BY Zenon, <1>1 DEF StoreOK, FilesOK, Appending
<1>3. FilesOK(t)'
  BY Zenon, <1>1, <1>2 DEF FilesOK, JournalAhead, SameStore, Clean
<1>4. LoadOK(t)' /\ call[t] # "clearEnd"
  <2>1. LoadOK(t) /\ pc[t] \notin InSetRawValue /\ pc'[t] \notin InSetRawValue
    BY Zenon, <1>1 DEF StoreOK, InSetRawValue
  <2> QED
    BY Zenon, <1>1, <2>1, Points DEF LoadOK, Between, Clearing
<1>5. MadeOK(t)'
  BY Zenon, <1>1 DEF MadeOK, TypeInv, TypeOK
<1>6. Locked => ServedOK(t)'
  BY Zenon, <1>1, Points DEF StoreOK, ServedOK, Source, Clearing
<1>7. Benign => RecordedOK(t)'
  BY Zenon, <1>1, Points DEF StoreOK, RecordedOK, Source, Clearing
<1>8. Benign => SessionOK(t)'
  BY Zenon, <1>1, <1>4, Points DEF StoreOK, SessionOK, Source, Marked, Clearing
<1> QED
  BY Zenon, <1>3, <1>4, <1>5, <1>6, <1>7, <1>8 DEF StoreOK

\* Writing a journal and reading it back twice is the same as once.
LEMMA PersistedTwice ==
  ASSUME NEW j \in Journal
  PROVE  /\ PersistedAll(PersistedAll(j)) = PersistedAll(j)
         /\ PersistedAll(NoRecords) = NoRecords
<1> USE BSAssumption DEF NoRec
<1>1. ASSUME NEW r \in Rec \cup {None} PROVE Persisted(Persisted(r)) = Persisted(r)
  <2>1. CASE r = None
    BY Zenon, <2>1 DEF Persisted
  <2>2. CASE r \in Rec
    <3> DEFINE q == Persisted(r)
    <3>1. q = [r EXCEPT !.clear = FALSE,
                        !.src = IF r.src \in {"rfc", "webpa"} THEN r.src ELSE "default"]
      BY Zenon, <2>2 DEF Persisted
    <3>2. q \in Rec /\ q.clear = FALSE /\ q.src \in {"rfc", "webpa", "default"}
      BY Zenon, <2>2, <3>1 DEF Rec, Sources
    <3>3. [q EXCEPT !.clear = FALSE,
                    !.src = IF q.src \in {"rfc", "webpa"} THEN q.src ELSE "default"] = q
      BY Zenon, <3>2 DEF Rec
    <3>4. q # None
      BY Zenon, <3>2
    <3> HIDE DEF q
    <3>5. Persisted(q) = q
      BY Zenon, <3>3, <3>4 DEF Persisted
    <3> QED
      BY Zenon, <3>5 DEF q
  <2> QED
    BY Zenon, <2>1, <2>2
<1>2. \A k \in Keys : j[k] \in Rec \cup {None}
  BY Zenon DEF Journal
<1>3. PersistedAll(PersistedAll(j)) = PersistedAll(j)
  BY Zenon, <1>1, <1>2 DEF PersistedAll
<1>4. PersistedAll(NoRecords) = NoRecords
  BY Zenon DEF PersistedAll, Persisted, NoRecords
<1> QED
  BY Zenon, <1>3, <1>4

\* rfcUpdateEnd truncates the journal file.
LEMMA AtEndOpen ==
  ASSUME TypeInv, TypeInv', NEW t \in Threads, StoreOK(t), running, EndOpen(t)
  PROVE  StoreOK(t)'
<1> USE BSAssumption DEF NoRec, NoFile
<1>1. /\ pc[t] = "end.open" /\ pc'[t] = "end.write" /\ running'
      /\ UNCHANGED <<dict, journal, storeFile, initDone, initialUpdate, rfcUpdate>>
      /\ UNCHANGED <<call, cur, ret, todo, active, resent>>
      /\ journalFile' = NoRecords
  BY Zenon DEF EndOpen, Goto, memory, TypeInv, TypeOK
<1>2. ~initialUpdate /\ SameStore
  BY Zenon, <1>1 DEF StoreOK, FilesOK, Appending, StoreAhead
<1>3. Clean'
  BY Zenon, <1>1, PersistedTwice DEF Clean, TypeInv, TypeOK
<1>4. FilesOK(t)'
  BY Zenon, <1>1, <1>2, <1>3 DEF FilesOK, JournalAhead, SameStore
<1>5. LoadOK(t)'
  <2>1. LoadOK(t) /\ pc[t] \notin InSetRawValue /\ pc'[t] \notin InSetRawValue
    BY Zenon, <1>1 DEF StoreOK, InSetRawValue
  <2> QED
    BY Zenon, <1>1, <2>1, Points DEF LoadOK, Between, Clearing
<1>6. Populated => MadeOK(t)'
  BY Zenon, <1>1, <1>2 DEF StoreOK, MadeOK, Making
<1>7. Locked => ServedOK(t)'
  BY Zenon, <1>1, Points DEF StoreOK, ServedOK, Source, Clearing
<1>8. Benign => RecordedOK(t)'
  BY Zenon, <1>1, Points DEF StoreOK, RecordedOK, Source, Clearing
<1>9. Benign => SessionOK(t)'
  BY Zenon, <1>1, Points DEF StoreOK, SessionOK, Source, Marked, Clearing
<1> QED
  BY Zenon, <1>4, <1>5, <1>6, <1>7, <1>8, <1>9 DEF StoreOK

\* A thread with nothing left to load leaves the store with everything in order.
LEMMA Leaving ==
  ASSUME TypeInv, NEW t \in Threads, StoreOK(t), running, running', Leave(t),
         pc[t] \notin InSetRawValue, todo[t] = NoEntries,
         UNCHANGED <<dict, journal, storeFile, active, resent>>,
         SameStore, SameJournal', Clean', ~initialUpdate',
         Populated /\ storeFile = NoFile => ~initDone',
         rfcUpdate' => rfcUpdate,
         Benign /\ rfcUpdate /\ ~rfcUpdate' => \A k \in Keys : ~Marked(k)
  PROVE  StoreOK(t)' /\ pc' = [pc EXCEPT ![t] = "idle"] /\ todo'[t] = NoEntries
<1> USE BSAssumption DEF NoRec, NoFile
<1>1. /\ pc' = [pc EXCEPT ![t] = "idle"] /\ pc'[t] = "idle"
      /\ call'[t] = "none" /\ todo'[t] = NoEntries
  BY Zenon DEF Leave, Goto, TypeInv, TypeOK
<1>2. "idle" \notin InSetRawValue /\ "idle" \notin JrnPoints
  BY Zenon DEF InSetRawValue, JrnPoints
<1>e. \A k \in Keys : NoEntries[k] = None
  BY Zenon DEF NoEntries
<1>3. FilesOK(t)'
  BY Zenon DEF FilesOK, SameStore
<1>4. LoadOK(t)'
  BY Zenon, <1>1, <1>2, <1>e DEF StoreOK, LoadOK
<1>5. Populated => MadeOK(t)'
  BY Zenon, <1>1 DEF MadeOK, Making
<1>6. Locked => ServedOK(t)'
  BY Zenon, <1>1, <1>e DEF StoreOK, ServedOK, Source
<1>7. Benign => RecordedOK(t)'
  BY Zenon, <1>1, <1>e, Points DEF StoreOK, RecordedOK, Source
<1>8. Benign => SessionOK(t)'
  BY Zenon, <1>1, <1>2 DEF StoreOK, SessionOK, Source, Marked
<1> QED
  BY Zenon, <1>1, <1>3, <1>4, <1>5, <1>6, <1>7, <1>8 DEF StoreOK

\* rfcUpdateEnd has written the journal; ClearDBEnd is over, or the load goes on.
LEMMA AtEndWrite ==
  ASSUME TypeInv, TypeInv', NEW t \in Threads, StoreOK(t), running, EndWrite(t)
  PROVE  StoreOK(t)'
<1> USE BSAssumption DEF NoRec, NoFile
<1>1. /\ pc[t] = "end.write" /\ running'
      /\ UNCHANGED <<dict, journal, storeFile, initDone, initialUpdate>>
      /\ UNCHANGED <<active, resent>>
      /\ journalFile' = PersistedAll(journal)
      /\ AfterEnd(t)
  BY Zenon DEF EndWrite
<1>2. ~initialUpdate /\ SameStore /\ SameJournal' /\ Clean'
  BY Zenon, <1>1, PersistedTwice DEF StoreOK, FilesOK, Appending, StoreAhead, SameJournal, Clean,
     TypeInv, TypeOK
<1>3. Populated => storeFile # NoFile
  BY Zenon, <1>1, <1>2 DEF StoreOK, MadeOK, Making
<1>4. CASE call[t] = "clearEnd"
  <2>1. Leave(t) /\ ~rfcUpdate'
    BY Zenon, <1>1, <1>4 DEF AfterEnd
  <2>2. todo[t] = NoEntries /\ pc[t] \notin InSetRawValue
    BY Zenon, <1>1, <1>4 DEF StoreOK, LoadOK, InSetRawValue
  <2>3. Benign => \A k \in Keys : ~Marked(k)
    BY Zenon, <1>1, <1>4 DEF StoreOK, SessionOK
  <2> QED
    BY Zenon, <1>1, <1>2, <1>3, <2>1, <2>2, <2>3, Leaving
<1>5. CASE call[t] # "clearEnd"
  <2>1. pc'[t] = "loop" /\ UNCHANGED <<rfcUpdate, call, cur, ret, todo>>
    BY Zenon, <1>1, <1>5 DEF AfterEnd, Goto, TypeInv, TypeOK
  <2>2. FilesOK(t)'
    BY Zenon, <1>1, <1>2 DEF FilesOK, SameStore
  <2>3. LoadOK(t)'
    <3>1. LoadOK(t) /\ pc[t] \notin InSetRawValue /\ pc'[t] \notin InSetRawValue
      BY Zenon, <1>1, <2>1 DEF StoreOK, InSetRawValue
    <3> QED
      BY Zenon, <1>1, <1>5, <2>1, <3>1, Points DEF LoadOK, Between
  <2>4. Populated => MadeOK(t)'
    BY Zenon, <1>1, <1>3 DEF MadeOK
  <2>5. Locked => ServedOK(t)'
    BY Zenon, <1>1, <2>1, Points DEF StoreOK, ServedOK, Source, Clearing
  <2>6. Benign => RecordedOK(t)'
    BY Zenon, <1>1, <2>1, Points DEF StoreOK, RecordedOK, Source, Clearing
  <2>7. Benign => SessionOK(t)'
    BY Zenon, <1>1, <2>1, Points DEF StoreOK, SessionOK, Source, Marked, Clearing
  <2> QED
    BY Zenon, <2>2, <2>3, <2>4, <2>5, <2>6, <2>7 DEF StoreOK
<1> QED
  BY Zenon, <1>4, <1>5

\* setRawValue returns to its caller.
LEMMA AtReturn ==
  ASSUME TypeInv, TypeInv', NEW t \in Threads, StoreOK(t), running, Return(t)
  PROVE  StoreOK(t)'
<1> USE BSAssumption DEF NoRec, NoFile
<1>1. /\ pc[t] = "return" /\ running'
      /\ UNCHANGED <<dict, journal, storeFile, journalFile, initDone, initialUpdate, rfcUpdate>>
      /\ UNCHANGED <<active, resent>>
  BY Zenon DEF Return, disk, memory
<1>2. /\ SameStore /\ SameJournal /\ Clean /\ (initialUpdate => ret[t] = "loop")
      /\ SameStore' /\ SameJournal' /\ Clean'
  BY Zenon, <1>1 DEF StoreOK, FilesOK, Appending, StoreAhead, JournalAhead, SameStore, SameJournal, Clean
<1>3. pc[t] \notin InSetRawValue
  BY Zenon, <1>1 DEF InSetRawValue
<1>4. Populated /\ storeFile = NoFile => ~initDone /\ ret[t] = "load"
  BY Zenon, <1>1 DEF StoreOK, MadeOK, Making
<1>5. ret[t] # "loop" => todo[t] = NoEntries
  BY Zenon, <1>1 DEF StoreOK, LoadOK
<1>6. CASE ret[t] = "idle"
  <2>1. Leave(t)
    BY Zenon, <1>6 DEF Return
  <2> QED
    BY Zenon, <1>1, <1>2, <1>3, <1>4, <1>5, <1>6, <2>1, Leaving
<1>7. CASE ret[t] # "idle"
  <2>1. /\ pc'[t] = IF ret[t] = "unlock+load" THEN "load" ELSE ret[t]
        /\ UNCHANGED <<call, todo>>
    BY Zenon, <1>7 DEF Return, Goto, TypeInv, TypeOK
  <2>2. /\ pc'[t] \in {"load", "loop"} /\ (pc'[t] = "loop" <=> ret[t] = "loop")
        /\ pc'[t] \notin InSetRawValue
    <3>1. ret[t] \in Returns
      BY Zenon DEF TypeInv, TypeOK
    <3> QED
      BY Zenon, <1>7, <2>1, <3>1 DEF Returns, InSetRawValue
  <2>3. FilesOK(t)'
    BY Zenon, <1>1, <1>2, <2>2 DEF FilesOK, Appending
  <2>4. LoadOK(t)'
    <3>1. LoadOK(t) /\ call[t] # "clearEnd"
      BY Zenon, <1>1 DEF StoreOK, LoadOK, Clearing
    <3>2. pc'[t] \notin JrnPoints /\ pc'[t] # "jrn.write" /\ pc'[t] # "return"
      BY Zenon, <2>2, Points
    <3>3. pc'[t] = "load" => todo'[t] = NoEntries
      BY Zenon, <1>5, <2>1, <2>2
    <3>4. "loop" \notin Between
      BY Zenon DEF Between
    <3> QED
      BY Zenon, <1>1, <2>1, <2>2, <3>1, <3>2, <3>3, <3>4 DEF LoadOK
  <2>5. Populated => MadeOK(t)'
    BY Zenon, <1>1, <1>4, <2>2 DEF MadeOK, Making
  <2>6. Locked => ServedOK(t)'
    BY Zenon, <1>1, <1>3, <2>1 DEF StoreOK, ServedOK, Source
  <2>7. Benign => RecordedOK(t)'
    BY Zenon, <1>1, <1>3, <2>1, Points DEF StoreOK, RecordedOK, Source
  <2>8. Benign => SessionOK(t)'
    BY Zenon, <1>1, <1>3, <2>1, <2>2 DEF StoreOK, SessionOK, Source, Marked
  <2> QED
    BY Zenon, <2>3, <2>4, <2>5, <2>6, <2>7, <2>8 DEF StoreOK
<1> QED
  BY Zenon, <1>6, <1>7

\* loadFromJson has applied the last default.
LEMMA AtLoaded ==
  ASSUME TypeInv, TypeInv', NEW t \in Threads, StoreOK(t), running, Loaded(t)
  PROVE  StoreOK(t)'
<1> USE BSAssumption DEF NoRec, NoFile
<1>1. /\ pc[t] = "loop" /\ running' /\ todo[t] = NoEntries /\ Leave(t) /\ ~initialUpdate'
      /\ UNCHANGED <<dict, journal, storeFile, journalFile, rfcUpdate, active, resent>>
  BY Zenon DEF Loaded, disk
<1>2. SameStore /\ SameJournal' /\ Clean'
  BY Zenon, <1>1 DEF StoreOK, FilesOK, StoreAhead, JournalAhead, SameJournal, Clean
<1>3. Populated => storeFile # NoFile
  BY Zenon, <1>1 DEF StoreOK, MadeOK, Making
<1>4. pc[t] \notin InSetRawValue
  BY Zenon, <1>1 DEF InSetRawValue
<1> QED
  BY Zenon, <1>1, <1>2, <1>3, <1>4, Leaving

\* The selected defaults give the partner id none, and are not all absent.
LEMMA DefaultsForm ==
  ASSUME TypeOK, Defaults # NoSection
  PROVE  /\ Defaults[PartnerIdKey] = None
         /\ Populated => Defaults # NoEntries
<1> USE BSAssumption DEF NoSection
<1> DEFINE p == IF ScriptPartner = Empty THEN "default_boot" ELSE ScriptPartner
<1> DEFINE g == Section(Generic[fw], p)
<1> DEFINE d == Section(Device[fw], p)
<1>0. fw \in Firmwares
  BY Zenon DEF TypeOK
<1>1. ASSUME NEW file \in {Generic[fw], Device[fw]}
      PROVE  \/ Section(file, p) = None
             \/ \E s \in DOMAIN file : Section(file, p) = file[s]
  BY Zenon DEF Section
<1>2. Defaults = IF g = NoSection THEN NoSection
                 ELSE [k \in Keys |-> IF d # NoSection /\ d[k] # None THEN d[k] ELSE g[k]]
  BY Zenon DEF Defaults
<1>3. PICK s \in DOMAIN Generic[fw] : g = Generic[fw][s]
  BY Zenon, <1>1, <1>2
<1>4. d = None \/ \E s2 \in DOMAIN Device[fw] : d = Device[fw][s2]
  BY Zenon, <1>1
<1> HIDE DEF g, d
<1>5. g # None
  BY Zenon, <1>2
<1>6. g[PartnerIdKey] = None /\ (d # None => d[PartnerIdKey] = None)
  BY <1>0, <1>3, <1>4, SMTT(30)
<1>7. Defaults[PartnerIdKey] = None
  BY Zenon, <1>2, <1>5, <1>6
<1>8. ASSUME Populated PROVE Defaults # NoEntries
  <2>1. PICK k \in Keys : g[k] # None
    BY Zenon, <1>0, <1>3, <1>8 DEF Populated
  <2>2. Defaults[k] # None
    BY Zenon, <1>2, <1>5, <2>1
  <2>3. NoEntries[k] = None
    BY Zenon DEF NoEntries
  <2> QED
    BY Zenon, <2>2, <2>3
<1> QED
  BY Zenon, <1>7, <1>8

\* loadFromJson selects the defaults and drops those that disappeared.
LEMMA AtLoad ==
  ASSUME TypeInv, TypeInv', NEW t \in Threads, StoreOK(t), running, Load(t)
  PROVE  StoreOK(t)'
<1> USE BSAssumption DEF NoRec, NoFile
<1>1. /\ pc[t] = "load" /\ running'
      /\ UNCHANGED <<storeFile, journalFile, resent>>
  BY Zenon DEF Load, disk
<1>2. SameStore /\ SameJournal /\ Clean /\ ~initialUpdate
  BY Zenon, <1>1 DEF StoreOK, FilesOK, Appending, StoreAhead, JournalAhead
<1>3. pc[t] \notin InSetRawValue /\ todo[t] = NoEntries /\ call[t] # "clearEnd"
  BY Zenon, <1>1 DEF StoreOK, LoadOK, InSetRawValue, Between, Clearing
<1>4. Populated /\ storeFile = NoFile => ~initDone
  BY Zenon, <1>1 DEF StoreOK, MadeOK
<1>5. CASE Defaults = NoSection
  <2>1. Leave(t) /\ UNCHANGED <<dict, journal, initDone, initialUpdate, rfcUpdate, active>>
    BY Zenon, <1>5 DEF Load, memory
  <2>2. SameJournal' /\ Clean'
    BY Zenon, <1>1, <1>2, <2>1 DEF SameJournal, Clean
  <2> QED
    BY Zenon, <1>1, <1>2, <1>3, <1>4, <2>1, <2>2, Leaving
<1>6. CASE Defaults # NoSection
  <2> DEFINE gone == Obsolete(Defaults)
  <2>1. /\ initialUpdate' = (initialUpdate \/ storeFile = NoFile)
        /\ dict' = [k \in Keys |-> IF k \in gone THEN None ELSE dict[k]]
        /\ journal' = [k \in Keys |-> IF k \in gone THEN NoRec ELSE journal[k]]
        /\ active' = Defaults
        /\ todo' = [todo EXCEPT ![t] = Defaults]
        /\ pc' = [pc EXCEPT ![t] = IF gone = {} THEN "loop" ELSE "rm.open"]
        /\ UNCHANGED <<initDone, rfcUpdate, call, cur, ret>>
    BY Zenon, <1>6 DEF Load, Goto
  <2>2. /\ pc'[t] = (IF gone = {} THEN "loop" ELSE "rm.open") /\ todo'[t] = Defaults
        /\ active' = Defaults
    BY Zenon, <2>1 DEF TypeInv, TypeOK
  <2>3. \A k \in gone : Source(k) = "default"
    BY Zenon DEF Obsolete
  <2>4. storeFile = NoFile => gone = {}
    <3>1. storeFile = NoFile => dict = NoEntries
      BY Zenon, <1>2 DEF SameStore, TypeInv, TypeOK
    <3> QED
      BY Zenon, <3>1 DEF Obsolete, NoEntries
  <2> HIDE DEF gone
  <2>5. \A k \in Keys : /\ k \in gone => journal'[k] = None
                        /\ k \notin gone => journal'[k] = journal[k] /\ dict'[k] = dict[k]
    BY Zenon, <2>1
  <2>6. gone = {} => dict' = dict /\ journal' = journal
    BY Zenon, <2>1 DEF TypeInv, TypeOK, Dict, Journal
  <2>7. /\ pc'[t] \notin InSetRawValue /\ pc'[t] \notin JrnPoints /\ pc'[t] \notin Between
        /\ pc'[t] \notin {"return", "jrn.write", "end.open", "end.write"}
    BY Zenon, <2>2, Points DEF InSetRawValue, Between
  <2>8. FilesOK(t)'
    <3>1. CASE gone = {}
      BY Zenon, <1>1, <1>2, <2>2, <2>6, <3>1 DEF FilesOK, SameStore, SameJournal, Clean, Appending
    <3>2. CASE gone # {}
      BY Zenon, <1>1, <1>2, <2>1, <2>2, <2>4, <3>2
         DEF FilesOK, StoreAhead, JournalAhead, Clean
    <3> QED
      BY Zenon, <3>1, <3>2
  <2>9. LoadOK(t)'
    BY <1>1, <1>3, <1>6, <2>1, <2>2, <2>7, DefaultsForm, SMTT(30) DEF LoadOK, TypeInv
  <2>10. Populated => MadeOK(t)'
    BY Zenon, <1>1, <1>4, <1>6, <2>1, <2>2, <2>4, DefaultsForm DEF MadeOK, Making, TypeInv
  <2>11. ServedOK(t)'
    BY Zenon, <2>2 DEF ServedOK
  <2>12. Benign => RecordedOK(t)'
    BY ZenonT(40), <1>1, <1>3, <2>2, <2>3, <2>5, Points DEF StoreOK, RecordedOK, Source
  <2>13. Benign => SessionOK(t)'
    BY Zenon, <1>1, <1>3, <2>1, <2>3, <2>5, <2>7 DEF StoreOK, SessionOK, Source, Marked
  <2> QED
    BY Zenon, <2>8, <2>9, <2>10, <2>11, <2>12, <2>13 DEF StoreOK
<1> QED
  BY Zenon, <1>5, <1>6

\* setRawValue has put the value into the cache and into bootstrap.ini.
LEMMA AtStored ==
  ASSUME TypeInv, TypeInv', NEW t \in Threads, StoreOK(t), running,
         pc[t] \in {"append", "set.write"}, pc'[t] = "jrn.open", running',
         dict' = SetDict(t), SameStore', storeFile' # NoFile,
         UNCHANGED <<journal, journalFile, initDone, initialUpdate, rfcUpdate>>,
         UNCHANGED <<call, cur, ret, todo, active, resent>>
  PROVE  StoreOK(t)'
<1> USE BSAssumption DEF NoRec, NoFile
<1>1. /\ pc[t] \in InSetRawValue /\ pc'[t] \in InSetRawValue /\ pc'[t] \in JrnPoints
      /\ cur[t] \in Call /\ cur[t].key \in Keys
  BY Zenon DEF InSetRawValue, JrnPoints, TypeInv, CallKnown, Call
<1>2. dict'[cur[t].key] = cur[t].val /\ \A k \in Keys : k # cur[t].key => dict'[k] = dict[k]
  <2>1. DOMAIN dict = Keys
    BY Zenon DEF TypeInv, TypeOK, Dict
  <2> QED
    BY Zenon, <1>1, <2>1 DEF SetDict
<1>3. FilesOK(t)'
  <2>1. /\ SameJournal /\ Clean /\ (initialUpdate => ret[t] = "loop")
        /\ SameJournal' /\ Clean'
    BY Zenon DEF StoreOK, FilesOK, JournalAhead, Appending, SameJournal, Clean
  <2> QED
    BY Zenon, <2>1 DEF FilesOK, Appending
<1>4. LoadOK(t)'
  <2>1. LoadOK(t) /\ pc'[t] \notin Between /\ pc'[t] # "jrn.write" /\ call[t] # "clearEnd"
    BY Zenon, <1>1, Points DEF StoreOK, LoadOK
  <2> QED
    BY Zenon, <1>1, <1>2, <2>1 DEF LoadOK
<1>5. MadeOK(t)'
  BY Zenon DEF MadeOK
<1>6. Locked => ServedOK(t)'
  BY Zenon, <1>1, <1>2 DEF StoreOK, ServedOK, Source
<1>7. Benign => RecordedOK(t)'
  BY ZenonT(40), <1>1, <1>2, Points DEF StoreOK, RecordedOK, Source
<1>8. Benign => SessionOK(t)'
  BY Zenon, <1>1, Points DEF StoreOK, SessionOK, Source, Marked, Clearing
<1> QED
  BY Zenon, <1>3, <1>4, <1>5, <1>6, <1>7, <1>8 DEF StoreOK

LEMMA AtSetWrite ==
  ASSUME TypeInv, TypeInv', NEW t \in Threads, StoreOK(t), running, SetWrite(t)
  PROVE  StoreOK(t)'
<1>1. /\ pc[t] = "set.write" /\ pc'[t] = "jrn.open" /\ running'
      /\ dict' = SetDict(t) /\ storeFile' = dict'
      /\ UNCHANGED <<journal, journalFile, initDone, initialUpdate, rfcUpdate>>
      /\ UNCHANGED <<call, cur, ret, todo, active, resent>>
  BY Zenon DEF SetWrite, Goto, TypeInv, TypeOK
<1>2. SameStore' /\ storeFile' # NoFile
  BY Zenon, <1>1, BSAssumption DEF SameStore, NoFile, TypeInv, TypeOK
<1> QED
  BY Zenon, <1>1, <1>2, AtStored

LEMMA AtAppend ==
  ASSUME TypeInv, TypeInv', NEW t \in Threads, StoreOK(t), running, Append(t)
  PROVE  StoreOK(t)'
<1> USE BSAssumption DEF NoFile
<1>1. /\ pc[t] = "append" /\ pc'[t] = "jrn.open" /\ running'
      /\ dict' = SetDict(t)
      /\ UNCHANGED <<journal, journalFile, initDone, initialUpdate, rfcUpdate>>
      /\ UNCHANGED <<call, cur, ret, todo, active, resent>>
      /\ storeFile' = [IF storeFile = NoFile THEN NoEntries ELSE storeFile
                         EXCEPT ![cur[t].key] = cur[t].val]
  BY Zenon DEF Append, Goto, SetDict, TypeInv, TypeOK
<1>2. SameStore
  BY Zenon, <1>1 DEF StoreOK, FilesOK, StoreAhead
<1>3. (IF storeFile = NoFile THEN NoEntries ELSE storeFile) = dict
  BY Zenon, <1>2 DEF SameStore, TypeInv, TypeOK
<1>4. storeFile' = dict' /\ storeFile' # NoFile
  BY Zenon, <1>1, <1>3 DEF SetDict, TypeInv, TypeOK
<1> QED
  BY Zenon, <1>1, <1>4, AtStored DEF SameStore

\* What setJournalValue makes of a record.
LEMMA JournaledFields ==
  ASSUME TypeInv, NEW k \in Keys, NEW v \in Values, NEW s \in Sources
  PROVE  /\ Journaled(k, v, s) \in Rec
         /\ s = "default" => Journaled(k, v, s).fw = v
         /\ s = "default" /\ journal[k] = NoRec =>
              Journaled(k, v, s).src = "default" /\ ~Journaled(k, v, s).clear
         /\ s = "default" /\ journal[k] # NoRec =>
              /\ Journaled(k, v, s).src = journal[k].src
              /\ Journaled(k, v, s).clear = journal[k].clear
         /\ s # "default" => Journaled(k, v, s).src = s /\ ~Journaled(k, v, s).clear
         /\ s # "default" /\ journal[k] # NoRec => Journaled(k, v, s).fw = journal[k].fw
<1> USE DEF NoRec
<1>1. journal[k] \in Rec \cup {None}
  BY Zenon DEF TypeInv, TypeOK, Journal
<1>2. Journaled(k, v, s) \in Rec
  BY Zenon, JournalTypes DEF TypeInv
<1>3. CASE journal[k] = None
  BY Zenon, <1>2, <1>3 DEF Journaled
<1>4. CASE journal[k] # None
  BY Zenon, <1>1, <1>2, <1>4 DEF Journaled, Rec
<1> QED
  BY Zenon, <1>2, <1>3, <1>4

\* setJournalValue has put the record into the cache and into the journal file.
LEMMA AtJournaled ==
  ASSUME TypeInv, TypeInv', NEW t \in Threads, StoreOK(t), running,
         pc[t] \in JrnPoints, pc'[t] = "return", running',
         journal' = [journal EXCEPT ![cur[t].key] = Journaled(cur[t].key, cur[t].val, cur[t].src)],
         SameJournal', Clean',
         UNCHANGED <<dict, storeFile, initDone, initialUpdate, rfcUpdate>>,
         UNCHANGED <<call, ret, todo, active, resent>>
  PROVE  StoreOK(t)'
<1> USE BSAssumption DEF NoRec, NoFile
<1> DEFINE k == cur[t].key
<1> DEFINE s == cur[t].src
<1> DEFINE r == Journaled(cur[t].key, cur[t].val, cur[t].src)
<1>1. /\ pc[t] \in InSetRawValue /\ pc'[t] \notin InSetRawValue /\ pc'[t] \notin JrnPoints
      /\ k \in Keys /\ cur[t].val \in Values /\ s \in Sources
  BY Zenon, Points DEF InSetRawValue, JrnPoints, TypeInv, CallKnown, Call
<1>2. journal'[k] = r /\ \A i \in Keys : i # k => journal'[i] = journal[i]
  <2>1. DOMAIN journal = Keys
    BY Zenon DEF TypeInv, TypeOK, Journal
  <2> HIDE DEF r
  <2> QED
    BY Zenon, <1>1, <2>1 DEF r
<1>3. /\ r \in Rec
      /\ s = "default" => r.fw = cur[t].val
      /\ s = "default" /\ journal[k] = None => r.src = "default" /\ ~r.clear
      /\ s = "default" /\ journal[k] # None =>
           r.src = journal[k].src /\ r.clear = journal[k].clear
      /\ s # "default" => r.src = s /\ ~r.clear
      /\ s # "default" /\ journal[k] # None => r.fw = journal[k].fw
  BY <1>1, JournaledFields, SMTT(30)
<1>4. r # None
  BY Zenon, <1>3
<1>l. LoadOK(t)
  BY Zenon DEF StoreOK
<1>5. /\ s = "default" => active[k] \in {None, cur[t].val}
      /\ ret[t] = "loop" => s = "default"
      /\ s = "iarm" => k = PartnerIdKey /\ "setPartner" \in Ops
      /\ s = "default" => dict[k] = cur[t].val \/ Source(k) \in Overrides
      /\ ret[t] # "loop" => todo[t] = NoEntries
      /\ call[t] # "clearEnd"
  BY Zenon, <1>1, <1>l, Points DEF LoadOK
<1> HIDE DEF r
<1>6. \A i \in Keys : /\ i # k => Source(i)' = Source(i)
                      /\ i = k => Source(i)' = r.src
  BY <1>2, <1>4, SMTT(30) DEF Source
<1>7. FilesOK(t)'
  <2>1. SameStore /\ (initialUpdate => ret[t] = "loop")
    BY Zenon DEF StoreOK, FilesOK, StoreAhead, JrnPoints, Appending
  <2> QED
    BY Zenon, <2>1 DEF FilesOK, Appending, SameStore
<1>8. LoadOK(t)'
  <2>1. pc'[t] \notin Between /\ pc'[t] # "jrn.write" /\ pc'[t] \notin {"clr.open", "clr.write"}
    BY Zenon DEF Between
  <2> QED
    BY Zenon, <1>1, <1>5, <1>l, <2>1 DEF LoadOK
<1>9. Populated => MadeOK(t)'
  BY Zenon DEF StoreOK, MadeOK, Making, JrnPoints
<1>10. Locked => ServedOK(t)'
  <2>1. SUFFICES ASSUME Locked, NEW i \in Keys \ {PartnerIdKey}, active[i] # None,
                        Source(i)' \notin Overrides
                 PROVE  dict[i] = active[i] \/ todo[t][i] # None
    BY Zenon DEF ServedOK
  <2>2. CASE i # k
    BY Zenon, <1>6, <2>1, <2>2 DEF StoreOK, ServedOK
  <2>3. CASE i = k
    <3>1. s \in {"default", "iarm"}
      BY Zenon, <1>1, <1>3, <1>6, <2>1, <2>3 DEF Sources, Overrides
    <3>2. s = "default"
      BY Zenon, <1>5, <2>1, <3>1 DEF Locked
    <3>3. Source(k) \in Overrides => r.src \in Overrides
      BY Zenon, <1>3, <3>2 DEF Source, Overrides
    <3> QED
      BY Zenon, <1>5, <1>6, <2>1, <2>3, <3>2, <3>3
  <2> QED
    BY Zenon, <2>2, <2>3
<1>11. Benign => RecordedOK(t)'
  <2>1. SUFFICES ASSUME Benign PROVE RecordedOK(t)'
    BY Zenon
  <2>r. RecordedOK(t)
    BY Zenon, <2>1 DEF StoreOK
  <2>2. ASSUME NEW i \in Keys, active[i] # None
        PROVE  (journal'[i] # NoRec /\ journal'[i].fw = active[i]) \/ todo[t][i] # None
    <3>1. CASE i # k
      BY Zenon, <1>2, <2>2, <2>r, <3>1 DEF RecordedOK
    <3>2. CASE i = k /\ s = "default"
      BY Zenon, <1>2, <1>3, <1>4, <1>5, <2>2, <3>2
    <3>3. CASE i = k /\ s # "default"
      <4>1. NoEntries[i] = None
        BY Zenon DEF NoEntries
      <4>2. todo[t][i] = None
        BY Zenon, <1>5, <3>3, <4>1
      <4>3. journal[i] # None /\ journal[i].fw = active[i]
        BY Zenon, <2>2, <2>r, <3>3, <4>2 DEF RecordedOK
      <4> QED
        BY Zenon, <1>2, <1>3, <1>4, <3>3, <4>3
    <3> QED
      BY Zenon, <3>1, <3>2, <3>3
  <2>3. ASSUME NEW i \in Keys \ {PartnerIdKey}
        PROVE  /\ Source(i)' # "iarm"
               /\ Source(i)' = "default" => dict[i] = journal'[i].fw
    <3>1. CASE i # k
      BY Zenon, <1>2, <1>6, <2>r, <3>1 DEF RecordedOK
    <3>2. CASE i = k /\ s = "default"
      <4>1. Source(k) = "none" \/ (journal[k] # None /\ Source(k) = r.src)
        BY Zenon, <1>3, <3>2 DEF Source
      <4>2. Source(i)' = "default" => dict[i] = cur[t].val
        BY Zenon, <1>5, <1>6, <3>2, <4>1 DEF Overrides
      <4>3. Source(i)' # "iarm"
        <5>1. Source(i) # "iarm"
          BY Zenon, <2>r DEF RecordedOK
        <5>2. Source(i)' = r.src
          BY Zenon, <1>6, <3>2
        <5> QED
          BY Zenon, <1>3, <3>2, <4>1, <5>1, <5>2 DEF Source
      <4> QED
        BY Zenon, <1>2, <1>3, <3>2, <4>2, <4>3
    <3>3. CASE i = k /\ s # "default"
      BY Zenon, <1>3, <1>5, <1>6, <3>3
    <3> QED
      BY Zenon, <3>1, <3>2, <3>3
  <2> QED
    BY Zenon, <2>2, <2>3 DEF RecordedOK
<1>12. Benign => SessionOK(t)'
  <2>1. SUFFICES ASSUME Benign PROVE SessionOK(t)'
    BY Zenon
  <2>r. SessionOK(t)
    BY Zenon, <2>1 DEF StoreOK
  <2>2. \A i \in Keys : /\ i # k => (Marked(i)' <=> Marked(i))
                        /\ i = k => (Marked(i)' <=> r.clear)
    BY Zenon, <1>2, <1>4 DEF Marked
  <2>3. s = "default" => (r.clear <=> Marked(k)) /\ (r.src = "rfc" <=> Source(k) = "rfc")
    BY Zenon, <1>3 DEF Marked, Source
  <2>4. \A i \in Keys : Marked(i)' => rfcUpdate /\ Source(i)' = "rfc"
    BY Zenon, <1>1, <1>3, <1>6, <2>2, <2>3, <2>r DEF SessionOK
  <2>5. ASSUME rfcUpdate, NEW i \in Keys
        PROVE  Source(i)' = "rfc" /\ ~Marked(i)' <=> i \in resent
    <3>1. \/ Source(i) = "rfc" /\ ~Marked(i) <=> i \in resent
          \/ k = i /\ s # "default"
      BY Zenon, <2>5, <2>r DEF SessionOK
    <3>2. s # "default" => (k \in resent <=> s = "rfc")
      BY Zenon, <1>1, <2>5, <2>r DEF SessionOK
    <3> QED
      BY Zenon, <1>3, <1>6, <2>2, <2>3, <3>1, <3>2
  <2> QED
    BY Zenon, <1>1, <2>4, <2>5 DEF SessionOK
<1> QED
  BY Zenon, <1>7, <1>8, <1>9, <1>10, <1>11, <1>12 DEF StoreOK

LEMMA AtJrnWrite ==
  ASSUME TypeInv, TypeInv', NEW t \in Threads, StoreOK(t), running, JrnWrite(t)
  PROVE  StoreOK(t)'
<1>1. /\ pc[t] = "jrn.write" /\ pc'[t] = "return" /\ running'
      /\ journal' = [journal EXCEPT ![cur[t].key] = cur[t].rec]
      /\ journalFile' = PersistedAll(journal')
      /\ UNCHANGED <<dict, storeFile, initDone, initialUpdate, rfcUpdate>>
      /\ UNCHANGED <<call, ret, todo, active, resent>>
  BY Zenon DEF JrnWrite, SetJournal, Goto, TypeInv, TypeOK
<1>2. cur[t].rec = Journaled(cur[t].key, cur[t].val, cur[t].src)
  BY Zenon, <1>1 DEF StoreOK, LoadOK
<1>3. SameJournal' /\ Clean'
  BY Zenon, <1>1, PersistedTwice DEF SameJournal, Clean, TypeInv, TypeOK
<1>4. pc[t] \in JrnPoints
  BY Zenon, <1>1 DEF JrnPoints
<1> QED
  BY Zenon, <1>1, <1>2, <1>3, <1>4, AtJournaled

\* setJournalValue appends the record during the initial update; otherwise
\* it computes the record and truncates the file.
LEMMA AtJrnOpen ==
  ASSUME TypeInv, TypeInv', NEW t \in Threads, StoreOK(t), running, JrnOpen(t)
  PROVE  StoreOK(t)'
<1> USE BSAssumption DEF NoRec, NoFile
<1> DEFINE k == cur[t].key
<1> DEFINE r == Journaled(cur[t].key, cur[t].val, cur[t].src)
<1>1. /\ pc[t] = "jrn.open" /\ running' /\ pc[t] \in JrnPoints /\ pc[t] \in InSetRawValue
      /\ UNCHANGED <<dict, storeFile, initDone, initialUpdate, rfcUpdate>>
      /\ UNCHANGED <<call, ret, todo, active, resent>>
  BY Zenon DEF JrnOpen, JrnPoints, InSetRawValue
<1>2. k \in Keys /\ cur[t] \in Call /\ cur[t].val \in Values /\ cur[t].src \in Sources
  BY Zenon, <1>1 DEF TypeInv, CallKnown, Call
<1>3. SameStore /\ SameJournal /\ Clean
  BY Zenon, <1>1 DEF StoreOK, FilesOK, StoreAhead, JournalAhead
<1>4. CASE initialUpdate
  <2>1. /\ journal' = [journal EXCEPT ![k] = r]
        /\ journalFile' = [journalFile EXCEPT ![k] = Persisted(r)]
        /\ pc'[t] = "return"
    BY Zenon, <1>4 DEF JrnOpen, Goto, TypeInv, TypeOK
  <2> HIDE DEF r
  <2>2. journal \in Journal /\ journal' \in Journal
    BY Zenon DEF TypeInv, TypeOK
  <2>3. journalFile' = PersistedAll(journal')
    BY Zenon, <1>2, <1>3, <2>1, <2>2 DEF SameJournal, PersistedAll, Journal
  <2>4. SameJournal' /\ Clean'
    BY Zenon, <2>2, <2>3, PersistedTwice DEF SameJournal, Clean
  <2>5. journal' = [journal EXCEPT ![cur[t].key] = Journaled(cur[t].key, cur[t].val, cur[t].src)]
    BY Zenon, <2>1 DEF r
  <2> QED
    BY Zenon, <1>1, <2>1, <2>4, <2>5, AtJournaled
<1>5. CASE ~initialUpdate
  <2>1. /\ journal' = journal /\ journalFile' = NoRecords
        /\ cur' = [cur EXCEPT ![t].rec = r]
        /\ pc'[t] = "jrn.write"
    BY Zenon, <1>5 DEF JrnOpen, Goto, TypeInv, TypeOK
  <2>2. /\ cur'[t].key = k /\ cur'[t].val = cur[t].val /\ cur'[t].src = cur[t].src
        /\ cur'[t].rec = r
    BY Zenon, <1>2, <2>1 DEF Call, TypeInv, TypeOK
  <2>3. Journaled(cur[t].key, cur[t].val, cur[t].src)' = r
    BY <2>1, <2>2, SMTT(30) DEF Journaled
  <2> HIDE DEF r
  <2>4. pc'[t] \in InSetRawValue /\ pc'[t] \in JrnPoints /\ pc'[t] \notin Between
        /\ pc'[t] \notin {"clr.open", "clr.write", "end.open", "end.write"}
    BY Zenon, <2>1 DEF InSetRawValue, JrnPoints, Between
  <2>5. Source(cur[t].key)' = Source(cur[t].key) /\ \A i \in Keys : Source(i)' = Source(i)
    BY <2>1, <2>2, SMTT(30) DEF Source
  <2>6. FilesOK(t)'
    BY Zenon, <1>1, <1>3, <1>5, <2>1, PersistedTwice
       DEF FilesOK, JournalAhead, SameStore, Clean, TypeInv, TypeOK
  <2>7. LoadOK(t)'
    <3>1. LoadOK(t) /\ call[t] # "clearEnd"
      BY Zenon, <1>1, Points DEF StoreOK, LoadOK
    <3> QED
      BY Zenon, <1>1, <2>1, <2>2, <2>3, <2>4, <2>5, <3>1 DEF LoadOK
  <2>8. Populated => MadeOK(t)'
    BY Zenon, <1>1, <2>1 DEF StoreOK, MadeOK, Making
  <2>9. Locked => ServedOK(t)'
    BY Zenon, <1>1, <2>2, <2>4, <2>5 DEF StoreOK, ServedOK
  <2>10. Benign => RecordedOK(t)'
    BY ZenonT(40), <1>1, <2>1, <2>2, <2>4, <2>5 DEF StoreOK, RecordedOK
  <2>11. Benign => SessionOK(t)'
    <3>1. \A i \in Keys : Marked(i)' <=> Marked(i)
      BY Zenon, <2>1 DEF Marked
    <3> QED
      BY Zenon, <1>1, <2>2, <2>4, <2>5, <3>1 DEF StoreOK, SessionOK
  <2> QED
    BY Zenon, <2>6, <2>7, <2>8, <2>9, <2>10, <2>11 DEF StoreOK
<1> QED
  BY Zenon, <1>4, <1>5

\* clearRfcValues takes every marked key back to its firmware value.
LEMMA AtClrWrite ==
  ASSUME TypeInv, TypeInv', LockInv, Benign => OverrideInv, NEW t \in Threads, Sole(t),
         StoreOK(t), running, ClrWrite(t)
  PROVE  StoreOK(t)'
<1> USE BSAssumption DEF NoRec, NoFile
<1>1. /\ pc[t] = "clr.write" /\ pc'[t] = "end.open" /\ running'
      /\ dict' = ClearedDict /\ journal' = ClearedJournal /\ storeFile' = dict'
      /\ UNCHANGED <<journalFile, initDone, initialUpdate, rfcUpdate>>
      /\ UNCHANGED <<call, cur, ret, todo, active, resent>>
  BY Zenon DEF ClrWrite, Goto, TypeInv, TypeOK
<1>2. ~initialUpdate /\ Clean
  BY Zenon, <1>1 DEF StoreOK, FilesOK, Appending
<1>3. call[t] = "clearEnd" /\ ~Locked
  BY Zenon, <1>1 DEF StoreOK, LoadOK, LockInv
<1>4. pc[t] \notin InSetRawValue /\ pc'[t] \notin InSetRawValue
  BY Zenon, <1>1 DEF InSetRawValue
<1>5. FilesOK(t)'
  BY Zenon, <1>1, <1>2 DEF FilesOK, JournalAhead, SameStore, Clean
<1>6. LoadOK(t)'
  <2>1. LoadOK(t)
    BY Zenon DEF StoreOK
  <2> QED
    BY Zenon, <1>1, <1>3, <1>4, <2>1, Points DEF LoadOK, Between, Clearing
<1>7. MadeOK(t)'
  BY Zenon, <1>1 DEF MadeOK, TypeInv, TypeOK
<1>8. ASSUME NEW k \in Keys
      PROVE  /\ dict[k] # None /\ Marked(k) =>
                  /\ journal'[k] # None /\ Source(k)' = "default" /\ ~Marked(k)'
                  /\ journal'[k].fw = journal[k].fw /\ dict'[k] = journal[k].fw
                  /\ journal[k] # None
             /\ ~(dict[k] # None /\ Marked(k)) =>
                  journal'[k] = journal[k] /\ dict'[k] = dict[k]
  <2>1. CASE dict[k] # None /\ Marked(k)
    <3>1. journal[k] \in Rec
      BY Zenon, <2>1 DEF Marked, TypeInv, TypeOK, Journal
    <3>2. /\ journal'[k] = [journal[k] EXCEPT !.upd = Dash, !.src = "default", !.clear = FALSE]
          /\ dict'[k] = journal[k].fw
      BY Zenon, <1>1, <2>1 DEF ClearedJournal, ClearedDict
    <3>3. journal'[k] \in Rec
      BY Zenon, <3>1, <3>2 DEF Rec, Stored, Sources
    <3>4. /\ journal'[k].src = "default" /\ ~journal'[k].clear
          /\ journal'[k].fw = journal[k].fw
      BY Zenon, <3>1, <3>2 DEF Rec
    <3> QED
      BY Zenon, <2>1, <3>1, <3>2, <3>3, <3>4 DEF Source, Marked
  <2>2. CASE ~(dict[k] # None /\ Marked(k))
    BY Zenon, <1>1, <2>2 DEF ClearedJournal, ClearedDict
  <2> QED
    BY Zenon, <2>1, <2>2
<1>9. Benign => RecordedOK(t)'
  <2>1. SUFFICES ASSUME Benign PROVE RecordedOK(t)'
    BY Zenon
  <2>2. RecordedOK(t)
    BY Zenon, <2>1 DEF StoreOK
  <2>3. ASSUME NEW k \in Keys, active'[k] # None
        PROVE  (journal'[k] # None /\ journal'[k].fw = active'[k]) \/ todo'[t][k] # None
    <3>1. (journal[k] # None /\ journal[k].fw = active[k]) \/ todo[t][k] # None
      BY Zenon, <1>1, <1>4, <2>2, <2>3 DEF RecordedOK
    <3> QED
      BY Zenon, <1>1, <1>8, <3>1
  <2>4. ASSUME NEW k \in Keys \ {PartnerIdKey}
        PROVE  Source(k)' # "iarm" /\ (Source(k)' = "default" => dict'[k] = journal'[k].fw)
    <3>1. CASE dict[k] # None /\ Marked(k)
      BY Zenon, <1>8, <3>1
    <3>2. CASE ~(dict[k] # None /\ Marked(k))
      <4>1. journal'[k] = journal[k] /\ dict'[k] = dict[k] /\ Source(k)' = Source(k)
        BY Zenon, <1>8, <3>2 DEF Source
      <4>2. Source(k) # "iarm" /\ (Source(k) = "default" => dict[k] = journal[k].fw)
        BY Zenon, <1>1, <1>4, <2>2, Points DEF RecordedOK
      <4> QED
        BY Zenon, <4>1, <4>2
    <3> QED
      BY Zenon, <3>1, <3>2
  <2> QED
    BY Zenon, <1>1, <2>3, <2>4 DEF RecordedOK
<1>10. Benign => SessionOK(t)'
  <2>1. SUFFICES ASSUME Benign PROVE SessionOK(t)'
    BY Zenon
  <2>2. SessionOK(t)
    BY Zenon, <2>1 DEF StoreOK
  <2>3. ASSUME NEW k \in Keys, Marked(k) PROVE dict[k] # None
    <3>1. Mem(k)
      BY Zenon, <1>1, <2>1, Alone DEF Sole, JrnPoints
    <3>2. Source(k) = "rfc" /\ journal[k] \in Rec
      BY Zenon, <2>2, <2>3 DEF SessionOK, Marked, TypeInv, TypeOK, Journal
    <3> QED
      BY Zenon, <3>1, <3>2 DEF Mem, Overrides, Rec, Stored
  <2>4. \A k \in Keys : ~Marked(k)'
    BY Zenon, <1>8, <2>3 DEF Marked
  <2>5. \A k \in Keys : Source(k)' = "rfc" <=> Source(k) = "rfc" /\ ~Marked(k)
    BY Zenon, <1>8, <2>3 DEF Source
  <2> QED
    BY Zenon, <1>1, <1>4, <2>2, <2>4, <2>5 DEF SessionOK
<1> QED
  BY Zenon, <1>3, <1>5, <1>6, <1>7, <1>9, <1>10 DEF StoreOK
-----------------------------------------------------------------------------
(* The calls.                                                              *)

\* The record a differs from b in its mark at most.
SameBut(a, b) ==
  (a = NoRec <=> b = NoRec) /\ (a # NoRec => a.src = b.src /\ a.fw = b.fw)

\* Entering setRawValue.
LEMMA Entered ==
  ASSUME TypeInv, TypeInv', NEW t \in Threads, StoreOK(t), running, running',
         NEW k \in Keys, NEW v \in Values, NEW s \in Sources, NEW r \in Returns,
         pc[t] \in {"idle", "loop"}, SetRawValue(t, k, v, s, journal', r),
         UNCHANGED <<dict, storeFile, journalFile, initDone, initialUpdate, active>>,
         SameJournal', \A i \in Keys : SameBut(journal'[i], journal[i]),
         pc[t] = "loop" <=> r = "loop", r = "loop" => s = "default",
         Populated /\ storeFile = NoFile => r \in {"loop", "load"},
         s = "default" => active[k] \in {None, v},
         s = "iarm" => k = PartnerIdKey /\ "setPartner" \in Ops,
         call'[t] # "clearEnd",
         r # "loop" => todo'[t] = NoEntries,
         \A i \in Keys : todo'[t][i] = IF r = "loop" /\ i = k THEN None ELSE todo[t][i],
         Benign => SessionOK(t)'
  PROVE  StoreOK(t)'
<1> USE BSAssumption DEF NoRec, NoFile
<1> DEFINE l == Decision(k, v, s, journal')
<1>1. /\ pc'[t] = l /\ ret'[t] = r
      /\ cur'[t] = [key |-> k, val |-> v, src |-> s, rec |-> None]
  BY ZenonT(30) DEF SetRawValue, Goto, TypeInv, TypeOK
<1>2. cur'[t].key = k /\ cur'[t].val = v /\ cur'[t].src = s
  BY ONLY <1>1, SMTT(30)
<1>3. \A i \in Keys : Source(i)' = Source(i) /\ (journal'[i] # None => journal'[i].fw = journal[i].fw)
                      /\ (journal'[i] = None <=> journal[i] = None)
  BY Zenon DEF SameBut, Source
<1>4. /\ l \in {"append", "jrn.open", "return", "set.open"}
      /\ initialUpdate <=> l = "append"
      /\ l = "return" => dict[k] = v /\ Source(k)' = s
      /\ l = "jrn.open" /\ s = "default" => dict[k] = v \/ Source(k)' \in Overrides
  BY Zenon DEF Decision, Source, Overrides
<1> HIDE DEF l
<1>5. /\ l # "return" => l \in InSetRawValue
      /\ "return" \notin InSetRawValue
      /\ pc[t] \notin InSetRawValue
      /\ l \notin Between /\ l \notin StoreAhead /\ l \notin JournalAhead
      /\ l \in JrnPoints => l = "jrn.open"
      /\ l \notin {"clr.open", "clr.write", "jrn.write"}
  BY Zenon, <1>4 DEF InSetRawValue, Between, JrnPoints, StoreAhead, JournalAhead
<1>6. pc[t] = "idle" => ~initialUpdate /\ todo[t] = NoEntries
  BY Zenon DEF StoreOK, FilesOK, Appending, LoadOK, Between
<1>7. FilesOK(t)'
  <2>1. SameStore /\ Clean
    BY Zenon DEF StoreOK, FilesOK, StoreAhead
  <2>2. initialUpdate => Appending(t)'
    BY Zenon, <1>1, <1>4, <1>6 DEF Appending
  <2> QED
    BY Zenon, <2>1, <2>2 DEF FilesOK, SameStore, Clean
<1>8. LoadOK(t)'
  <2>1. LoadOK(t)
    BY Zenon DEF StoreOK
  <2>2. Source(cur[t].key)' = Source(k)'
    BY Zenon, <1>2 DEF Source
  <2> QED
    BY Zenon, <1>1, <1>2, <1>4, <1>5, <2>1, <2>2 DEF LoadOK
<1>9. Populated => MadeOK(t)'
  <2>1. Populated => MadeOK(t)
    BY Zenon DEF StoreOK
  <2>2. pc[t] = "loop" /\ Populated /\ storeFile = NoFile => l = "append"
    BY Zenon, <1>4, <2>1 DEF MadeOK, Making
  <2>3. pc[t] = "idle" => l # "append"
    BY Zenon, <1>4, <1>6
  <2> QED
    BY Zenon, <1>1, <1>4, <2>1, <2>2, <2>3 DEF MadeOK, Making
<1>10. Locked => ServedOK(t)'
  <2>1. SUFFICES ASSUME Locked, NEW i \in Keys \ {PartnerIdKey}, active[i] # None,
                        Source(i)' \notin Overrides
                 PROVE  \/ dict[i] = active[i] \/ todo'[t][i] # None
                        \/ pc'[t] \in InSetRawValue /\ cur'[t].key = i
    BY Zenon DEF ServedOK
  <2>2. CASE i # k
    <3>1. Source(i) \notin Overrides
      BY Zenon, <1>3, <2>1
    <3>2. dict[i] = active[i] \/ todo[t][i] # None
      BY Zenon, <1>5, <2>1, <3>1 DEF StoreOK, ServedOK
    <3>3. todo'[t][i] = todo[t][i]
      BY Zenon, <2>1, <2>2
    <3> QED
      BY Zenon, <3>2, <3>3
  <2>3. CASE i = k /\ l = "return"
    <3>1. s \notin {"rfc", "webpa", "iarm"}
      BY Zenon, <1>4, <2>1, <2>3 DEF Overrides
    <3> QED
      BY Zenon, <1>4, <2>1, <2>3, <3>1 DEF Sources
  <2> QED
    BY Zenon, <1>1, <1>2, <1>5, <2>2, <2>3
<1>11. Benign => RecordedOK(t)'
  <2>1. SUFFICES ASSUME Benign PROVE RecordedOK(t)'
    BY Zenon
  <2>r. RecordedOK(t)
    BY Zenon, <2>1 DEF StoreOK
  <2>2. ASSUME NEW i \in Keys, active[i] # None
        PROVE  \/ journal'[i] # NoRec /\ journal'[i].fw = active[i]
               \/ todo'[t][i] # None
               \/ pc'[t] \in InSetRawValue /\ cur'[t].key = i /\ cur'[t].src = "default"
    <3>1. CASE i # k
      BY Zenon, <1>3, <1>5, <2>2, <2>r, <3>1 DEF RecordedOK
    <3>2. CASE i = k /\ s = "default"
      <4>1. CASE l = "return"
        <5>1. i # PartnerIdKey
          BY Zenon, <2>2 DEF StoreOK, LoadOK
        <5>2. Source(i) = "default" /\ dict[i] = active[i]
          BY Zenon, <1>3, <1>4, <2>2, <3>2, <4>1
        <5>3. dict[i] = journal[i].fw
          BY Zenon, <1>5, <2>r, <5>1, <5>2, Points DEF RecordedOK
        <5>4. journal[i] # None
          BY Zenon, <5>2 DEF Source
        <5> QED
          BY Zenon, <1>3, <5>2, <5>3, <5>4
      <4>2. CASE l # "return"
        BY Zenon, <1>1, <1>2, <1>5, <3>2, <4>2
      <4> QED
        BY Zenon, <4>1, <4>2
    <3>3. CASE i = k /\ s # "default"
      <4>1. todo[t] = NoEntries /\ NoEntries[i] = None
        BY Zenon, <1>6, <3>3 DEF NoEntries
      <4> QED
        BY Zenon, <1>3, <1>5, <2>2, <2>r, <4>1 DEF RecordedOK
    <3> QED
      BY Zenon, <3>1, <3>2, <3>3
  <2>3. ASSUME NEW i \in Keys \ {PartnerIdKey}
        PROVE  /\ Source(i)' # "iarm"
               /\ Source(i)' = "default" => dict[i] = journal'[i].fw
    <3>1. Source(i) # "iarm" /\ (Source(i) = "default" => dict[i] = journal[i].fw)
      BY Zenon, <1>5, <2>r, Points DEF RecordedOK
    <3>2. Source(i) = "default" => journal[i] # None
      BY Zenon DEF Source
    <3> QED
      BY Zenon, <1>3, <3>1, <3>2
  <2> QED
    BY Zenon, <2>2, <2>3 DEF RecordedOK
<1> QED
  BY ZenonT(40), <1>7, <1>8, <1>9, <1>10, <1>11 DEF StoreOK

LEMMA AtApplyDefault ==
  ASSUME TypeInv, TypeInv', NEW t \in Threads, StoreOK(t), running, ApplyDefault(t)
  PROVE  StoreOK(t)'
<1> USE BSAssumption DEF NoRec, NoFile
<1>1. /\ pc[t] = "loop" /\ running'
      /\ UNCHANGED <<dict, journal, storeFile, journalFile, initDone, initialUpdate, rfcUpdate>>
      /\ UNCHANGED <<call, active, resent>>
  BY Zenon DEF ApplyDefault, disk, memory
<1>2. PICK k \in Keys : /\ todo[t][k] # None
                        /\ SetRawValue(t, k, todo[t][k], "default", journal, "loop")
                        /\ todo' = [todo EXCEPT ![t][k] = None]
  BY Zenon DEF ApplyDefault
<1>3. todo[t][k] \in Values /\ "default" \in Sources /\ "loop" \in Returns
  <2>1. todo[t] \in [Keys -> Values \cup {None}]
    BY Zenon DEF TypeInv, TypeOK
  <2> QED
    BY Zenon, <1>2, <2>1 DEF Sources, Returns
<1>4. \A i \in Keys : todo'[t][i] = IF i = k THEN None ELSE todo[t][i]
  <2>1. todo \in [Threads -> [Keys -> Values \cup {None}]]
    BY Zenon DEF TypeInv, TypeOK
  <2> QED
    BY Zenon, <1>2, <2>1
<1>5. todo[t][k] = active[k] /\ call'[t] # "clearEnd"
  BY Zenon, <1>1, <1>2 DEF StoreOK, LoadOK, Clearing
<1>6. SameJournal' /\ \A i \in Keys : SameBut(journal'[i], journal[i])
  BY Zenon, <1>1 DEF StoreOK, FilesOK, JournalAhead, SameJournal, SameBut
<1>7. Benign => SessionOK(t)'
  <2>1. /\ "loop" \notin InSetRawValue /\ pc'[t] \notin {"end.open", "end.write"}
        /\ cur'[t].src = "default"
    BY ZenonT(40), <1>2, DecisionType DEF InSetRawValue, SetRawValue, Goto, TypeInv, TypeOK
  <2> QED
    BY Zenon, <1>1, <2>1 DEF StoreOK, SessionOK, Source, Marked
<1>8. SetRawValue(t, k, todo[t][k], "default", journal', "loop")
  BY Zenon, <1>1, <1>2
<1> QED
  BY Zenon, <1>1, <1>3, <1>4, <1>5, <1>6, <1>7, <1>8, Entered

\* The watcher stores the partner id it has read.
LEMMA AtWatchReload ==
  ASSUME TypeInv, TypeInv', StoreOK("watch"), WatchReload
  PROVE  StoreOK("watch")'
<1> USE BSAssumption DEF NoRec, NoFile
<1>t. "watch" \in Threads
  BY Zenon DEF Threads
<1>1. /\ pc["watch"] = "idle" /\ running /\ running' /\ seen # None
      /\ UNCHANGED <<dict, journal, storeFile, journalFile, initDone, initialUpdate, rfcUpdate>>
      /\ UNCHANGED <<active, resent, todo>>
      /\ SetRawValue("watch", PartnerIdKey, seen, "default", journal', "load")
      /\ call' = [call EXCEPT !["watch"] = "reload"]
  BY Zenon DEF WatchReload, disk, memory
<1>2. seen \in Values /\ PartnerIdKey \in Keys /\ "default" \in Sources /\ "load" \in Returns
  BY Zenon, <1>1 DEF TypeInv, TypeOK, Sources, Returns
<1>3. call'["watch"] = "reload"
  BY Zenon, <1>1, <1>t DEF TypeInv, TypeOK
<1>4. active[PartnerIdKey] = None /\ todo["watch"] = NoEntries
  BY Zenon, <1>1 DEF StoreOK, LoadOK, Between
<1>5. SameJournal' /\ \A i \in Keys : SameBut(journal'[i], journal[i])
  BY Zenon, <1>1 DEF StoreOK, FilesOK, JournalAhead, SameJournal, SameBut
<1>6. Benign => SessionOK("watch")'
  <2>1. cur'["watch"].src = "default"
    BY Zenon, <1>1, <1>t DEF SetRawValue, TypeInv, TypeOK
  <2>2. "idle" \notin InSetRawValue
    BY Zenon DEF InSetRawValue
  <2> QED
    BY Zenon, <1>1, <1>3, <2>1, <2>2 DEF StoreOK, SessionOK, Source, Marked
<1> QED
  BY <1>t, <1>1, <1>2, <1>3, <1>4, <1>5, <1>6, Entered, SMTT(30)

\* The mark of a record is not written to the file.
LEMMA MarkNotWritten ==
  ASSUME NEW q \in Rec, NEW b \in BOOLEAN
  PROVE  Persisted([q EXCEPT !.clear = b]) = Persisted(q)
<1>1. [q EXCEPT !.clear = b] \in Rec
  BY Zenon DEF Rec
<1> QED
  BY Zenon, <1>1, BSAssumption DEF Persisted, Rec, NoRec

\* overrideValue takes the mark off the key and enters setRawValue.
LEMMA AtOverriding ==
  ASSUME TypeInv, TypeInv', StoreOK("set"), NEW c \in {"override", "setPartner"},
         NEW k \in Keys, NEW v \in Values, NEW s \in {"rfc", "webpa", "iarm"},
         NEW r \in {"idle", "unlock+load"}, Overriding(c, k, v, s, r),
         s = "iarm" => k = PartnerIdKey /\ "setPartner" \in Ops,
         UNCHANGED <<running, dict, storeFile, journalFile, initDone, initialUpdate>>,
         UNCHANGED <<rfcUpdate, todo, active>>
  PROVE  StoreOK("set")'
<1> USE BSAssumption DEF NoRec, NoFile
<1>t. "set" \in Threads
  BY Zenon DEF Threads
<1>1. /\ pc["set"] = "idle" /\ running /\ running' /\ initDone
      /\ SetRawValue("set", k, v, s, journal', r)
      /\ call' = [call EXCEPT !["set"] = c]
      /\ journal' = Unmarked(k)
      /\ resent' = IF ~rfcUpdate THEN resent
                   ELSE IF s = "rfc" THEN resent \cup {k} ELSE resent \ {k}
  BY Zenon DEF Overriding
<1>2. s \in Sources /\ r \in Returns /\ s # "default" /\ r \notin {"loop", "load"}
  BY Zenon DEF Sources, Returns
<1>3. call'["set"] = c /\ c # "clearEnd"
  BY Zenon, <1>1, <1>t DEF TypeInv, TypeOK
<1>4. /\ todo["set"] = NoEntries /\ SameJournal
      /\ Populated => storeFile # NoFile
  BY Zenon, <1>1 DEF StoreOK, LoadOK, FilesOK, MadeOK, Between, JournalAhead
<1>5. ASSUME NEW i \in Keys
      PROVE  /\ i # k \/ ~(rfcUpdate /\ Marked(k)) => journal'[i] = journal[i]
             /\ i = k /\ rfcUpdate /\ Marked(k) =>
                  /\ journal[i] \in Rec
                  /\ journal'[i] = [journal[i] EXCEPT !.clear = FALSE]
  <2>1. journal \in [Keys -> Rec \cup {None}]
    BY Zenon DEF TypeInv, TypeOK, Journal
  <2>2. CASE rfcUpdate /\ Marked(k)
    <3>1. journal' = [journal EXCEPT ![k] = [journal[k] EXCEPT !.clear = FALSE]]
      BY Zenon, <1>1, <2>2 DEF Unmarked
    <3>2. journal[k] \in Rec
      BY Zenon, <2>1, <2>2 DEF Marked
    <3> QED
      BY Zenon, <2>1, <2>2, <3>1, <3>2
  <2>3. CASE ~(rfcUpdate /\ Marked(k))
    <3>1. journal' = journal
      BY Zenon, <1>1, <2>3 DEF Unmarked
    <3> QED
      BY Zenon, <2>3, <3>1
  <2> QED
    BY Zenon, <2>2, <2>3
<1>6. ASSUME NEW i \in Keys
      PROVE  /\ SameBut(journal'[i], journal[i])
             /\ Persisted(journal'[i]) = Persisted(journal[i])
             /\ Source(i)' = Source(i)
             /\ i # k => (Marked(i)' <=> Marked(i))
             /\ i = k => (Marked(i)' <=> Marked(i) /\ ~rfcUpdate)
  <2>1. CASE i # k \/ ~(rfcUpdate /\ Marked(k))
    BY Zenon, <1>5, <2>1 DEF SameBut, Source, Marked
  <2>2. CASE i = k /\ rfcUpdate /\ Marked(k)
    <3>1. journal[i] \in Rec /\ journal'[i] = [journal[i] EXCEPT !.clear = FALSE]
      BY Zenon, <1>5, <2>2
    <3>2. journal'[i] \in Rec /\ journal'[i].src = journal[i].src
          /\ journal'[i].fw = journal[i].fw /\ ~journal'[i].clear
      BY Zenon, <3>1 DEF Rec
    <3>3. Persisted(journal'[i]) = Persisted(journal[i])
      BY Zenon, <3>1, MarkNotWritten
    <3> QED
      BY Zenon, <2>2, <3>1, <3>2, <3>3 DEF SameBut, Source, Marked
  <2> QED
    BY Zenon, <2>1, <2>2
<1>7. SameJournal'
  BY Zenon, <1>4, <1>6 DEF SameJournal, PersistedAll
<1>8. Benign => SessionOK("set")'
  <2>1. SUFFICES ASSUME Benign PROVE SessionOK("set")'
    BY Zenon
  <2>2. SessionOK("set") /\ pc["set"] \notin InSetRawValue
    BY Zenon, <1>1, <2>1 DEF StoreOK, InSetRawValue
  <2>3. /\ cur'["set"].key = k /\ cur'["set"].src = s
        /\ pc'["set"] = Decision(k, v, s, journal')
    BY Zenon, <1>1, <1>t DEF SetRawValue, Goto, TypeInv, TypeOK
  <2>4. pc'["set"] \in InSetRawValue \/ Source(k)' = s
    BY Zenon, <2>3 DEF Decision, Source, InSetRawValue
  <2>5. \A i \in Keys : Marked(i)' => rfcUpdate /\ Source(i)' = "rfc"
    BY Zenon, <1>6, <2>2 DEF SessionOK
  <2>6. ASSUME rfcUpdate, NEW i \in Keys
        PROVE  \/ Source(i)' = "rfc" /\ ~Marked(i)' <=> i \in resent'
               \/ pc'["set"] \in InSetRawValue /\ k = i
    <3>1. CASE i # k
      <4>1. i \in resent' <=> i \in resent
        BY Zenon, <1>1, <3>1
      <4>2. Source(i) = "rfc" /\ ~Marked(i) <=> i \in resent
        BY Zenon, <2>2, <2>6 DEF SessionOK
      <4> QED
        BY Zenon, <1>6, <3>1, <4>1, <4>2
    <3>2. CASE i = k
      <4>1. i \in resent' <=> s = "rfc"
        BY Zenon, <1>1, <2>6, <3>2
      <4>2. ~Marked(i)'
        BY Zenon, <1>6, <2>6, <3>2
      <4> QED
        BY Zenon, <2>4, <3>2, <4>1, <4>2
    <3> QED
      BY Zenon, <3>1, <3>2
  <2>7. rfcUpdate => (k \in resent' <=> s = "rfc")
    BY Zenon, <1>1
  <2> QED
    BY Zenon, <1>1, <1>2, <1>3, <2>3, <2>5, <2>6, <2>7 DEF SessionOK
<1>9. \A i \in Keys : SameBut(journal'[i], journal[i])
  BY Zenon, <1>6
<1> QED
  BY Zenon, <1>t, <1>1, <1>2, <1>3, <1>4, <1>7, <1>8, <1>9, Entered

\* init reads bootstrap.ini; the constructor has read the journal file.
LEMMA AtInit ==
  ASSUME TypeInv, TypeInv', StoreOK("set"), pc["set"] = "idle", Start \/ RetryInit
  PROVE  StoreOK("set")'
<1> USE BSAssumption DEF NoRec, NoFile
<1>t. "set" \in Threads
  BY Zenon DEF Threads
<1>1. /\ running' /\ dict' = IF storeFile = NoFile THEN NoEntries ELSE storeFile
      /\ pc' = [pc EXCEPT !["set"] = "load"] /\ call' = [call EXCEPT !["set"] = "init"]
      /\ UNCHANGED <<storeFile, journalFile, initDone, initialUpdate, rfcUpdate>>
      /\ UNCHANGED <<cur, ret, todo, active, resent>>
      /\ \/ ~running /\ journal' = journalFile
         \/ running /\ journal' = journal
  <2>1. CASE Start
    BY Zenon, <2>1 DEF Start, EnterInit, Goto, disk
  <2>2. CASE RetryInit
    BY Zenon, <2>2 DEF RetryInit, EnterInit, Goto, disk
  <2> QED
    BY Zenon, <2>1, <2>2
<1>2. pc'["set"] = "load" /\ call'["set"] = "init"
  BY Zenon, <1>1, <1>t DEF TypeInv, TypeOK
<1>3. todo["set"] = NoEntries /\ Clean /\ ~initialUpdate
  BY Zenon DEF StoreOK, LoadOK, FilesOK, Between, Appending
<1>4. running => SameStore /\ SameJournal
  BY Zenon DEF StoreOK, FilesOK, StoreAhead, JournalAhead
<1>5. running => dict' = dict
  BY Zenon, <1>1, <1>4 DEF SameStore, TypeInv, TypeOK
<1>6. /\ "idle" \notin InSetRawValue /\ "idle" \notin JrnPoints
      /\ "load" \notin InSetRawValue /\ "load" \notin JrnPoints /\ "load" \notin {"clr.open", "clr.write"}
  BY Zenon DEF InSetRawValue, JrnPoints
<1>e. \A k \in Keys : NoEntries[k] = None
  BY Zenon DEF NoEntries
<1>7. FilesOK("set")'
  <2>1. SameStore' /\ SameJournal' /\ Clean'
    BY Zenon, <1>1, <1>3, <1>4 DEF SameStore, SameJournal, Clean
  <2> QED
    BY Zenon, <1>1, <1>3, <2>1 DEF FilesOK
<1>8. LoadOK("set")'
  <2>1. LoadOK("set")
    BY Zenon DEF StoreOK
  <2> QED
    BY Zenon, <1>1, <1>2, <1>3, <1>6, <2>1 DEF LoadOK
<1>9. Populated => MadeOK("set")'
  BY Zenon, <1>1, <1>2 DEF StoreOK, MadeOK, Making
<1>10. ~running => \A k \in Keys : active[k] = None
  BY Zenon, <1>e DEF StoreOK, LoadOK
<1>11. Locked => ServedOK("set")'
  BY Zenon, <1>1, <1>5, <1>6, <1>10 DEF StoreOK, ServedOK, Source
<1>c. ASSUME NEW k \in Keys, journalFile[k] # None
      PROVE  journalFile[k].src \in {"rfc", "webpa", "default"} /\ ~journalFile[k].clear
  <2>1. journalFile[k] \in Rec /\ journalFile[k] = Persisted(journalFile[k])
    BY Zenon, <1>3, <1>c DEF Clean, PersistedAll, TypeInv, TypeOK, Journal
  <2>2. /\ Persisted(journalFile[k]).src \in {"rfc", "webpa", "default"}
        /\ ~Persisted(journalFile[k]).clear
    BY Zenon, <1>c, <2>1 DEF Persisted, Rec
  <2> QED
    BY Zenon, <2>1, <2>2
<1>12. Benign => RecordedOK("set")'
  <2>1. SUFFICES ASSUME Benign PROVE RecordedOK("set")'
    BY Zenon
  <2>2. RecordedOK("set")
    BY Zenon, <2>1 DEF StoreOK
  <2>3. CASE running
    BY <1>1, <1>5, <1>6, <2>2, <2>3, ZenonT(30) DEF RecordedOK, Source
  <2>4. CASE ~running
    <3>1. \A k \in Keys \ {PartnerIdKey} :
            journalFile[k] # None /\ journalFile[k].src = "default" =>
              dict'[k] = journalFile[k].fw
      BY Zenon, <1>1, <2>2, <2>4 DEF RecordedOK
    <3> QED
      BY Zenon, <1>1, <1>10, <1>c, <2>4, <3>1 DEF RecordedOK, Source
  <2> QED
    BY Zenon, <2>3, <2>4
<1>13. Benign => SessionOK("set")'
  <2>1. SUFFICES ASSUME Benign PROVE SessionOK("set")'
    BY Zenon
  <2>2. SessionOK("set")
    BY Zenon, <2>1 DEF StoreOK
  <2>3. CASE running
    BY Zenon, <1>1, <1>2, <1>6, <2>2, <2>3 DEF SessionOK, Source, Marked
  <2>4. CASE ~running
    BY Zenon, <1>1, <1>2, <1>c, <2>2, <2>4 DEF SessionOK, Marked
  <2> QED
    BY Zenon, <2>3, <2>4
<1> QED
  BY Zenon, <1>7, <1>8, <1>9, <1>11, <1>12, <1>13 DEF StoreOK

\* ClearDB marks the keys that came from RFC.
LEMMA AtClearDBStart ==
  ASSUME TypeInv, TypeInv', StoreOK("set"), ClearDBStart
  PROVE  StoreOK("set")'
<1> USE BSAssumption DEF NoRec, NoFile
<1>1. /\ "clear" \in Ops /\ pc["set"] = "idle" /\ running /\ running'
      /\ rfcUpdate' /\ resent' = {}
      /\ journal' = [k \in Keys |-> IF Source(k) = "rfc"
                                    THEN [journal[k] EXCEPT !.clear = TRUE] ELSE journal[k]]
      /\ UNCHANGED <<dict, storeFile, journalFile, initDone, initialUpdate>>
      /\ UNCHANGED <<pc, call, cur, ret, todo, active>>
  BY Zenon DEF ClearDBStart, disk, control
<1>2. ASSUME NEW k \in Keys
      PROVE  /\ SameBut(journal'[k], journal[k])
             /\ Persisted(journal'[k]) = Persisted(journal[k])
             /\ Source(k)' = Source(k)
             /\ Source(k) = "rfc" => Marked(k)'
             /\ Source(k) # "rfc" => (Marked(k)' <=> Marked(k))
  <2>1. CASE Source(k) = "rfc"
    <3>1. journal[k] \in Rec /\ journal'[k] = [journal[k] EXCEPT !.clear = TRUE]
      BY Zenon, <1>1, <2>1 DEF Source, TypeInv, TypeOK, Journal
    <3>2. /\ journal'[k] \in Rec /\ journal'[k].src = journal[k].src
          /\ journal'[k].fw = journal[k].fw /\ journal'[k].clear
      BY Zenon, <3>1 DEF Rec
    <3>3. Persisted(journal'[k]) = Persisted(journal[k])
      BY Zenon, <3>1, MarkNotWritten
    <3> QED
      BY Zenon, <2>1, <3>1, <3>2, <3>3 DEF SameBut, Source, Marked
  <2>2. CASE Source(k) # "rfc"
    <3>1. journal'[k] = journal[k]
      BY Zenon, <1>1, <2>2
    <3> QED
      BY Zenon, <2>2, <3>1 DEF SameBut, Source, Marked
  <2> QED
    BY Zenon, <2>1, <2>2
<1>3. pc["set"] \notin InSetRawValue /\ pc["set"] \notin JrnPoints /\ pc["set"] # "jrn.write"
  BY Zenon, <1>1 DEF InSetRawValue, JrnPoints
<1>4. FilesOK("set")'
  <2>1. SameStore /\ SameJournal /\ Clean /\ ~initialUpdate
    BY Zenon, <1>1 DEF StoreOK, FilesOK, StoreAhead, JournalAhead, Appending
  <2>2. SameJournal'
    BY Zenon, <1>1, <1>2, <2>1 DEF SameJournal, PersistedAll
  <2> QED
    BY Zenon, <1>1, <2>1, <2>2 DEF FilesOK, SameStore, Clean
<1>5. LoadOK("set")'
  <2>1. LoadOK("set")
    BY Zenon DEF StoreOK
  <2> QED
    BY Zenon, <1>1, <1>3, <2>1 DEF LoadOK
<1>6. Populated => MadeOK("set")'
  BY Zenon, <1>1 DEF StoreOK, MadeOK, Making
<1>7. ~Locked
  BY Zenon, <1>1 DEF Locked
<1>8. Benign => RecordedOK("set")'
  BY ZenonT(40), <1>1, <1>2, <1>3 DEF StoreOK, RecordedOK, SameBut, Source
<1>9. Benign => SessionOK("set")'
  BY Zenon, <1>1, <1>2, <1>3 DEF StoreOK, SessionOK
<1> QED
  BY Zenon, <1>4, <1>5, <1>6, <1>7, <1>8, <1>9 DEF StoreOK

\* ClearDBEnd begins.
LEMMA AtClearDBEnd ==
  ASSUME TypeInv, TypeInv', StoreOK("set"), ClearDBEnd
  PROVE  StoreOK("set")'
<1> USE BSAssumption DEF NoRec, NoFile
<1>t. "set" \in Threads
  BY Zenon DEF Threads
<1>1. /\ "clear" \in Ops /\ pc["set"] = "idle" /\ running /\ running' /\ initDone
      /\ pc'["set"] = "clr.open" /\ call'["set"] = "clearEnd"
      /\ UNCHANGED <<dict, journal, storeFile, journalFile, initDone, initialUpdate, rfcUpdate>>
      /\ UNCHANGED <<cur, ret, todo, active, resent>>
  BY Zenon, <1>t DEF ClearDBEnd, Goto, disk, memory, TypeInv, TypeOK
<1>2. /\ "idle" \notin InSetRawValue /\ "idle" \notin JrnPoints
      /\ "clr.open" \notin InSetRawValue /\ "clr.open" \notin JrnPoints /\ "clr.open" \in Clearing
  BY Zenon DEF InSetRawValue, JrnPoints, Clearing
<1>3. FilesOK("set")'
  BY Zenon, <1>1 DEF StoreOK, FilesOK, StoreAhead, JournalAhead, Appending, SameStore, SameJournal, Clean
<1>4. LoadOK("set")'
  <2>1. LoadOK("set") /\ todo["set"] = NoEntries
    BY Zenon, <1>1 DEF StoreOK, LoadOK, Between
  <2> QED
    BY Zenon, <1>1, <1>2, <2>1 DEF LoadOK
<1>5. Populated => MadeOK("set")'
  BY Zenon, <1>1 DEF StoreOK, MadeOK
<1>6. ~Locked
  BY Zenon, <1>1 DEF Locked
<1>7. Benign => RecordedOK("set")'
  BY ZenonT(40), <1>1, <1>2 DEF StoreOK, RecordedOK, Source
<1>8. Benign => SessionOK("set")'
  BY Zenon, <1>1, <1>2 DEF StoreOK, SessionOK, Source, Marked
<1> QED
  BY Zenon, <1>3, <1>4, <1>5, <1>6, <1>7, <1>8 DEF StoreOK
-----------------------------------------------------------------------------
(* The process dies, and the whole next-state relation.                    *)

\* A journal of which any lines are missing is clean.
LEMMA TornClean ==
  ASSUME NEW j \in Journal, NEW f \in Torn(PersistedAll(j), NoRec)
  PROVE  PersistedAll(f) = f
<1>1. PICK kept \in SUBSET Keys :
        f = [k \in Keys |-> IF k \in kept THEN PersistedAll(j)[k] ELSE NoRec]
  BY Zenon DEF Torn
<1>2. \A k \in Keys : Persisted(PersistedAll(j)[k]) = PersistedAll(j)[k]
  <2>1. PersistedAll(PersistedAll(j)) = PersistedAll(j)
    BY Zenon, PersistedTwice
  <2> QED
    BY Zenon, <2>1 DEF PersistedAll
<1>3. Persisted(NoRec) = NoRec
  BY Zenon DEF Persisted
<1>4. \A k \in Keys : Persisted(f[k]) = f[k]
  BY Zenon, <1>1, <1>2, <1>3
<1> QED
  BY Zenon, <1>1, <1>4 DEF PersistedAll

LEMMA AtCrash ==
  ASSUME TypeInv, TypeInv', NEW t \in Threads, Sole(t), StoreOK(t), Crash
  PROVE  StoreInv'
<1> USE BSAssumption DEF NoRec, NoFile
<1> DEFINE jt == {u \in Threads : pc[u] \in {"jrn.write", "end.write"}}
<1> DEFINE st == {u \in Threads : pc[u] \in {"set.write", "rm.write", "clr.write"}}
<1>1. /\ running /\ ~running' /\ ~initDone' /\ ~initialUpdate' /\ ~rfcUpdate'
      /\ dict' = NoEntries /\ journal' = NoRecords /\ active' = NoEntries
      /\ \A u \in Threads : /\ pc'[u] = "idle" /\ call'[u] = "none" /\ todo'[u] = NoEntries
      /\ \A u \in Threads : pc[u] \in CrashPoints
  BY Zenon DEF Crash
<1>2. journalFile' \in IF jt = {} THEN {journalFile}
                       ELSE UNION {Torn(JournalLines(u), NoRec) : u \in jt}
  BY Zenon DEF Crash
<1>3. Clean'
  <2>1. CASE jt = {}
    BY Zenon, <1>2, <2>1 DEF StoreOK, FilesOK, Clean
  <2>2. CASE jt # {}
    <3>1. journalFile' \in UNION {Torn(JournalLines(u), NoRec) : u \in jt}
      BY Zenon, <1>2, <2>2
    <3>2. PICK u \in jt : journalFile' \in Torn(JournalLines(u), NoRec)
      BY Zenon, <3>1
    <3>3. \E j \in Journal : JournalLines(u) = PersistedAll(j)
      <4>1. CASE pc[u] = "jrn.write"
        <5>1. JournalLines(u) = PersistedAll(SetJournal(u))
          BY Zenon, <4>1 DEF JournalLines
        <5>2. cur[u] \in Call
          BY Zenon, <3>2, <4>1 DEF TypeInv, CallKnown, InSetRawValue
        <5>3. SetJournal(u) \in Journal
          BY Zenon, <5>2 DEF SetJournal, Call, TypeInv, TypeOK, Journal
        <5> QED
          BY Zenon, <5>1, <5>3
      <4>2. CASE pc[u] = "end.write"
        <5>1. JournalLines(u) = PersistedAll(journal)
          BY Zenon, <4>2 DEF JournalLines
        <5> QED
          BY Zenon, <5>1 DEF TypeInv, TypeOK
      <4> QED
        BY Zenon, <3>2, <4>1, <4>2
    <3> QED
      BY Zenon, <3>2, <3>3, TornClean DEF Clean
  <2> QED
    BY Zenon, <2>1, <2>2
<1>4. /\ "idle" \notin InSetRawValue /\ "idle" \notin JrnPoints /\ "idle" # "jrn.write"
      /\ "idle" # "return"
  BY Zenon DEF InSetRawValue, JrnPoints
<1>5. \A k \in Keys : Source(k)' = "none" /\ ~Marked(k)' /\ NoEntries[k] = None
  BY Zenon, <1>1 DEF Source, Marked, NoRecords, NoEntries
<1>6. ASSUME NEW u \in Threads PROVE FilesOK(u)' /\ LoadOK(u)'
  BY Zenon, <1>1, <1>3, <1>4, <1>5 DEF FilesOK, LoadOK
<1>7. ASSUME NEW u \in Threads PROVE MadeOK(u)' /\ ServedOK(u)' /\ SessionOK(u)'
  BY ZenonT(40), <1>1, <1>4, <1>5 DEF MadeOK, Making, ServedOK, SessionOK
<1>8. ASSUME Benign, NEW k \in Keys \ {PartnerIdKey}, journalFile'[k] # None,
             journalFile'[k].src = "default"
      PROVE  storeFile' # None /\ storeFile'[k] = journalFile'[k].fw
  <2>1. \A u \in Threads : pc[u] \in {"idle", "load", "loop"}
    BY Zenon, <1>1, <1>8 DEF Benign
  <2>2. jt = {} /\ st = {}
    BY Zenon, <2>1
  <2>3. storeFile' = storeFile /\ journalFile' = journalFile
    BY Zenon, <2>2 DEF Crash
  <2>4. SameStore /\ SameJournal
    BY Zenon, <1>1, <2>1 DEF StoreOK, FilesOK, StoreAhead, JournalAhead
  <2>5. pc[t] \notin JrnPoints
    BY Zenon, <2>1 DEF JrnPoints
  <2>6. journal[k] \in Rec \cup {None} /\ journalFile[k] = Persisted(journal[k])
    BY Zenon, <2>4 DEF SameJournal, PersistedAll, TypeInv, TypeOK, Journal
  <2>7. /\ journal[k] \in Rec /\ journal[k].src \notin {"rfc", "webpa"}
        /\ journalFile[k].fw = journal[k].fw
    BY Zenon, <1>8, <2>3, <2>6 DEF Persisted, Rec
  <2>8. Source(k) = "default"
    <3>1. Source(k) = journal[k].src /\ journal[k].src \in Sources
      BY Zenon, <2>7 DEF Source, Rec
    <3>2. Source(k) # "iarm"
      BY Zenon, <1>8 DEF StoreOK, RecordedOK
    <3> QED
      BY Zenon, <2>7, <3>1, <3>2 DEF Sources
  <2>9. dict[k] = journal[k].fw
    BY Zenon, <1>8, <2>5, <2>8 DEF StoreOK, RecordedOK
  <2>10. dict[k] # None
    BY Zenon, <2>7, <2>9 DEF Rec, Stored
  <2> QED
    BY <2>3, <2>4, <2>7, <2>9, <2>10, ZenonT(30) DEF SameStore, NoEntries, TypeInv, TypeOK
<1>9. ASSUME NEW u \in Threads, Benign PROVE RecordedOK(u)'
  BY Zenon, <1>1, <1>5, <1>8, <1>9 DEF RecordedOK
<1> QED
  BY Zenon, <1>1, <1>6, <1>7, <1>9 DEF StoreInv, StoreOK

\* Every step of the system preserves the invariant when the calls exclude
\* each other and every file can be opened.
LEMMA StoreNext ==
  ASSUME Openable, Unwatched \/ Locked, TypeInv, TypeInv', LockInv, LockInv',
         Benign => OverrideInv, StoreInv, [Next]_vars
  PROVE  StoreInv'
<1>t. "set" \in Threads /\ "watch" \in Threads
  BY Zenon DEF Threads
<1>y. pc \in [Threads -> PCs] /\ pc' \in [Threads -> PCs]
  BY Zenon DEF TypeInv, TypeOK
<1>1. ASSUME NEW t \in Threads, Sole(t), running, Step(t) PROVE StoreInv'
  <2>1. StoreOK(t)
    BY Zenon, <1>1 DEF StoreInv
  <2>2. StoreOK(t)'
    BY Zenon, <1>1, <2>1, AtLoad, AtApplyDefault, AtLoaded, AtReturn, AtAppend, AtSetOpen, AtSetWrite,
       AtJrnOpen, AtJrnWrite, AtRmClrOpen, AtRmWrite, AtClrWrite, AtEndOpen, AtEndWrite DEF Step
  <2>3. \E l \in PCs : pc' = [pc EXCEPT ![t] = l]
    <3>1. \E l : pc' = [pc EXCEPT ![t] = l]
      BY Zenon, <1>1 DEF Step, Load, ApplyDefault, Loaded, Return, Append, SetOpen, SetWrite, JrnOpen,
         JrnWrite, RmOpen, RmWrite, ClrOpen, ClrWrite, EndOpen, EndWrite, TruncateStore,
         AfterEnd, Leave, SetRawValue, Goto
    <3> QED
      BY Zenon, <3>1, <1>y
  <2>4. \A u \in Threads \ {t} : todo'[u] = todo[u]
    BY Zenon, <1>1 DEF Step, Load, ApplyDefault, Loaded, Return, Append, SetOpen, SetWrite, JrnOpen,
       JrnWrite, RmOpen, RmWrite, ClrOpen, ClrWrite, EndOpen, EndWrite, TruncateStore,
       AfterEnd, Leave, TypeInv, TypeOK
  <2>5. pc'[t] = "idle" => todo'[t] = NoEntries
    BY Zenon, <2>2 DEF StoreOK, LoadOK, Between
  <2> QED
    BY Zenon, <1>1, <1>y, <2>2, <2>3, <2>4, <2>5, After
<1>2. ASSUME NEW t \in Threads, \A u \in Threads : pc[u] = "idle", StoreOK(t)',
             \E l : pc' = [pc EXCEPT ![t] = l], todo' = todo
      PROVE  StoreInv'
  <2>1. Sole(t) /\ todo[t] = NoEntries
    BY Zenon, <1>2 DEF Sole, StoreInv
  <2>2. \E l \in PCs : pc' = [pc EXCEPT ![t] = l]
    BY Zenon, <1>2, <1>y
  <2> QED
    BY Zenon, <1>2, <2>1, <2>2, After
<1>3. ASSUME \A u \in Threads : pc[u] = "idle", Start \/ RetryInit \/ Request \/ WatchReload
      PROVE  StoreInv'
  <2>1. StoreOK("set") /\ StoreOK("watch")
    BY Zenon, <1>3, <1>t DEF StoreInv, Sole
  <2>2. CASE Start \/ RetryInit
    <3>1. StoreOK("set")'
      BY Zenon, <1>3, <1>t, <2>1, <2>2, AtInit
    <3>2. pc' = [pc EXCEPT !["set"] = "load"] /\ todo' = todo
      BY Zenon, <2>2 DEF Start, RetryInit, EnterInit, Goto
    <3> QED
      BY Zenon, <1>2, <1>3, <1>t, <3>1, <3>2
  <2>3. ASSUME NEW k \in Keys \ {PartnerIdKey}, NEW v \in Values \ Partners,
               NEW s \in {"rfc", "webpa"}, OverrideValue(k, v, s)
        PROVE  StoreInv'
    <3>1. Overriding("override", k, v, s, "idle")
          /\ UNCHANGED <<running, dict, storeFile, journalFile, initDone, initialUpdate>>
          /\ UNCHANGED <<rfcUpdate, todo, active>>
      BY Zenon, <2>3 DEF OverrideValue, disk
    <3>2. StoreOK("set")'
      BY Zenon, <2>1, <3>1, AtOverriding
    <3>3. \E l : pc' = [pc EXCEPT !["set"] = l]
      BY Zenon, <3>1 DEF Overriding, SetRawValue, Goto
    <3> QED
      BY Zenon, <1>2, <1>3, <1>t, <3>1, <3>2, <3>3
  <2>4. ASSUME NEW p \in Partners, NEW s \in {"rfc", "webpa", "iarm"}, SetPartner(p, s)
        PROVE  StoreInv'
    <3>1. Overriding("setPartner", PartnerIdKey, p, s, "unlock+load") /\ "setPartner" \in Ops
          /\ UNCHANGED <<running, dict, storeFile, journalFile, initDone, initialUpdate>>
          /\ UNCHANGED <<rfcUpdate, todo, active>>
      BY Zenon, <2>4 DEF SetPartner
    <3>2. p \in Values /\ PartnerIdKey \in Keys
      BY Zenon, BSAssumption
    <3>3. StoreOK("set")'
      BY Zenon, <2>1, <3>1, <3>2, AtOverriding
    <3>4. \E l : pc' = [pc EXCEPT !["set"] = l]
      BY Zenon, <3>1 DEF Overriding, SetRawValue, Goto
    <3> QED
      BY Zenon, <1>2, <1>3, <1>t, <3>1, <3>3, <3>4
  <2>5. CASE ClearDBStart
    <3>1. StoreOK("set")'
      BY Zenon, <2>1, <2>5, AtClearDBStart
    <3>2. pc' = [pc EXCEPT !["set"] = "idle"] /\ todo' = todo
      BY Zenon, <1>3, <1>t, <1>y, <2>5 DEF ClearDBStart, control
    <3> QED
      BY Zenon, <1>2, <1>3, <1>t, <3>1, <3>2
  <2>6. CASE ClearDBEnd
    <3>1. StoreOK("set")'
      BY Zenon, <2>1, <2>6, AtClearDBEnd
    <3>2. pc' = [pc EXCEPT !["set"] = "clr.open"] /\ todo' = todo
      BY Zenon, <2>6 DEF ClearDBEnd, Goto
    <3> QED
      BY Zenon, <1>2, <1>3, <1>t, <3>1, <3>2
  <2>7. CASE WatchReload
    <3>1. StoreOK("watch")'
      BY Zenon, <2>1, <2>7, AtWatchReload
    <3>2. \E l : pc' = [pc EXCEPT !["watch"] = l]
      BY Zenon, <2>7 DEF WatchReload, SetRawValue, Goto
    <3>3. todo' = todo
      BY Zenon, <2>7 DEF WatchReload
    <3> QED
      BY Zenon, <1>2, <1>3, <1>t, <3>1, <3>2, <3>3
  <2> QED
    BY Zenon, <1>3, <2>2, <2>3, <2>4, <2>5, <2>6, <2>7 DEF Request
<1>4. CASE Crash
  <2>1. \E t \in Threads : Sole(t)
    BY Zenon, <1>t, Exclusive DEF Sole
  <2> QED
    BY Zenon, <1>4, <2>1, AtCrash DEF StoreInv
<1>5. CASE Elsewhere
  <2>0. /\ UNCHANGED <<running, storeFile, journalFile, dict, journal, initDone>>
        /\ UNCHANGED <<initialUpdate, rfcUpdate, pc, call, cur, ret, todo, active, resent>>
    BY Zenon, <1>5 DEF Elsewhere, memory, control
  <2>1. ASSUME NEW t \in Threads, FilesOK(t) /\ LoadOK(t) PROVE FilesOK(t)' /\ LoadOK(t)'
    <3>1. FilesOK(t)'
      BY Zenon, <2>0, <2>1 DEF FilesOK, SameStore, SameJournal, Clean, Appending
    <3>2. LoadOK(t)'
      BY Zenon, <2>0, <2>1 DEF LoadOK, Source, Journaled
    <3> QED
      BY Zenon, <3>1, <3>2
  <2>2. ASSUME NEW t \in Threads
        PROVE  /\ MadeOK(t) => MadeOK(t)'
               /\ ServedOK(t) => ServedOK(t)'
    BY Zenon, <2>0 DEF MadeOK, Making, ServedOK, Source
  <2>3. ASSUME NEW t \in Threads
        PROVE  /\ RecordedOK(t) => RecordedOK(t)'
               /\ SessionOK(t) => SessionOK(t)'
    BY Zenon, <2>0 DEF RecordedOK, SessionOK, Source, Marked
  <2>4. \A t \in Threads : Sole(t)' <=> Sole(t)
    BY Zenon, <2>0 DEF Sole
  <2> QED
    BY Zenon, <2>0, <2>1, <2>2, <2>3, <2>4 DEF StoreInv, StoreOK
<1> QED
  BY Zenon, <1>1, <1>3, <1>4, <1>5, Schedule
-----------------------------------------------------------------------------
LEMMA StoreInvariant ==
  ASSUME Openable, Unwatched \/ Locked
  PROVE  Spec => [](TypeInv /\ LockInv /\ (Benign => OverrideInv) /\ StoreInv)
<1> DEFINE Inv == TypeInv /\ LockInv /\ (Benign => OverrideInv) /\ StoreInv
<1>1. Init => Inv
  BY Zenon, InitType, LockInit, OverrideInit, StoreInit
<1>2. Inv /\ [Next]_vars => Inv'
  <2>1. SUFFICES ASSUME Inv, [Next]_vars PROVE Inv'
    BY Zenon
  <2>2. TypeInv' /\ LockInv'
    BY Zenon, <2>1, NextType, LockNext
  <2>3. Benign => OverrideInv'
    BY Zenon, <2>1, <2>2, OverrideNext
  <2> QED
    BY Zenon, <2>1, <2>2, <2>3, StoreNext
<1> QED
  BY <1>1, <1>2, PTL DEF Spec

\* Between calls every thread is alone and has nothing left to load.
LEMMA AtRest ==
  ASSUME TypeInv, LockInv, StoreInv, Quiet
  PROVE  /\ running /\ initDone /\ pc["set"] = "idle" /\ StoreOK("set")
         /\ \A k \in Keys : todo["set"][k] = None
         /\ pc["set"] \notin InSetRawValue /\ pc["set"] \notin JrnPoints
<1>1. "set" \in Threads /\ \A t \in Threads : pc[t] = "idle"
  BY Zenon DEF Quiet, LockInv, Threads
<1>2. StoreOK("set") /\ todo["set"] = NoEntries
  BY Zenon, <1>1 DEF StoreInv, Sole
<1> QED
  BY Zenon, <1>1, <1>2 DEF Quiet, NoEntries, InSetRawValue, JrnPoints

\* Whenever the process dies, and whatever a rewrite it interrupts leaves
\* behind: once the store is initialised and no call is in progress, both
\* files hold what the caches hold.
THEOREM StoreSaved ==
  ASSUME Openable, Populated, Unwatched \/ Locked
  PROVE  Spec => []StoreSynced
<1>1. TypeInv /\ LockInv /\ StoreInv => StoreSynced
  <2>1. SUFFICES ASSUME TypeInv, LockInv, StoreInv, Quiet
                 PROVE  storeFile = dict /\ journalFile = PersistedAll(journal)
    BY Zenon DEF StoreSynced
  <2>2. FilesOK("set") /\ MadeOK("set") /\ running /\ initDone /\ pc["set"] = "idle"
    BY Zenon, <2>1, AtRest DEF StoreOK
  <2>3. SameStore /\ SameJournal /\ storeFile # NoFile
    BY Zenon, <2>2 DEF FilesOK, MadeOK, StoreAhead, JournalAhead
  <2> QED
    BY Zenon, <2>3 DEF SameStore, SameJournal
<1> QED
  BY <1>1, StoreInvariant, PTL

\* The journal holds the current default of every key, overridden or not, for
\* every order of restarts, upgrades, partner changes, overrides and RFC
\* sessions, as long as the process is not stopped inside a rewrite.
THEOREM FirmwareKnown ==
  ASSUME Openable, Benign, Unwatched \/ Locked
  PROVE  Spec => []FirmwareRecorded
<1>1. TypeInv /\ LockInv /\ StoreInv => FirmwareRecorded
  <2>1. SUFFICES ASSUME TypeInv, LockInv, StoreInv, Quiet, NEW k \in Keys, active[k] # None
                 PROVE  journal[k] # NoRec /\ journal[k].fw = active[k]
    BY Zenon DEF FirmwareRecorded
  <2> QED
    BY Zenon, <2>1, AtRest DEF StoreOK, RecordedOK
<1> QED
  BY <1>1, StoreInvariant, PTL

\* A key nobody has overridden is served with its current default: wherever
\* the process dies when only parameters are set and the watcher reloads, and
\* with RFC sessions and partner changes too when it dies between rewrites.
THEOREM DefaultsKept ==
  ASSUME Openable, Locked \/ (Benign /\ Unwatched)
  PROVE  Spec => []DefaultServed
<1>1. TypeInv /\ LockInv /\ StoreInv => DefaultServed
  <2>1. SUFFICES ASSUME TypeInv, LockInv, StoreInv, Quiet, NEW k \in Keys \ {PartnerIdKey},
                        active[k] # None, Source(k) \notin Overrides
                 PROVE  dict[k] = active[k]
    BY Zenon DEF DefaultServed, Overrides
  <2>2. CASE Locked
    BY Zenon, <2>1, <2>2, AtRest DEF StoreOK, ServedOK
  <2>3. CASE Benign
    <3>1. RecordedOK("set")
      BY Zenon, <2>1, <2>3, AtRest DEF StoreOK
    <3>2. journal[k] # NoRec /\ journal[k].fw = active[k]
      BY Zenon, <2>1, <3>1, AtRest DEF RecordedOK
    <3>3. Source(k) = "default"
      <4>1. journal[k] \in Rec
        BY Zenon, <2>1, <3>2 DEF TypeInv, TypeOK, Journal
      <4>2. Source(k) \in Sources /\ Source(k) # "iarm"
        BY Zenon, <3>1, <3>2, <4>1 DEF Source, Rec, RecordedOK
      <4> QED
        BY Zenon, <2>1, <4>2 DEF Sources, Overrides
    <3>4. dict[k] = journal[k].fw
      BY Zenon, <2>1, <3>1, <3>3, AtRest DEF RecordedOK
    <3> QED
      BY Zenon, <3>2, <3>4
  <2> QED
    BY Zenon, <2>2, <2>3
<1> QED
  BY <1>1, StoreInvariant, PTL

\* When an RFC session ends, exactly the keys it wrote are attributed to RFC
\* and none is left marked, whatever sets, partner changes and restarts came
\* between ClearDB and ClearDBEnd.
THEOREM SessionEndsExact ==
  ASSUME Openable, Benign, Unwatched \/ Locked
  PROVE  Spec => RfcSessionExact
<1> DEFINE Exact == rfcUpdate /\ ~rfcUpdate' /\ running' =>
                      \A k \in Keys : /\ Source(k)' = "rfc" <=> k \in resent
                                      /\ ~Marked(k)'
<1>1. TypeInv /\ LockInv /\ StoreInv /\ [Next]_vars => [Exact]_vars
  <2>1. SUFFICES ASSUME TypeInv, LockInv, StoreInv, [Next]_vars,
                        rfcUpdate, ~rfcUpdate', running', NEW k \in Keys
                 PROVE  (Source(k)' = "rfc" <=> k \in resent) /\ ~Marked(k)'
    BY Zenon
  <2>2. PICK t \in Threads : Sole(t) /\ Step(t)
    <3>1. ~Crash /\ ~Elsewhere
      BY Zenon, <2>1 DEF Crash, Elsewhere, memory
    <3>2. ~(Start \/ RetryInit \/ WatchReload)
      BY Zenon, <2>1 DEF Start, RetryInit, WatchReload, memory
    <3>3. ~Request
      BY Zenon, <2>1 DEF Request, OverrideValue, SetPartner, ClearDBStart, ClearDBEnd, memory
    <3> QED
      BY Zenon, <2>1, <3>1, <3>2, <3>3, Schedule
  <2>3. EndWrite(t) /\ call[t] = "clearEnd"
    BY Zenon, <2>1, <2>2 DEF Step, Load, ApplyDefault, Loaded, Return, Append, SetOpen, SetWrite,
       JrnOpen, JrnWrite, RmOpen, RmWrite, ClrOpen, ClrWrite, EndOpen, EndWrite, TruncateStore,
       AfterEnd, memory
  <2>4. pc[t] = "end.write" /\ journal' = journal
    BY Zenon, <2>3 DEF EndWrite
  <2>5. SessionOK(t)
    BY Zenon, <2>1, <2>2 DEF StoreInv, StoreOK
  <2>6. ~Marked(k) /\ (Source(k) = "rfc" /\ ~Marked(k) <=> k \in resent)
    BY Zenon, <2>1, <2>3, <2>4, <2>5 DEF SessionOK, InSetRawValue
  <2> QED
    BY Zenon, <2>4, <2>6 DEF Source, Marked
<1> QED
  BY <1>1, StoreInvariant, PTL DEF Spec, RfcSessionExact
============================================================================
