------------------------------ MODULE RFCStore ------------------------------
(***************************************************************************)
(* The RFC store (XRFCStore): three dictionaries, each in front of a file. *)
(* "main" (tr181store.ini) is what GET serves, "local" (tr181localstore)   *)
(* keeps what WebPA set, "np" holds the non-persistent features.  An RFC   *)
(* session runs from ClearDB, which truncates main and np, to ClearDBEnd,  *)
(* which reloads the dictionaries and adds the local values to main.       *)
(*                                                                         *)
(* The device lock serialises all requests.  What remains is the order of  *)
(* the file operations of one request, which a stop of the process may cut *)
(* short, and a second process that writes the local file under the named  *)
(* semaphore "localstore".                                                 *)
(***************************************************************************)
EXTENDS Naturals, Sequences

CONSTANTS
  Keys,       \* the persistent RFC parameters
  NPKeys,     \* the parameters with the NonPersistent prefix
  Values,     \* non-empty parameter values
  None,       \* the absent entry
  Defaults,   \* rfcdefaults.ini
  Patterns,   \* what ClearParam may name: a key, or all keys of a prefix
  Ops,        \* the operations this instance uses
  CrashPoints,\* where the process may stop: "idle", "job", "open", "held"
  IOFaults,   \* the jobs whose open may fail, as <<kind, store>>
  NoDefaults  \* rfcdefaults.ini may be unreadable

AllKeys == Keys \cup NPKeys
Stores == {"main", "local", "np"}
Dict == [AllKeys -> Values \cup {None}]
NoEntries == [k \in AllKeys |-> None]
OpNames == {"webpa", "rfc", "iarm", "np", "session", "clearParam", "clearInSession",
            "external", "reboot"}

\* A file operation a request has still to do: rewrite a file from its
\* dictionary (after entering key = val, unless key is None), append a line to
\* it, or truncate it.
NewJob(o, s, k, v) == [kind |-> o, store |-> s, key |-> k, val |-> v, post |-> FALSE]
Rewrite(s, k, v) == NewJob("rewrite", s, k, v)
AppendTo(s, k, v) == NewJob("append", s, k, v)
Truncate(s) == NewJob("truncate", s, None, None)
\* The semaphore is posted when job j is done.
Posting(j) == [j EXCEPT !.post = TRUE]

ASSUME RFCAssumption ==
  /\ Keys \cap NPKeys = {}
  /\ None \notin Values \cup AllKeys
  /\ Defaults \in Dict
  /\ Patterns \subseteq SUBSET Keys
  /\ Ops \subseteq OpNames
  /\ NoDefaults \in BOOLEAN

VARIABLES
  running,   \* the process is up
  initDone,  \* m_initDone
  updating,  \* m_updateInProgress
  cache,     \* m_dict, m_local_dict and m_nonpersist_dict
  file,      \* the three files
  jobs,      \* the file operations the current request has still to do
  held,      \* the semaphore "localstore" is taken
  open,      \* the file of the first job has been truncated for rewriting
  synced,    \* /tmp/.rfcSyncDone exists
  sent,      \* history: what the RFC agent has set since ClearDB
  wanted     \* history: the local values their writers expect to find

vars == <<running, initDone, updating, cache, file, jobs, held, open, synced, sent, wanted>>
-----------------------------------------------------------------------------
\* getRawValue and getValue: the dictionary's value, else the default.
RawValue(k) ==
  IF k \in NPKeys THEN IF synced THEN cache["np"][k] ELSE None
  ELSE cache["main"][k]
Served(k) == IF RawValue(k) # None THEN RawValue(k) ELSE Defaults[k]

\* Mutant of Merged: the local values win over what the session set.
MergedLocalWins ==
  [k \in AllKeys |-> IF file["local"][k] # None THEN file["local"][k] ELSE file["main"][k]]

\* reloadCache: the reloaded main dictionary with the local values added.
Merged ==
  [k \in AllKeys |-> IF file["main"][k] # None THEN file["main"][k] ELSE file["local"][k]]

Idle == running /\ initDone /\ jobs = <<>>
-----------------------------------------------------------------------------
Init ==
  /\ running = FALSE
  /\ initDone = FALSE
  /\ updating = FALSE
  /\ cache = [s \in Stores |-> NoEntries]
  /\ file = [s \in Stores |-> NoEntries]
  /\ jobs = <<>>
  /\ held = FALSE
  /\ open = FALSE
  /\ synced = FALSE
  /\ sent = NoEntries
  /\ wanted = NoEntries

\* loadTR181PropertiesIntoCache succeeds if rfcdefaults.ini can be read.
LoadResult == IF NoDefaults THEN BOOLEAN ELSE {TRUE}

\* The constructor.
Start ==
  /\ ~running
  /\ ~held
  /\ running' = TRUE
  /\ initDone' \in LoadResult
  /\ cache' = file
  /\ UNCHANGED <<updating, file, jobs, held, open, synced, sent, wanted>>

\* A request that finds m_initDone false loads the files again.
InitAgain ==
  /\ running
  /\ ~initDone
  /\ ~held
  /\ jobs = <<>>
  /\ initDone' \in LoadResult
  /\ cache' = file
  /\ UNCHANGED <<running, updating, file, jobs, held, open, synced, sent, wanted>>
-----------------------------------------------------------------------------
\* ClearDB: the files are truncated, the dictionaries are left alone.
ClearAll ==
  /\ "session" \in Ops
  /\ Idle
  /\ ~updating
  /\ updating' = TRUE
  /\ jobs' = <<Truncate("main"), Truncate("np")>>
  /\ sent' = NoEntries
  /\ UNCHANGED <<running, initDone, cache, file, held, open, synced, wanted>>

\* ClearDBEnd.
ReloadCache ==
  /\ Idle
  /\ updating
  /\ ~held
  /\ updating' = FALSE
  /\ initDone' \in LoadResult
  /\ cache' = [file EXCEPT !["main"] = Merged]
  /\ jobs' = <<Rewrite("main", None, None)>>
  /\ UNCHANGED <<running, file, held, open, synced, sent, wanted>>

\* Mutant of MainJobs: a set during a session is also entered in the dictionary.
MainJobsLive(k, v) ==
  IF cache["main"][k] = v THEN <<>>
  ELSE <<Rewrite("main", k, v)>>

\* setRawValue and the test before it: during a session the value is only
\* appended to the file; otherwise it is entered and the file rewritten,
\* unless it is there already.
MainJobs(k, v) ==
  IF updating THEN <<AppendTo("main", k, v)>>
  ELSE IF cache["main"][k] = v THEN <<>>
  ELSE <<Rewrite("main", k, v)>>

\* setValue of a persistent parameter by the RFC agent or over IARM.
SetValue(k, v, s) ==
  /\ s \in Ops
  /\ Idle
  /\ jobs' = MainJobs(k, v)
  /\ sent' = IF updating THEN [sent EXCEPT ![k] = v] ELSE sent
  /\ UNCHANGED <<running, initDone, updating, cache, file, held, open, synced, wanted>>

\* Mutant of SetWebpa: the local dictionary is not reloaded first.
SetWebpaStale(k, v) ==
  /\ "webpa" \in Ops
  /\ Idle
  /\ ~held
  /\ held' = TRUE
  /\ jobs' = <<Posting(Rewrite("local", k, v))>> \o (IF updating THEN <<>> ELSE MainJobs(k, v))
  /\ wanted' = [wanted EXCEPT ![k] = v]
  /\ UNCHANGED <<running, initDone, updating, cache, file, open, synced, sent>>

\* setValue by WebPA: the local file, which another process may have written,
\* is reloaded and rewritten; main follows unless a session is running.
SetWebpa(k, v) ==
  /\ "webpa" \in Ops
  /\ Idle
  /\ ~held
  /\ held' = TRUE
  /\ cache' = [cache EXCEPT !["local"] = file["local"]]
  /\ jobs' = <<Posting(Rewrite("local", k, v))>> \o (IF updating THEN <<>> ELSE MainJobs(k, v))
  /\ wanted' = [wanted EXCEPT ![k] = v]
  /\ UNCHANGED <<running, initDone, updating, file, open, synced, sent>>

\* setValue of a non-persistent parameter, which only the RFC agent may set.
SetNonPersistent(k, v) ==
  /\ "np" \in Ops
  /\ Idle
  /\ jobs' = <<Rewrite("np", k, v)>>
  /\ sent' = IF updating THEN [sent EXCEPT ![k] = v] ELSE sent
  /\ UNCHANGED <<running, initDone, updating, cache, file, held, open, synced, wanted>>

Without(d, gone) == [k \in AllKeys |-> IF k \in gone THEN None ELSE d[k]]

\* Mutant of ClearValue: the main file is not rewritten.
ClearValueLocalOnly(p) ==
  LET gone == {k \in p : file["local"][k] # None} IN
  /\ "clearParam" \in Ops
  /\ updating => "clearInSession" \in Ops
  /\ Idle
  /\ ~held
  /\ held' = (gone # {})
  /\ cache' = [cache EXCEPT !["local"] = Without(file["local"], gone),
                            !["main"] = Without(@, gone)]
  /\ jobs' = IF gone = {} THEN <<>> ELSE <<Posting(Rewrite("local", None, None))>>
  /\ wanted' = Without(wanted, gone)
  /\ UNCHANGED <<running, initDone, updating, file, open, synced, sent>>

\* clearValue: the parameters of pattern p that the local file holds are
\* erased from both dictionaries and both files are rewritten.
ClearValue(p) ==
  LET gone == {k \in p : file["local"][k] # None} IN
  /\ "clearParam" \in Ops
  /\ updating => "clearInSession" \in Ops
  /\ Idle
  /\ ~held
  /\ held' = (gone # {})
  /\ cache' = [cache EXCEPT !["local"] = Without(file["local"], gone),
                            !["main"] = Without(@, gone)]
  /\ jobs' = IF gone = {} THEN <<>>
             ELSE <<Rewrite("local", None, None), Posting(Rewrite("main", None, None))>>
  /\ wanted' = Without(wanted, gone)
  /\ UNCHANGED <<running, initDone, updating, file, open, synced, sent>>
-----------------------------------------------------------------------------
(* The file operations.                                                    *)

Entered(j) ==
  IF j.key = None THEN cache[j.store] ELSE [cache[j.store] EXCEPT ![j.key] = j.val]

AppendLine ==
  /\ jobs # <<>>
  /\ Head(jobs).kind = "append"
  /\ file' = [file EXCEPT ![Head(jobs).store][Head(jobs).key] = Head(jobs).val]
  /\ jobs' = Tail(jobs)
  /\ UNCHANGED <<running, initDone, updating, cache, held, open, synced, sent, wanted>>

TruncateFile ==
  /\ jobs # <<>>
  /\ Head(jobs).kind = "truncate"
  /\ file' = [file EXCEPT ![Head(jobs).store] = NoEntries]
  /\ jobs' = Tail(jobs)
  /\ UNCHANGED <<running, initDone, updating, cache, held, open, synced, sent, wanted>>

\* writeHashToFile opens the file, which truncates it ...
OpenFile ==
  /\ jobs # <<>>
  /\ Head(jobs).kind = "rewrite"
  /\ ~open
  /\ open' = TRUE
  /\ file' = [file EXCEPT ![Head(jobs).store] = NoEntries]
  /\ UNCHANGED <<running, initDone, updating, cache, jobs, held, synced, sent, wanted>>

\* ... enters the value in the dictionary and writes the lines.
WriteFile ==
  /\ open
  /\ LET j == Head(jobs) IN
     /\ cache' = [cache EXCEPT ![j.store] = Entered(j)]
     /\ file' = [file EXCEPT ![j.store] = Entered(j)]
     /\ held' = (held /\ ~j.post)
  /\ open' = FALSE
  /\ jobs' = Tail(jobs)
  /\ UNCHANGED <<running, initDone, updating, synced, sent, wanted>>

\* Mutant of OpenFails: the failure paths return without sem_post.
OpenFailsNoPost ==
  /\ jobs # <<>>
  /\ ~open
  /\ <<Head(jobs).kind, Head(jobs).store>> \in IOFaults
  /\ LET refused == Head(jobs).store = "local" /\ Head(jobs).key # None IN
     /\ jobs' = IF refused THEN <<>> ELSE Tail(jobs)
     /\ wanted' = IF Head(jobs).store = "local" THEN file["local"] ELSE wanted
     /\ sent' = IF Head(jobs).kind = "append"
                THEN [sent EXCEPT ![Head(jobs).key] = file["main"][Head(jobs).key]] ELSE sent
  /\ UNCHANGED <<running, initDone, updating, cache, file, held, open, synced>>

\* The open fails.  A WebPA set whose local write failed is given up; the
\* other requests go on.  (A refused value is no longer expected.)
OpenFails ==
  /\ jobs # <<>>
  /\ ~open
  /\ <<Head(jobs).kind, Head(jobs).store>> \in IOFaults
  /\ LET refused == Head(jobs).store = "local" /\ Head(jobs).key # None IN
     /\ jobs' = IF refused THEN <<>> ELSE Tail(jobs)
     /\ held' = (held /\ ~Head(jobs).post)
     /\ wanted' = IF Head(jobs).store = "local" THEN file["local"] ELSE wanted
     /\ sent' = IF Head(jobs).kind = "append"
                THEN [sent EXCEPT ![Head(jobs).key] = file["main"][Head(jobs).key]] ELSE sent
  /\ UNCHANGED <<running, initDone, updating, cache, file, open, synced>>
-----------------------------------------------------------------------------
(* Around the process.                                                     *)

\* Another process sets a local value, within the semaphore, which a
\* request that rewrites the local file holds from its load to its write.
ExternalSet(k, v) ==
  /\ "external" \in Ops
  /\ ~held
  /\ file' = [file EXCEPT !["local"][k] = v]
  /\ wanted' = [wanted EXCEPT ![k] = v]
  /\ UNCHANGED <<running, initDone, updating, cache, jobs, held, open, synced, sent>>

\* The RFC agent reports that its values are in place.
SyncDone ==
  /\ ~synced
  /\ synced' = TRUE
  /\ UNCHANGED <<running, initDone, updating, cache, file, jobs, held, open, sent, wanted>>

\* Any subset of the lines of a file that was being written.
Torn(d) == {[k \in AllKeys |-> IF k \in kept THEN d[k] ELSE None] : kept \in SUBSET AllKeys}

Point == IF jobs = <<>> THEN "idle" ELSE IF held THEN "held" ELSE IF open THEN "open" ELSE "job"

\* A request has still to rewrite the local file, or is rewriting it.
LocalPending == \E i \in DOMAIN jobs : jobs[i].store = "local"

\* The process stops.  The semaphore outlives it; a reboot frees it and clears
\* /tmp.  A stop that cuts a rewriting of the local file short leaves what it
\* leaves, and nothing else is expected of it; any other stop must not touch
\* what the local file holds.
Stop ==
  /\ running
  /\ Point \in CrashPoints
  /\ \/ UNCHANGED <<held, synced>>
     \/ "reboot" \in Ops /\ held' = FALSE /\ synced' = FALSE
  /\ \/ ~open /\ file' = file
     \/ /\ open
        /\ \E d \in Torn(Entered(Head(jobs))) : file' = [file EXCEPT ![Head(jobs).store] = d]
  /\ wanted' = IF LocalPending THEN file'["local"] ELSE wanted
  /\ running' = FALSE
  /\ initDone' = FALSE
  /\ updating' = FALSE
  /\ cache' = [s \in Stores |-> NoEntries]
  /\ jobs' = <<>>
  /\ open' = FALSE
  /\ sent' = NoEntries
-----------------------------------------------------------------------------
Request ==
  \/ ClearAll \/ ReloadCache
  \/ \E k \in Keys, v \in Values : \/ SetWebpa(k, v)
                                   \/ \E s \in {"rfc", "iarm"} : SetValue(k, v, s)
  \/ \E k \in NPKeys, v \in Values : SetNonPersistent(k, v)
  \/ \E p \in Patterns : ClearValue(p)

FileStep == AppendLine \/ TruncateFile \/ OpenFile \/ WriteFile

Next ==
  \/ Start \/ InitAgain \/ Request \/ FileStep \/ OpenFails
  \/ \E k \in Keys, v \in Values : ExternalSet(k, v)
  \/ SyncDone \/ Stop

Spec == Init /\ [][Next]_vars

-----------------------------------------------------------------------------
(* Properties.                                                             *)

\* What an RFC session leaves behind for k: what the session set, else what
\* WebPA or another process keeps in the local file.
SessionResult(k) == IF sent[k] # None THEN sent[k] ELSE file["local"][k]

\* The end of a session serves exactly the result of the session: nothing of
\* an earlier session survives, no local value is lost, and what WebPA set
\* while the session ran is there.
SessionExact ==
  [][updating /\ ~updating' /\ running' => \A k \in Keys : cache'["main"][k] = SessionResult(k)]_vars

\* While a session runs, GET serves what it served before; the change comes
\* at once, with ClearDBEnd.
ServedStable ==
  [][updating /\ updating' => \A k \in Keys : cache'["main"][k] = cache["main"][k]]_vars

\* A value WebPA or another process put in the local file stays there until
\* it is replaced or cleared: no write works from a stale copy of the file, and
\* no failed open, no session and no stop of the process outside a rewriting of
\* that file takes it away.  (A stop within one may lose lines of others.)
LocalWritesKept == jobs = <<>> => file["local"] = wanted

\* Between requests and outside a session the main file and the non-persistent
\* file hold what GET serves, so a restart changes nothing.
RestartSafe ==
  Idle /\ ~updating => file["main"] = cache["main"] /\ file["np"] = cache["np"]

\* The semaphore is taken only while a request that will post it runs, so no
\* later start, load or set waits for it forever.
SemaphoreReturned == held => running /\ \E i \in DOMAIN jobs : jobs[i].post
============================================================================
