--------------------------- MODULE RFCStoreProofs ---------------------------
(* Theorems about the RFC store for every set of parameters, values,       *)
(* defaults, patterns, operations, crash points and I/O faults, checked by *)
(* TLAPS.  Each theorem states the operations and faults it excludes.      *)
EXTENDS RFCStore, SequenceTheorems, TLAPS

Job == [kind : {"rewrite", "append", "truncate"}, store : Stores,
        key : AllKeys \cup {None}, val : Values \cup {None}, post : BOOLEAN]

\* Type correctness of the store's state.
TypeOK ==
  /\ running \in BOOLEAN /\ initDone \in BOOLEAN /\ updating \in BOOLEAN
  /\ held \in BOOLEAN /\ open \in BOOLEAN /\ synced \in BOOLEAN
  /\ cache \in [Stores -> Dict]
  /\ file \in [Stores -> Dict]
  /\ sent \in Dict
  /\ wanted \in Dict
  /\ jobs \in Seq(Job)

(* The file operations that one request can still have before it.          *)

\* A set by the RFC agent within a session.
Appending ==
  /\ Len(jobs) = 1
  /\ jobs[1].kind = "append" /\ jobs[1].store = "main" /\ ~ jobs[1].post
  /\ jobs[1].key \in Keys /\ jobs[1].val \in Values
  /\ updating

\* ClearDB.
Truncating ==
  /\ Len(jobs) \in {1, 2} /\ updating
  /\ \A i \in 1..Len(jobs) : jobs[i].kind = "truncate" /\ ~ jobs[i].post
  /\ Len(jobs) = 2 => jobs[1].store = "main" /\ jobs[2].store = "np"
  /\ Len(jobs) = 1 => jobs[1].store = "np"

\* The set of a non-persistent parameter.
RewritingNp ==
  /\ Len(jobs) = 1
  /\ jobs[1].kind = "rewrite" /\ jobs[1].store = "np" /\ ~ jobs[1].post
  /\ jobs[1].key \in NPKeys /\ jobs[1].val \in Values

\* A set outside a session, ClearDBEnd, or the second half of a clear.
RewritingMain ==
  /\ Len(jobs) = 1
  /\ jobs[1].kind = "rewrite" /\ jobs[1].store = "main"
  /\ \/ jobs[1].key \in Keys /\ jobs[1].val \in Values /\ ~ jobs[1].post /\ ~ updating
     \/ jobs[1].key = None
  /\ updating => jobs[1].post /\ "clearInSession" \in Ops

\* A set by WebPA, with the main file to follow outside a session.
RewritingLocal ==
  /\ Len(jobs) \in {1, 2}
  /\ jobs[1].kind = "rewrite" /\ jobs[1].store = "local" /\ jobs[1].post
  /\ jobs[1].key \in Keys /\ jobs[1].val \in Values
  /\ Len(jobs) = 2 =>
       /\ jobs[2].kind = "rewrite" /\ jobs[2].store = "main" /\ ~ jobs[2].post
       /\ jobs[2].key \in Keys /\ jobs[2].val \in Values
       /\ ~ updating

\* A clear.
Clearing ==
  /\ Len(jobs) = 2
  /\ jobs[1].kind = "rewrite" /\ jobs[1].store = "local" /\ jobs[1].key = None /\ ~ jobs[1].post
  /\ jobs[2].kind = "rewrite" /\ jobs[2].store = "main" /\ jobs[2].key = None /\ jobs[2].post
  /\ updating => "clearInSession" \in Ops

\* The control state: what is pending, and who holds the semaphore for it.
JobsInv ==
  /\ jobs = <<>> \/ Appending \/ Truncating \/ RewritingNp \/ RewritingMain \/ RewritingLocal
     \/ Clearing
  /\ jobs # <<>> => running
  /\ updating => running /\ initDone
  /\ open => jobs # <<>> /\ jobs[1].kind = "rewrite"
  /\ \A i \in DOMAIN jobs : jobs[i].post => held
-----------------------------------------------------------------------------
LEMMA Singleton ==
  ASSUME NEW S, NEW a \in S
  PROVE  /\ <<a>> \in Seq(S) /\ Len(<<a>>) = 1 /\ <<a>>[1] = a /\ <<a>> # <<>>
         /\ <<a>> \o <<>> = <<a>>
<1>1. <<a>> \in Seq(S) /\ Len(<<a>>) = 1 /\ <<a>>[1] = a
  OBVIOUS
<1> QED
  BY Zenon, <1>1, ConcatEmptySeq

LEMMA Pair ==
  ASSUME NEW S, NEW a \in S, NEW b \in S
  PROVE  /\ <<a, b>> \in Seq(S) /\ Len(<<a, b>>) = 2 /\ <<a, b>>[1] = a /\ <<a, b>>[2] = b
         /\ <<a, b>> # <<>> /\ <<a>> \o <<b>> = <<a, b>>
<1>1. <<a, b>> \in Seq(S) /\ Len(<<a, b>>) = 2 /\ <<a, b>>[1] = a /\ <<a, b>>[2] = b
  OBVIOUS
<1>2. <<a>> \o <<b>> \in Seq(S) /\ Len(<<a>> \o <<b>>) = 2
  OBVIOUS
<1>3. (<<a>> \o <<b>>)[1] = a /\ (<<a>> \o <<b>>)[2] = b
  OBVIOUS
<1>4. \A i \in 1..Len(<<a>> \o <<b>>) : (<<a>> \o <<b>>)[i] = <<a, b>>[i]
  <2>1. \A i \in 1..2 : i = 1 \/ i = 2
    OBVIOUS
  <2> QED
    BY Zenon, <1>1, <1>2, <1>3, <2>1
<1>5. <<a>> \o <<b>> = <<a, b>>
  BY Zenon, <1>1, <1>2, <1>4, SeqEqual
<1> QED
  BY Zenon, <1>1, <1>5

LEMMA TailFacts ==
  ASSUME NEW S, NEW s \in Seq(S), s # <<>>
  PROVE  /\ Head(s) = s[1] /\ s[1] \in S
         /\ Tail(s) \in Seq(S) /\ Len(Tail(s)) = Len(s) - 1
         /\ Len(s) = 1 => Tail(s) = <<>>
         /\ Len(s) = 2 => Tail(s)[1] = s[2] /\ Tail(s) # <<>>
<1>1. Tail(s) \in Seq(S) /\ Len(Tail(s)) = Len(s) - 1 /\ Len(s) \in Nat \ {0}
  BY Zenon, HeadTailProperties, EmptySeq
<1>2. Head(s) = s[1] /\ s[1] \in S
  BY <1>1
<1>3. ASSUME Len(s) = 1 PROVE Tail(s) = <<>>
  <2>1. Len(Tail(s)) = 0
    BY <1>1, <1>3
  <2> QED
    BY Zenon, <1>1, <2>1, EmptySeq
<1>4. ASSUME Len(s) = 2 PROVE Tail(s)[1] = s[2] /\ Tail(s) # <<>>
  <2>1. Len(Tail(s)) = 1
    BY <1>1, <1>4
  <2>2. Tail(s)[1] = s[1 + 1]
    BY SMTT(30), <2>1, HeadTailProperties
  <2>3. Tail(s) # <<>>
    <3>1. Tail(s) = <<>> => Len(Tail(s)) = Len(<<>>)
      BY Zenon
    <3>2. Len(<<>>) = 0
      BY Zenon, EmptySeq
    <3> QED
      BY <2>1, <3>1, <3>2
  <2>4. 1 + 1 = 2
    OBVIOUS
  <2> QED
    BY Zenon, <2>2, <2>3, <2>4
<1> QED
  BY Zenon, <1>1, <1>2, <1>3, <1>4

LEMMA JobTypes ==
  ASSUME NEW s \in Stores, NEW k \in AllKeys \cup {None}, NEW v \in Values \cup {None}
  PROVE  /\ Rewrite(s, k, v) \in Job /\ Posting(Rewrite(s, k, v)) \in Job
         /\ AppendTo(s, k, v) \in Job /\ Truncate(s) \in Job
         /\ Posting(Rewrite(s, k, v)) = [Rewrite(s, k, v) EXCEPT !.post = TRUE]
  BY Zenon DEF Rewrite, AppendTo, Truncate, Posting, NewJob, Job

LEMMA DictUpdate ==
  ASSUME NEW d \in Dict, NEW k \in AllKeys, NEW v \in Values \cup {None}
  PROVE  [d EXCEPT ![k] = v] \in Dict
  BY Zenon DEF Dict

LEMMA NoEntriesType == NoEntries \in Dict
  BY Zenon DEF NoEntries, Dict

LEMMA EnteredType ==
  ASSUME TypeOK, NEW j \in Job
  PROVE  Entered(j) \in Dict
  BY Zenon, DictUpdate DEF TypeOK, Entered, Job

LEMMA TypeInit == Init => TypeOK /\ JobsInv
<1> SUFFICES ASSUME Init PROVE TypeOK /\ JobsInv
  BY Zenon
<1>1. TypeOK
  BY Zenon, NoEntriesType, EmptySeq DEF Init, TypeOK
<1>2. JobsInv
  BY DEF Init, JobsInv
<1> QED
  BY Zenon, <1>1, <1>2

LEMMA TypeNext ==
  ASSUME TypeOK, JobsInv, [Next]_vars
  PROVE  TypeOK'
<1> USE RFCAssumption, NoEntriesType DEF TypeOK, LoadResult
<1>1. <<>> \in Seq(Job)
  BY Zenon, EmptySeq
<1>2. CASE Start \/ InitAgain \/ SyncDone
  BY Zenon, <1>2 DEF Start, InitAgain, SyncDone
<1>3. CASE ClearAll
  <2>1. <<Truncate("main"), Truncate("np")>> \in Seq(Job)
    BY Zenon, JobTypes, Pair DEF Stores
  <2> QED
    BY Zenon, <1>3, <2>1 DEF ClearAll
<1>4. CASE ReloadCache
  <2>1. <<Rewrite("main", None, None)>> \in Seq(Job)
    BY Zenon, JobTypes, Singleton DEF Stores
  <2>2. Merged \in Dict
    BY Zenon DEF Merged, Dict, Stores
  <2> QED
    BY Zenon, <1>4, <2>1, <2>2 DEF ReloadCache
<1>5. ASSUME NEW k \in Keys, NEW v \in Values
      PROVE  MainJobs(k, v) \in Seq(Job)
  BY Zenon, <1>1, JobTypes, Singleton DEF MainJobs, Stores, AllKeys
<1>6. ASSUME NEW k \in Keys, NEW v \in Values, NEW s, SetValue(k, v, s) PROVE TypeOK'
  BY Zenon, <1>5, <1>6, DictUpdate DEF SetValue, AllKeys
<1>7. ASSUME NEW k \in Keys, NEW v \in Values, SetWebpa(k, v) PROVE TypeOK'
  <2>1. <<Posting(Rewrite("local", k, v))>> \in Seq(Job)
    BY Zenon, JobTypes, Singleton DEF Stores, AllKeys
  <2>2. jobs' \in Seq(Job)
    BY Zenon, <1>1, <1>5, <1>7, <2>1, ConcatProperties DEF SetWebpa
  <2> QED
    BY Zenon, <1>7, <2>2, DictUpdate DEF SetWebpa, AllKeys, Stores
<1>8. ASSUME NEW k \in NPKeys, NEW v \in Values, SetNonPersistent(k, v) PROVE TypeOK'
  <2>1. <<Rewrite("np", k, v)>> \in Seq(Job)
    BY Zenon, JobTypes, Singleton DEF Stores, AllKeys
  <2> QED
    BY Zenon, <1>8, <2>1, DictUpdate DEF SetNonPersistent, AllKeys
<1>9. ASSUME NEW p \in Patterns, ClearValue(p) PROVE TypeOK'
  <2>1. <<Rewrite("local", None, None), Posting(Rewrite("main", None, None))>> \in Seq(Job)
    BY Zenon, JobTypes, Pair DEF Stores
  <2>2. ASSUME NEW d \in Dict, NEW gone PROVE Without(d, gone) \in Dict
    BY Zenon DEF Without, Dict
  <2> QED
    BY Zenon, <1>1, <1>9, <2>1, <2>2 DEF ClearValue, Stores
<1>10. CASE FileStep
  <2>1. jobs # <<>>
    BY Zenon, <1>10 DEF FileStep, AppendLine, TruncateFile, OpenFile, WriteFile, JobsInv
  <2>2. Head(jobs) \in Job /\ Tail(jobs) \in Seq(Job)
    BY Zenon, <2>1, HeadTailProperties
  <2>3. Entered(Head(jobs)) \in Dict
    BY Zenon, <2>2, EnteredType
  <2>4. CASE AppendLine
    BY Zenon, <2>2, <2>4 DEF AppendLine, Job, Dict
  <2>5. CASE TruncateFile
    BY Zenon, <2>2, <2>5 DEF TruncateFile, Job
  <2>6. CASE OpenFile
    BY Zenon, <2>2, <2>6 DEF OpenFile, Job
  <2>7. CASE WriteFile
    BY Zenon, <2>2, <2>3, <2>7 DEF WriteFile, Job
  <2> QED
    BY Zenon, <1>10, <2>4, <2>5, <2>6, <2>7 DEF FileStep
<1>11. CASE OpenFails
  <2>1. Head(jobs) \in Job /\ Tail(jobs) \in Seq(Job)
    BY Zenon, <1>11, HeadTailProperties DEF OpenFails
  <2> QED
    BY ZenonT(40), <1>1, <1>11, <2>1 DEF OpenFails, Job, Dict, Stores
<1>12. ASSUME NEW k \in Keys, NEW v \in Values, ExternalSet(k, v) PROVE TypeOK'
  BY Zenon, <1>12, DictUpdate DEF ExternalSet, AllKeys, Stores
<1>13. CASE Stop
  <2>1. ASSUME open PROVE Torn(Entered(Head(jobs))) \subseteq Dict
    <3>1. Head(jobs) \in Job
      BY Zenon, <2>1, HeadTailProperties DEF JobsInv
    <3> QED
      BY <3>1, EnteredType DEF Torn, Dict
  <2>2. file' \in [Stores -> Dict]
    BY Zenon, <1>13, <2>1 DEF Stop
  <2> QED
    BY Zenon, <1>1, <1>13, <2>2 DEF Stop, Stores
<1>14. CASE UNCHANGED vars
  BY Zenon, <1>14 DEF vars
<1> QED
  BY Zenon, <1>2, <1>3, <1>4, <1>6, <1>7, <1>8, <1>9, <1>10, <1>11, <1>12, <1>13, <1>14
     DEF Next, Request
-----------------------------------------------------------------------------
LEMMA Lengths ==
  ASSUME NEW S, NEW s \in Seq(S)
  PROVE  Len(s) \in Nat /\ DOMAIN s = 1..Len(s) /\ (s = <<>> <=> Len(s) = 0)
<1>1. s = <<>> => Len(s) = Len(<<>>)
  BY Zenon
<1>2. Len(<<>>) = 0
  BY Zenon, EmptySeq
<1> QED
  BY Zenon, <1>1, <1>2, EmptySeq, LenProperties

LEMMA NewJobFields ==
  ASSUME NEW s, NEW k, NEW v
  PROVE  /\ Rewrite(s, k, v).kind = "rewrite" /\ Rewrite(s, k, v).store = s
         /\ Rewrite(s, k, v).key = k /\ Rewrite(s, k, v).val = v /\ ~ Rewrite(s, k, v).post
         /\ Posting(Rewrite(s, k, v)).kind = "rewrite" /\ Posting(Rewrite(s, k, v)).store = s
         /\ Posting(Rewrite(s, k, v)).key = k /\ Posting(Rewrite(s, k, v)).val = v
         /\ Posting(Rewrite(s, k, v)).post
         /\ AppendTo(s, k, v).kind = "append" /\ AppendTo(s, k, v).store = s
         /\ AppendTo(s, k, v).key = k /\ AppendTo(s, k, v).val = v /\ ~ AppendTo(s, k, v).post
         /\ Truncate(s).kind = "truncate" /\ Truncate(s).store = s /\ ~ Truncate(s).post
  BY Zenon DEF Rewrite, AppendTo, Truncate, Posting, NewJob

\* What a set of k to v leaves to do on the main file.
LEMMA MainJobsFacts ==
  ASSUME NEW k \in Keys, NEW v \in Values
  PROVE  \/ MainJobs(k, v) = <<>> /\ ~ updating /\ cache["main"][k] = v
         \/ MainJobs(k, v) = <<AppendTo("main", k, v)>> /\ updating
         \/ MainJobs(k, v) = <<Rewrite("main", k, v)>> /\ ~ updating
  BY Zenon DEF MainJobs

LEMMA JobsNext ==
  ASSUME TypeOK, JobsInv, [Next]_vars
  PROVE  JobsInv'
<1> USE DEF Appending, Truncating, RewritingNp, RewritingMain, RewritingLocal, Clearing, Idle
<1>0. jobs' \in Seq(Job)
  BY Zenon, TypeNext DEF TypeOK
<1>1. Len(jobs) \in Nat /\ DOMAIN jobs = 1..Len(jobs) /\ (jobs = <<>> <=> Len(jobs) = 0)
  BY Zenon, Lengths DEF TypeOK
<1>2. Len(jobs') \in Nat /\ DOMAIN jobs' = 1..Len(jobs') /\ (jobs' = <<>> <=> Len(jobs') = 0)
  BY Zenon, <1>0, Lengths
<1>3. "main" \in Stores /\ "local" \in Stores /\ "np" \in Stores
  BY Zenon DEF Stores
<1>4. CASE Start \/ InitAgain \/ SyncDone
  BY <1>4 DEF Start, InitAgain, SyncDone, JobsInv
<1>5. CASE ClearAll
  <2>1. /\ Len(jobs') = 2
        /\ jobs'[1] = Truncate("main") /\ jobs'[2] = Truncate("np")
    BY Zenon, <1>3, <1>5, Pair, JobTypes DEF ClearAll
  <2> QED
    BY <1>2, <1>5, <2>1, NewJobFields DEF ClearAll, JobsInv
<1>6. CASE ReloadCache
  <2>1. Len(jobs') = 1 /\ jobs'[1] = Rewrite("main", None, None)
    BY Zenon, <1>3, <1>6, Singleton, JobTypes DEF ReloadCache
  <2> QED
    BY <1>2, <1>6, <2>1, NewJobFields DEF ReloadCache, JobsInv
<1>7. ASSUME NEW k \in Keys, NEW v \in Values
      PROVE  \/ MainJobs(k, v) = <<>> /\ ~ updating
             \/ /\ Len(MainJobs(k, v)) = 1 /\ MainJobs(k, v)[1] = AppendTo("main", k, v)
                /\ updating
             \/ /\ Len(MainJobs(k, v)) = 1 /\ MainJobs(k, v)[1] = Rewrite("main", k, v)
                /\ ~ updating
  BY Zenon, <1>3, MainJobsFacts, Singleton, JobTypes DEF AllKeys
<1>8. ASSUME NEW k \in Keys, NEW v \in Values, NEW s, SetValue(k, v, s) PROVE JobsInv'
  BY <1>2, <1>7, <1>8, NewJobFields DEF SetValue, JobsInv
<1>9. ASSUME NEW k \in Keys, NEW v \in Values, SetWebpa(k, v) PROVE JobsInv'
  <2>1. \/ jobs' = <<Posting(Rewrite("local", k, v))>>
        \/ ~ updating /\ jobs' = <<Posting(Rewrite("local", k, v)), Rewrite("main", k, v)>>
    <3> DEFINE a == Posting(Rewrite("local", k, v))
               b == Rewrite("main", k, v)
    <3>1. a \in Job /\ b \in Job
      BY Zenon, <1>3, JobTypes DEF AllKeys
    <3> HIDE DEF a, b
    <3>2. <<a>> \o <<>> = <<a>> /\ <<a>> \o <<b>> = <<a, b>>
      BY <3>1, Singleton, Pair
    <3>3. jobs' = <<a>> \o (IF updating THEN <<>> ELSE MainJobs(k, v))
      BY Zenon, <1>9 DEF SetWebpa, a
    <3>4. ~ updating => MainJobs(k, v) \in {<<>>, <<b>>}
      BY Zenon, MainJobsFacts DEF b
    <3>5. jobs' = <<a>> \/ (~ updating /\ jobs' = <<a, b>>)
      BY Zenon, <3>2, <3>3, <3>4
    <3> QED
      BY Zenon, <3>5 DEF a, b
  <2>2. /\ Len(jobs') \in {1, 2} /\ jobs'[1] = Posting(Rewrite("local", k, v))
        /\ Len(jobs') = 2 => ~ updating /\ jobs'[2] = Rewrite("main", k, v)
    BY <1>3, <2>1, Singleton, Pair, JobTypes DEF AllKeys
  <2> QED
    BY <1>2, <1>9, <2>2, NewJobFields DEF SetWebpa, JobsInv
<1>10. ASSUME NEW k \in NPKeys, NEW v \in Values, SetNonPersistent(k, v) PROVE JobsInv'
  <2>1. Len(jobs') = 1 /\ jobs'[1] = Rewrite("np", k, v)
    BY Zenon, <1>3, <1>10, Singleton, JobTypes DEF SetNonPersistent, AllKeys
  <2> QED
    BY <1>2, <1>10, <2>1, NewJobFields DEF SetNonPersistent, JobsInv
<1>11. ASSUME NEW p \in Patterns, ClearValue(p) PROVE JobsInv'
  <2>1. \/ jobs' = <<>>
        \/ /\ Len(jobs') = 2 /\ held'
           /\ jobs'[1] = Rewrite("local", None, None)
           /\ jobs'[2] = Posting(Rewrite("main", None, None))
    BY Zenon, <1>3, <1>11, Pair, JobTypes DEF ClearValue
  <2> QED
    BY <1>2, <1>11, <2>1, NewJobFields DEF ClearValue, JobsInv
<1>12. ASSUME jobs # <<>>
       PROVE  /\ Head(jobs) = jobs[1] /\ Len(Tail(jobs)) = Len(jobs) - 1
              /\ Len(jobs) = 1 => Tail(jobs) = <<>>
              /\ Len(jobs) = 2 => Tail(jobs)[1] = jobs[2] /\ Tail(jobs) # <<>>
  BY Zenon, <1>12, TailFacts DEF TypeOK
<1>13. CASE AppendLine
  BY SMTT(30), <1>2, <1>12, <1>13 DEF AppendLine, JobsInv
<1>14. CASE TruncateFile
  <2>1. CASE Len(jobs) = 1
    BY <1>2, <1>12, <1>14, <2>1 DEF TruncateFile, JobsInv
  <2>2. CASE Len(jobs) = 2
    <3>1. Truncating
      BY Zenon, <1>12, <1>14, <2>2 DEF TruncateFile, JobsInv
    <3>2. Len(jobs') = 1 /\ jobs'[1] = jobs[2] /\ updating' = updating
      BY <1>12, <1>14, <2>2 DEF TruncateFile
    <3>3. jobs[2].kind = "truncate" /\ ~ jobs[2].post /\ jobs[2].store = "np"
      BY <2>2, <3>1
    <3>4. Truncating' /\ \A i \in DOMAIN jobs' : ~ jobs'[i].post
      BY <1>2, <3>1, <3>2, <3>3
    <3> QED
      BY <1>14, <3>4 DEF TruncateFile, JobsInv
  <2> QED
    BY Zenon, <1>1, <1>14, <2>1, <2>2 DEF TruncateFile, JobsInv
<1>15. CASE OpenFile
  BY Zenon, <1>12, <1>15 DEF OpenFile, JobsInv
<1>16. CASE WriteFile
  <2>1. CASE Len(jobs) = 1
    BY <1>1, <1>2, <1>12, <1>16, <2>1 DEF WriteFile, JobsInv
  <2>2. CASE Len(jobs) = 2
    <3>1. RewritingLocal \/ Clearing
      BY <1>12, <1>16, <2>2 DEF WriteFile, JobsInv
    <3>2. Len(jobs') = 1 /\ jobs'[1] = jobs[2] /\ updating' = updating /\ jobs' # <<>>
      BY <1>2, <1>12, <1>16, <2>2 DEF WriteFile, JobsInv
    <3>3. held' <=> held /\ ~ jobs[1].post
      BY Zenon, <1>12, <1>16, <2>2 DEF WriteFile, JobsInv
    <3>4. held
      BY <1>1, <2>2, <3>1 DEF JobsInv
    <3>5. RewritingMain'
      BY Zenon, <2>2, <3>1, <3>2
    <3>6. \A i \in DOMAIN jobs' : jobs'[i].post => held'
      BY <1>2, <2>2, <3>1, <3>2, <3>3, <3>4
    <3> QED
      BY <1>16, <2>2, <3>2, <3>5, <3>6 DEF WriteFile, JobsInv
  <2> QED
    BY Zenon, <1>1, <1>16, <2>1, <2>2 DEF WriteFile, JobsInv
<1>17. CASE OpenFails
  <2>1. CASE Len(jobs) = 1
    BY <1>1, <1>2, <1>12, <1>17, <2>1 DEF OpenFails, JobsInv
  <2>2. CASE Len(jobs) = 2
    <3> DEFINE refused == jobs[1].store = "local" /\ jobs[1].key # None
    <3>1. Head(jobs) = jobs[1] /\ jobs # <<>> /\ ~ open
      BY Zenon, <1>12, <1>17 DEF OpenFails
    <3>2. (held' <=> held /\ ~ jobs[1].post) /\ UNCHANGED <<running, initDone, updating, open>>
      BY ZenonT(40), <1>17, <3>1 DEF OpenFails
    <3>3. CASE refused
      BY <1>2, <1>17, <3>1, <3>2, <3>3 DEF OpenFails, JobsInv
    <3>4. CASE ~ refused
      <4>1. Len(jobs') = 1 /\ jobs'[1] = jobs[2] /\ jobs' # <<>>
        BY <1>2, <1>12, <1>17, <2>2, <3>1, <3>4 DEF OpenFails
      <4>2. Truncating \/ Clearing
        BY <2>2, <3>1, <3>4, RFCAssumption DEF JobsInv, AllKeys
      <4>3. CASE Truncating
        <5>1. jobs[2].kind = "truncate" /\ ~ jobs[2].post /\ jobs[2].store = "np"
          BY <2>2, <4>3
        <5>2. Truncating' /\ \A i \in DOMAIN jobs' : ~ jobs'[i].post
          BY <1>2, <3>2, <4>1, <4>3, <5>1
        <5> QED
          BY Zenon, <3>1, <3>2, <5>2 DEF JobsInv
      <4>4. CASE Clearing
        <5>1. held /\ held'
          BY <1>1, <2>2, <3>2, <4>4 DEF JobsInv
        <5>2. RewritingMain'
          BY Zenon, <3>2, <4>1, <4>4
        <5> QED
          BY Zenon, <3>1, <3>2, <5>1, <5>2 DEF JobsInv
      <4> QED
        BY Zenon, <4>2, <4>3, <4>4
    <3> QED
      BY Zenon, <3>3, <3>4
  <2> QED
    BY ZenonT(40), <1>1, <1>17, <2>1, <2>2 DEF OpenFails, JobsInv
<1>18. ASSUME NEW k \in Keys, NEW v \in Values, ExternalSet(k, v) PROVE JobsInv'
  BY Zenon, <1>18 DEF ExternalSet, JobsInv
<1>19. CASE Stop
  BY <1>2, <1>19 DEF Stop, JobsInv
<1>20. CASE UNCHANGED vars
  BY Zenon, <1>20 DEF vars, JobsInv
<1> QED
  BY Zenon, <1>4, <1>5, <1>6, <1>8, <1>9, <1>10, <1>11, <1>13, <1>14, <1>15, <1>16, <1>17, <1>18,
     <1>19, <1>20 DEF Next, Request, FileStep

\* The first pending operation and what remains after it.
LEMMA HeadJob ==
  ASSUME TypeOK, JobsInv, jobs # <<>>
  PROVE  /\ Head(jobs) = jobs[1] /\ jobs[1] \in Job
         /\ Len(jobs) \in {1, 2}
         /\ Len(jobs) = 1 => Tail(jobs) = <<>>
         /\ Len(jobs) = 2 =>
              Tail(jobs) # <<>> /\ DOMAIN Tail(jobs) = 1..1 /\ Tail(jobs)[1] = jobs[2]
<1>1. Len(jobs) \in {1, 2}
  BY Zenon DEF JobsInv, Appending, Truncating, RewritingNp, RewritingMain, RewritingLocal, Clearing
<1>2. ASSUME Len(jobs) = 2 PROVE DOMAIN Tail(jobs) = 1..1
  <2>1. Tail(jobs) \in Seq(Job) /\ Len(Tail(jobs)) = 1
    BY <1>2, TailFacts DEF TypeOK
  <2> QED
    BY Zenon, <2>1, Lengths
<1> QED
  BY Zenon, <1>1, <1>2, TailFacts DEF TypeOK
-----------------------------------------------------------------------------
(* The local file.                                                         *)

\* The local file holds what its writers expect, or the rewrite that is first
\* to come will put that there.
LocalInv ==
  IF jobs # <<>> /\ jobs[1].store = "local" THEN wanted = Entered(jobs[1])
  ELSE file["local"] = wanted

LEMMA LocalNext ==
  ASSUME TypeOK, JobsInv, LocalInv, [Next]_vars
  PROVE  LocalInv'
<1>0. JobsInv' /\ TypeOK'
  BY Zenon, TypeNext, JobsNext
<1>1. CASE Start \/ InitAgain \/ SyncDone
  <2>1. jobs = <<>> \/ UNCHANGED cache
    BY Zenon, <1>1 DEF Start, InitAgain, SyncDone, JobsInv
  <2> QED
    BY Zenon, <1>1, <2>1 DEF Start, InitAgain, SyncDone, LocalInv, Entered
<1>2. CASE ClearAll
  <2>1. jobs'[1] = Truncate("main")
    BY Zenon, <1>2, Pair, JobTypes DEF ClearAll, Stores
  <2> QED
    BY <1>2, <2>1, NewJobFields DEF ClearAll, LocalInv, Idle
<1>3. CASE ReloadCache
  <2>1. jobs'[1] = Rewrite("main", None, None)
    BY Zenon, <1>3, Singleton, JobTypes DEF ReloadCache, Stores
  <2> QED
    BY <1>3, <2>1, NewJobFields DEF ReloadCache, LocalInv, Idle
<1>4. ASSUME NEW k \in Keys, NEW v \in Values, NEW s, SetValue(k, v, s) PROVE LocalInv'
  <2>1. jobs' = <<>> \/ jobs'[1] \in {AppendTo("main", k, v), Rewrite("main", k, v)}
    BY Zenon, <1>4, MainJobsFacts, Singleton, JobTypes DEF SetValue, Stores, AllKeys
  <2> QED
    BY <1>4, <2>1, NewJobFields DEF SetValue, LocalInv, Idle
<1>5. ASSUME NEW k \in Keys, NEW v \in Values, SetWebpa(k, v) PROVE LocalInv'
  <2> DEFINE j == Posting(Rewrite("local", k, v))
             m == IF updating THEN <<>> ELSE MainJobs(k, v)
  <2>1. j \in Job /\ <<j>> \in Seq(Job) /\ Len(<<j>>) = 1 /\ <<j>>[1] = j
    BY Zenon, JobTypes, Singleton DEF Stores, AllKeys
  <2>2. m \in Seq(Job)
    <3>1. <<>> \in Seq(Job)
      BY Zenon, EmptySeq
    <3>2. MainJobs(k, v) \in Seq(Job)
      BY Zenon, <3>1, Singleton, JobTypes DEF MainJobs, Stores, AllKeys
    <3> QED
      BY Zenon, <3>1, <3>2
  <2>3. jobs' = <<j>> \o m
    BY Zenon, <1>5 DEF SetWebpa
  <2> HIDE DEF m
  <2>4. jobs' # <<>> /\ jobs'[1] = j
    BY <2>1, <2>2, <2>3, ConcatProperties, Lengths
  <2>5. j.store = "local" /\ j.key = k /\ j.val = v /\ k # None
    BY NewJobFields, RFCAssumption DEF AllKeys
  <2>6. cache'["local"] = file["local"] /\ file["local"] = wanted
    BY Zenon, <1>5 DEF SetWebpa, LocalInv, Idle, TypeOK, Stores
  <2>7. wanted' = [cache'["local"] EXCEPT ![k] = v]
    BY Zenon, <1>5, <2>6 DEF SetWebpa
  <2> QED
    BY Zenon, <2>4, <2>5, <2>7 DEF LocalInv, Entered
<1>6. ASSUME NEW k \in NPKeys, NEW v \in Values, SetNonPersistent(k, v) PROVE LocalInv'
  <2>1. jobs'[1] = Rewrite("np", k, v)
    BY Zenon, <1>6, Singleton, JobTypes DEF SetNonPersistent, Stores, AllKeys
  <2> QED
    BY <1>6, <2>1, NewJobFields DEF SetNonPersistent, LocalInv, Idle
<1>7. ASSUME NEW p \in Patterns, ClearValue(p) PROVE LocalInv'
  <2> DEFINE gone == {k \in p : file["local"][k] # None}
  <2>1. file["local"] = wanted /\ file' = file /\ wanted' = Without(wanted, gone)
    BY Zenon, <1>7 DEF ClearValue, LocalInv, Idle
  <2>2. CASE gone = {}
    <3>1. wanted' = wanted
      BY Zenon, <2>1, <2>2 DEF Without, TypeOK, Dict
    <3> QED
      BY Zenon, <1>7, <2>1, <2>2, <3>1 DEF ClearValue, LocalInv
  <2>3. CASE gone # {}
    <3>1. jobs' # <<>> /\ jobs'[1] = Rewrite("local", None, None)
      BY Zenon, <1>7, <2>3, Pair, JobTypes DEF ClearValue, Stores
    <3>2. cache'["local"] = Without(file["local"], gone)
      BY Zenon, <1>7 DEF ClearValue, TypeOK, Stores
    <3> QED
      BY <2>1, <3>1, <3>2, NewJobFields DEF LocalInv, Entered
  <2> QED
    BY Zenon, <2>2, <2>3
<1>8. ASSUME jobs # <<>>, jobs' = Tail(jobs) PROVE jobs' = <<>> \/ jobs'[1].store # "local"
  <2>1. jobs' = <<>> \/ (Len(jobs) = 2 /\ jobs'[1] = jobs[2])
    BY Zenon, <1>8, HeadJob
  <2> QED
    BY <2>1 DEF JobsInv, Appending, Truncating, RewritingNp, RewritingMain, RewritingLocal,
       Clearing
<1>9. CASE AppendLine \/ TruncateFile
  <2>1. jobs # <<>> /\ jobs[1].store \in {"main", "np"} /\ Head(jobs) = jobs[1]
    BY Zenon, <1>9, HeadJob DEF AppendLine, TruncateFile, JobsInv, Appending, Truncating, RewritingNp,
       RewritingMain, RewritingLocal, Clearing
  <2>2. file'["local"] = file["local"] /\ UNCHANGED wanted /\ jobs' = Tail(jobs)
    BY Zenon, <1>9, <2>1 DEF AppendLine, TruncateFile, TypeOK, Stores
  <2> QED
    BY Zenon, <1>8, <2>1, <2>2 DEF LocalInv
<1>10. CASE OpenFile
  <2>1. Head(jobs) = jobs[1]
    BY Zenon, <1>10, HeadJob DEF OpenFile
  <2>2. jobs[1].store # "local" => file'["local"] = file["local"]
    BY Zenon, <1>10, <2>1 DEF OpenFile, TypeOK, Stores
  <2> QED
    BY Zenon, <1>10, <2>1, <2>2 DEF OpenFile, LocalInv, Entered
<1>11. CASE WriteFile
  <2>1. jobs # <<>> /\ Head(jobs) = jobs[1] /\ jobs[1] \in Job
    BY Zenon, <1>11, HeadJob DEF WriteFile, JobsInv
  <2>2. jobs[1].store # "local" => file'["local"] = file["local"]
    BY Zenon, <1>11, <2>1 DEF WriteFile, TypeOK, Stores
  <2>3. jobs[1].store = "local" => file'["local"] = Entered(jobs[1])
    BY Zenon, <1>11, <2>1 DEF WriteFile, TypeOK, Stores
  <2>4. jobs' = Tail(jobs) /\ UNCHANGED wanted
    BY Zenon, <1>11 DEF WriteFile
  <2> QED
    BY Zenon, <1>8, <2>1, <2>2, <2>3, <2>4 DEF LocalInv
<1>12. CASE OpenFails
  <2>1. jobs # <<>> /\ Head(jobs) = jobs[1]
    BY Zenon, <1>12, HeadJob DEF OpenFails
  <2>2. jobs' = <<>> \/ jobs'[1].store # "local"
    BY Zenon, <1>8, <1>12 DEF OpenFails
  <2> QED
    BY Zenon, <1>12, <2>1, <2>2 DEF OpenFails, LocalInv
<1>13. ASSUME NEW k \in Keys, NEW v \in Values, ExternalSet(k, v) PROVE LocalInv'
  <2>1. jobs = <<>> \/ jobs[1].store # "local"
    <3>1. DOMAIN jobs = 1..Len(jobs)
      BY Zenon, Lengths DEF TypeOK
    <3> QED
      BY <1>13, <3>1 DEF ExternalSet, JobsInv, Appending, Truncating, RewritingNp,
         RewritingMain, RewritingLocal, Clearing
  <2> QED
    BY Zenon, <1>13, <2>1 DEF ExternalSet, LocalInv, TypeOK, Stores
<1>14. CASE Stop
  <2>1. jobs' = <<>>
    BY Zenon, <1>14 DEF Stop
  <2>2. CASE LocalPending
    BY Zenon, <1>14, <2>1, <2>2 DEF Stop, LocalInv
  <2>3. CASE ~ LocalPending
    <3>1. jobs = <<>> \/ (1 \in DOMAIN jobs /\ jobs[1].store # "local" /\ Head(jobs) = jobs[1])
      <4>1. jobs # <<>> => 1 \in DOMAIN jobs
        BY HeadJob, Lengths DEF TypeOK
      <4> QED
        BY Zenon, <2>3, <4>1, HeadJob DEF LocalPending
    <3>2. file["local"] = wanted
      BY Zenon, <3>1 DEF LocalInv
    <3>3. open => jobs # <<>>
      BY Zenon DEF JobsInv
    <3>4. file'["local"] = file["local"]
      BY Zenon, <1>14, <3>1, <3>3 DEF Stop, TypeOK, Stores
    <3> QED
      BY Zenon, <1>14, <2>1, <2>3, <3>2, <3>4 DEF Stop, LocalInv
  <2> QED
    BY Zenon, <2>2, <2>3
<1>15. CASE UNCHANGED vars
  BY Zenon, <1>15 DEF vars, LocalInv, Entered
<1> QED
  BY Zenon, <1>1, <1>2, <1>3, <1>4, <1>5, <1>6, <1>7, <1>9, <1>10, <1>11, <1>12, <1>13, <1>14, <1>15
     DEF Next, Request, FileStep

\* What WebPA or another process put in the local file is there whenever no
\* request is under way, whichever opens fail and wherever the process stops,
\* unless it stops before a request has rewritten the local file: what such a
\* stop leaves of the file is taken as it is.
THEOREM LocalKept == Spec => []LocalWritesKept
<1>1. Init => LocalInv
  BY Zenon DEF Init, LocalInv, Stores
<1>2. LocalInv => LocalWritesKept
  BY Zenon DEF LocalInv, LocalWritesKept
<1>3. TypeOK /\ JobsInv /\ LocalInv /\ [Next]_vars => (TypeOK /\ JobsInv /\ LocalInv)'
  BY Zenon, TypeNext, JobsNext, LocalNext
<1> QED
  BY <1>1, <1>2, <1>3, TypeInit, PTL DEF Spec
-----------------------------------------------------------------------------
(* The semaphore.                                                          *)

\* The process never stops while it holds the semaphore.
NoStopHeld == "held" \notin CrashPoints

LEMMA SemaphoreNext ==
  ASSUME NoStopHeld, TypeOK, JobsInv, SemaphoreReturned, [Next]_vars
  PROVE  SemaphoreReturned'
<1>0. jobs = <<>> => ~ held
  BY DEF SemaphoreReturned
<1>1. DOMAIN jobs = 1..Len(jobs) /\ DOMAIN jobs' = 1..Len(jobs')
  BY Zenon, TypeNext, Lengths DEF TypeOK
<1>2. CASE Start \/ InitAgain \/ SyncDone
  BY Zenon, <1>2 DEF Start, InitAgain, SyncDone, SemaphoreReturned
<1>3. CASE ClearAll \/ ReloadCache
  BY Zenon, <1>0, <1>3 DEF ClearAll, ReloadCache, Idle, SemaphoreReturned
<1>4. ASSUME NEW k \in Keys, NEW v \in Values, NEW s, SetValue(k, v, s) PROVE SemaphoreReturned'
  BY Zenon, <1>0, <1>4 DEF SetValue, Idle, SemaphoreReturned
<1>5. ASSUME NEW k \in Keys, NEW v \in Values, SetWebpa(k, v) PROVE SemaphoreReturned'
  <2> DEFINE j == Posting(Rewrite("local", k, v))
             m == IF updating THEN <<>> ELSE MainJobs(k, v)
  <2>1. <<j>> \in Seq(Job) /\ Len(<<j>>) = 1 /\ <<j>>[1] = j /\ j.post
    BY Zenon, JobTypes, Singleton, NewJobFields DEF Stores, AllKeys
  <2>2. m \in Seq(Job)
    <3>1. <<>> \in Seq(Job)
      BY Zenon, EmptySeq
    <3>2. MainJobs(k, v) \in Seq(Job)
      BY Zenon, <3>1, Singleton, JobTypes DEF MainJobs, Stores, AllKeys
    <3> QED
      BY Zenon, <3>1, <3>2
  <2>3. jobs' = <<j>> \o m
    BY Zenon, <1>5 DEF SetWebpa
  <2> HIDE DEF m, j
  <2>4. 1 \in DOMAIN jobs' /\ jobs'[1] = j
    BY <1>1, <2>1, <2>2, <2>3, ConcatProperties, Lengths
  <2> QED
    BY Zenon, <1>5, <2>1, <2>4 DEF SetWebpa, Idle, SemaphoreReturned
<1>6. ASSUME NEW k \in NPKeys, NEW v \in Values, SetNonPersistent(k, v) PROVE SemaphoreReturned'
  BY Zenon, <1>0, <1>6 DEF SetNonPersistent, Idle, SemaphoreReturned
<1>7. ASSUME NEW p \in Patterns, ClearValue(p) PROVE SemaphoreReturned'
  <2>1. ASSUME held'
        PROVE  Len(jobs') = 2 /\ jobs'[2] = Posting(Rewrite("main", None, None))
    BY Zenon, <1>7, <2>1, Pair, JobTypes DEF ClearValue, Stores
  <2> QED
    BY <1>1, <1>7, <2>1, NewJobFields DEF ClearValue, Idle, SemaphoreReturned
<1>8. ASSUME jobs # <<>>
      PROVE  /\ Head(jobs) = jobs[1]
             /\ held => running /\ (jobs[1].post \/ (Len(jobs) = 2 /\ jobs[2].post))
             /\ Len(jobs) = 2 => DOMAIN Tail(jobs) = 1..1 /\ Tail(jobs)[1] = jobs[2]
  <2>1. Head(jobs) = jobs[1] /\ Len(jobs) \in {1, 2}
    BY Zenon, <1>8, HeadJob
  <2>2. Len(jobs) = 2 => DOMAIN Tail(jobs) = 1..1 /\ Tail(jobs)[1] = jobs[2]
    BY Zenon, <1>8, HeadJob
  <2>3. \A i \in DOMAIN jobs : i = 1 \/ (i = 2 /\ Len(jobs) = 2)
    BY <1>1, <2>1
  <2> QED
    BY Zenon, <2>1, <2>2, <2>3 DEF SemaphoreReturned
<1>9. CASE AppendLine \/ TruncateFile
  <2>1. jobs # <<>> /\ ~ jobs[1].post /\ (Len(jobs) = 2 => ~ jobs[2].post)
    BY <1>8, <1>9 DEF AppendLine, TruncateFile, JobsInv, Appending, Truncating, RewritingNp,
       RewritingMain, RewritingLocal, Clearing
  <2>2. ~ held /\ held' = held
    BY Zenon, <1>8, <1>9, <2>1 DEF AppendLine, TruncateFile
  <2> QED
    BY Zenon, <2>2 DEF SemaphoreReturned
<1>10. CASE OpenFile
  BY Zenon, <1>10 DEF OpenFile, SemaphoreReturned
<1>11. CASE WriteFile
  <2>1. jobs # <<>> /\ jobs' = Tail(jobs) /\ (held' <=> held /\ ~ jobs[1].post) /\ running' = running
    BY Zenon, <1>8, <1>11 DEF WriteFile, JobsInv
  <2>2. ASSUME held' PROVE running' /\ jobs' = Tail(jobs) /\ Len(jobs) = 2 /\ jobs[2].post
    BY Zenon, <1>8, <2>1, <2>2
  <2>3. ASSUME held' PROVE 1 \in DOMAIN jobs' /\ jobs'[1].post
    BY <1>8, <2>1, <2>2, <2>3
  <2> QED
    BY Zenon, <2>2, <2>3 DEF SemaphoreReturned
<1>12. CASE OpenFails
  <2>1. /\ jobs # <<>> /\ (held' <=> held /\ ~ jobs[1].post) /\ running' = running
        /\ jobs' = IF jobs[1].store = "local" /\ jobs[1].key # None THEN <<>> ELSE Tail(jobs)
    BY Zenon, <1>8, <1>12 DEF OpenFails
  <2>2. jobs[1].store = "local" /\ jobs[1].key # None => jobs[1].post
    BY Zenon, <2>1 DEF JobsInv, Appending, Truncating, RewritingNp, RewritingMain, RewritingLocal,
       Clearing
  <2>3. ASSUME held' PROVE running' /\ jobs' = Tail(jobs) /\ Len(jobs) = 2 /\ jobs[2].post
    BY Zenon, <1>8, <2>1, <2>2, <2>3
  <2>4. ASSUME held' PROVE 1 \in DOMAIN jobs' /\ jobs'[1].post
    BY <1>8, <2>1, <2>3, <2>4
  <2> QED
    BY Zenon, <2>3, <2>4 DEF SemaphoreReturned
<1>13. ASSUME NEW k \in Keys, NEW v \in Values, ExternalSet(k, v) PROVE SemaphoreReturned'
  BY Zenon, <1>13 DEF ExternalSet, SemaphoreReturned
<1>14. CASE Stop
  <2>1. ~ held
    BY Zenon, <1>0, <1>14 DEF Stop, Point, NoStopHeld
  <2> QED
    BY Zenon, <1>14, <2>1 DEF Stop, SemaphoreReturned
<1>15. CASE UNCHANGED vars
  BY Zenon, <1>15 DEF vars, SemaphoreReturned
<1> QED
  BY Zenon, <1>2, <1>3, <1>4, <1>5, <1>6, <1>7, <1>9, <1>10, <1>11, <1>12, <1>13, <1>14, <1>15
     DEF Next, Request, FileStep

\* The semaphore is given back on every path, the failure paths included, as
\* long as the process does not stop while it holds it.
THEOREM SemaphorePosted ==
  ASSUME NoStopHeld
  PROVE  Spec => []SemaphoreReturned
<1>1. Init => SemaphoreReturned
  BY Zenon DEF Init, SemaphoreReturned
<1>2. TypeOK /\ JobsInv /\ SemaphoreReturned /\ [Next]_vars
        => (TypeOK /\ JobsInv /\ SemaphoreReturned)'
  BY Zenon, TypeNext, JobsNext, SemaphoreNext
<1> QED
  BY <1>1, <1>2, TypeInit, PTL DEF Spec
-----------------------------------------------------------------------------
(* What a restart finds.                                                   *)

\* The main and the non-persistent file can be opened for rewriting.
FilesWritable == <<"rewrite", "main">> \notin IOFaults /\ <<"rewrite", "np">> \notin IOFaults

\* Outside a session a file and its dictionary differ only while the rewrite
\* of the file is the next thing to do, or comes next in a clear.
FilesInv ==
  running /\ ~ updating =>
    /\ jobs = <<>> \/ jobs[1].store = "np" \/ (jobs[1].store = "local" /\ jobs[1].key # None)
         => file["main"] = cache["main"]
    /\ jobs = <<>> \/ jobs[1].store # "np" => file["np"] = cache["np"]

LEMMA FilesNext ==
  ASSUME FilesWritable, TypeOK, JobsInv, FilesInv, [Next]_vars
  PROVE  FilesInv'
<1> USE DEF Stores
<1>1. CASE Start \/ InitAgain
  BY Zenon, <1>1 DEF Start, InitAgain, FilesInv
<1>2. CASE SyncDone
  BY Zenon, <1>2 DEF SyncDone, FilesInv
<1>3. CASE ClearAll
  BY Zenon, <1>3 DEF ClearAll, FilesInv
<1>4. CASE ReloadCache
  <2>1. jobs' # <<>> /\ jobs'[1] = Rewrite("main", None, None)
    BY Zenon, <1>4, Singleton, JobTypes DEF ReloadCache
  <2>2. cache'["np"] = file["np"] /\ file' = file
    BY Zenon, <1>4 DEF ReloadCache, TypeOK
  <2> QED
    BY <2>1, <2>2, NewJobFields DEF FilesInv
<1>5. ASSUME NEW k \in Keys, NEW v \in Values, NEW s, SetValue(k, v, s) PROVE FilesInv'
  <2>1. ~ updating => jobs' = <<>> \/ jobs'[1] = Rewrite("main", k, v)
    BY Zenon, <1>5, MainJobsFacts, Singleton, JobTypes DEF SetValue, AllKeys
  <2> QED
    BY Zenon, <1>5, <2>1, NewJobFields DEF SetValue, FilesInv, Idle
<1>6. ASSUME NEW k \in Keys, NEW v \in Values, SetWebpa(k, v) PROVE FilesInv'
  <2>1. cache'["main"] = cache["main"] /\ cache'["np"] = cache["np"]
    BY Zenon, <1>6 DEF SetWebpa, TypeOK
  <2> QED
    BY Zenon, <1>6, <2>1 DEF SetWebpa, FilesInv, Idle
<1>7. ASSUME NEW k \in NPKeys, NEW v \in Values, SetNonPersistent(k, v) PROVE FilesInv'
  <2>1. jobs' # <<>> /\ jobs'[1] = Rewrite("np", k, v)
    BY Zenon, <1>7, Singleton, JobTypes DEF SetNonPersistent, AllKeys
  <2> QED
    BY Zenon, <1>7, <2>1, NewJobFields DEF SetNonPersistent, FilesInv, Idle
<1>8. ASSUME NEW p \in Patterns, ClearValue(p) PROVE FilesInv'
  <2> DEFINE gone == {k \in p : file["local"][k] # None}
  <2>1. cache'["main"] = Without(cache["main"], gone) /\ cache'["np"] = cache["np"] /\ file' = file
    BY Zenon, <1>8 DEF ClearValue, TypeOK
  <2>2. CASE gone = {}
    <3>1. cache'["main"] = cache["main"]
      BY Zenon, <2>1, <2>2 DEF Without, TypeOK, Dict
    <3> QED
      BY Zenon, <1>8, <2>1, <3>1 DEF ClearValue, FilesInv, Idle
  <2>3. CASE gone # {}
    <3>1. jobs' # <<>> /\ jobs'[1] = Rewrite("local", None, None)
      BY Zenon, <1>8, <2>3, Pair, JobTypes DEF ClearValue
    <3> QED
      BY <1>8, <2>1, <3>1, NewJobFields DEF ClearValue, FilesInv, Idle
  <2> QED
    BY Zenon, <2>2, <2>3
<1>9. CASE AppendLine \/ TruncateFile
  <2>1. updating'
    BY Zenon, <1>9, HeadJob DEF AppendLine, TruncateFile, JobsInv, Appending, Truncating, RewritingNp,
       RewritingMain, RewritingLocal, Clearing
  <2> QED
    BY Zenon, <2>1 DEF FilesInv
<1>10. CASE OpenFile
  <2>1. jobs # <<>> /\ Head(jobs) = jobs[1]
    BY Zenon, <1>10, HeadJob DEF OpenFile
  <2>2. \A s \in Stores : s # jobs[1].store => file'[s] = file[s]
    BY Zenon, <1>10, <2>1 DEF OpenFile, TypeOK
  <2> QED
    BY Zenon, <1>10, <2>1, <2>2 DEF OpenFile, FilesInv
<1>11. ASSUME jobs # <<>>, jobs' = Tail(jobs), ~ updating
       PROVE  \/ jobs' = <<>> /\ (jobs[1].store = "local" => jobs[1].key # None)
              \/ jobs' # <<>> /\ jobs'[1].store = "main" /\ jobs[1].store = "local"
  <2>1. \/ Len(jobs) = 1 /\ jobs' = <<>>
        \/ Len(jobs) = 2 /\ jobs' # <<>> /\ jobs'[1] = jobs[2]
    BY Zenon, <1>11, HeadJob
  <2> QED
    BY <1>11, <2>1, RFCAssumption DEF JobsInv, Appending, Truncating, RewritingNp,
       RewritingMain, RewritingLocal, Clearing, AllKeys
<1>12. CASE WriteFile
  <2>1. jobs # <<>> /\ Head(jobs) = jobs[1] /\ jobs[1] \in Job
    BY Zenon, <1>12, HeadJob DEF WriteFile, JobsInv
  <2>2. /\ file'[jobs[1].store] = cache'[jobs[1].store]
        /\ \A s \in Stores : s # jobs[1].store => file'[s] = file[s] /\ cache'[s] = cache[s]
    BY Zenon, <1>12, <2>1 DEF WriteFile, TypeOK, Job
  <2>3. UNCHANGED <<running, updating>> /\ jobs' = Tail(jobs)
    BY Zenon, <1>12 DEF WriteFile
  <2>4. jobs[1].store \in Stores
    BY Zenon, <2>1 DEF Job
  <2> QED
    BY Zenon, <1>11, <2>1, <2>2, <2>3, <2>4 DEF FilesInv
<1>13. CASE OpenFails
  <2>1. jobs # <<>> /\ Head(jobs) = jobs[1]
    BY Zenon, <1>13, HeadJob DEF OpenFails
  <2>2. ~ updating => jobs[1].store = "local"
    BY Zenon, <1>13, <2>1 DEF OpenFails, FilesWritable, JobsInv, Appending, Truncating, RewritingNp,
       RewritingMain, RewritingLocal, Clearing
  <2>3. UNCHANGED <<running, updating, file, cache>>
    BY Zenon, <1>13 DEF OpenFails
  <2>4. CASE jobs[1].key # None
    BY <1>13, <2>1, <2>2, <2>3, <2>4 DEF OpenFails, FilesInv
  <2>5. CASE jobs[1].key = None
    BY <1>11, <1>13, <2>1, <2>2, <2>3, <2>5 DEF OpenFails, FilesInv
  <2> QED
    BY Zenon, <2>4, <2>5
<1>14. ASSUME NEW k \in Keys, NEW v \in Values, ExternalSet(k, v) PROVE FilesInv'
  <2>1. file'["main"] = file["main"] /\ file'["np"] = file["np"]
    BY Zenon, <1>14 DEF ExternalSet, TypeOK
  <2> QED
    BY Zenon, <1>14, <2>1 DEF ExternalSet, FilesInv
<1>15. CASE Stop
  BY Zenon, <1>15 DEF Stop, FilesInv
<1>16. CASE UNCHANGED vars
  BY Zenon, <1>16 DEF vars, FilesInv
<1> QED
  BY Zenon, <1>1, <1>2, <1>3, <1>4, <1>5, <1>6, <1>7, <1>8, <1>9, <1>10, <1>12, <1>13, <1>14, <1>15,
     <1>16 DEF Next, Request, FileStep

\* Between requests and outside a session the main and the non-persistent
\* file hold what GET serves, wherever the process stopped before, as long as
\* the two files can be opened.
THEOREM RestartServes ==
  ASSUME FilesWritable
  PROVE  Spec => []RestartSafe
<1>1. Init => FilesInv
  BY Zenon DEF Init, FilesInv
<1>2. FilesInv => RestartSafe
  BY Zenon DEF FilesInv, RestartSafe, Idle
<1>3. TypeOK /\ JobsInv /\ FilesInv /\ [Next]_vars => (TypeOK /\ JobsInv /\ FilesInv)'
  BY Zenon, TypeNext, JobsNext, FilesNext
<1> QED
  BY <1>1, <1>2, <1>3, TypeInit, PTL DEF Spec
-----------------------------------------------------------------------------
(* RFC sessions.                                                           *)

\* ClearParam is not used while a session runs.
NoClearInSession == "clearInSession" \notin Ops

\* While a session runs, GET serves what it served before ClearDB.
THEOREM ServedKept ==
  ASSUME NoClearInSession
  PROVE  Spec => ServedStable
<1> DEFINE Kept == updating /\ updating' => \A k \in Keys : cache'["main"][k] = cache["main"][k]
<1>1. ASSUME TypeOK, JobsInv, [Next]_vars, updating, updating'
      PROVE  cache'["main"] = cache["main"]
  <2> USE <1>1 DEF TypeOK, Stores
  <2>1. CASE WriteFile
    <3>1. jobs # <<>> /\ Head(jobs) = jobs[1]
      BY Zenon, <2>1, HeadJob DEF WriteFile, JobsInv
    <3>2. jobs[1].store # "main"
      BY <2>1, <3>1 DEF WriteFile, JobsInv, NoClearInSession, Appending, Truncating,
         RewritingNp, RewritingMain, RewritingLocal, Clearing
    <3> QED
      BY Zenon, <2>1, <3>1, <3>2 DEF WriteFile
  <2>2. CASE Start \/ InitAgain \/ Stop
    BY Zenon, <2>2 DEF Start, InitAgain, Stop, JobsInv
  <2>3. CASE Request
    BY Zenon, <2>3 DEF Request, ClearAll, ReloadCache, SetWebpa, SetValue, SetNonPersistent, ClearValue,
       NoClearInSession
  <2>4. CASE AppendLine \/ TruncateFile \/ OpenFile \/ OpenFails \/ SyncDone
    BY Zenon, <2>4 DEF AppendLine, TruncateFile, OpenFile, OpenFails, SyncDone
  <2>5. ASSUME NEW k \in Keys, NEW v \in Values, ExternalSet(k, v)
        PROVE  cache'["main"] = cache["main"]
    BY Zenon, <2>5 DEF ExternalSet
  <2>6. CASE UNCHANGED vars
    BY Zenon, <2>6 DEF vars
  <2> QED
    BY Zenon, <2>1, <2>2, <2>3, <2>4, <2>5, <2>6 DEF Next, FileStep
<1>2. TypeOK /\ JobsInv /\ [Next]_vars => [Kept]_vars
  BY Zenon, <1>1
<1>3. TypeOK /\ JobsInv /\ [Next]_vars => (TypeOK /\ JobsInv)'
  BY Zenon, TypeNext, JobsNext
<1> QED
  BY <1>2, <1>3, TypeInit, PTL DEF Spec, ServedStable

\* In a session the main file holds what the RFC agent has set since ClearDB,
\* up to the operation that comes next.
SessionInv ==
  updating =>
    \A k \in Keys :
      sent[k] =
        IF jobs # <<>> /\ jobs[1].kind = "truncate" /\ jobs[1].store = "main" THEN None
        ELSE IF jobs # <<>> /\ jobs[1].kind = "append" /\ jobs[1].key = k THEN jobs[1].val
        ELSE file["main"][k]

\* The main file can be opened for the truncation of ClearDB.
Clearable == <<"truncate", "main">> \notin IOFaults

LEMMA SessionNext ==
  ASSUME NoClearInSession, Clearable, TypeOK, JobsInv, SessionInv, [Next]_vars
  PROVE  SessionInv'
<1> USE DEF Stores
<1>1. CASE Start \/ InitAgain \/ SyncDone
  BY Zenon, <1>1 DEF Start, InitAgain, SyncDone, SessionInv, JobsInv
<1>2. CASE ClearAll
  <2>1. jobs' # <<>> /\ jobs'[1] = Truncate("main")
    BY Zenon, <1>2, Pair, JobTypes DEF ClearAll
  <2> QED
    BY <1>2, <2>1, NewJobFields DEF ClearAll, SessionInv, NoEntries, AllKeys
<1>3. CASE ReloadCache \/ Stop
  BY Zenon, <1>3 DEF ReloadCache, Stop, SessionInv
<1>4. ASSUME NEW k \in Keys, NEW v \in Values, NEW s, SetValue(k, v, s) PROVE SessionInv'
  <2>1. CASE updating
    <3>1. jobs' # <<>> /\ jobs'[1] = AppendTo("main", k, v)
      BY <1>4, <2>1, MainJobsFacts, Singleton, JobTypes DEF SetValue, AllKeys
    <3>2. \A i \in Keys : sent'[i] = IF i = k THEN v ELSE file["main"][i]
      BY Zenon, <1>4, <2>1 DEF SetValue, SessionInv, Idle, TypeOK, Dict, AllKeys
    <3> QED
      BY <1>4, <3>1, <3>2, NewJobFields DEF SetValue, SessionInv
  <2>2. CASE ~ updating
    BY Zenon, <1>4, <2>2 DEF SetValue, SessionInv
  <2> QED
    BY Zenon, <2>1, <2>2
<1>5. ASSUME NEW k \in Keys, NEW v \in Values, SetWebpa(k, v) PROVE SessionInv'
  <2>1. updating => jobs' = <<Posting(Rewrite("local", k, v))>>
    BY Zenon, <1>5, Singleton, JobTypes DEF SetWebpa, AllKeys
  <2>2. updating => jobs'[1] = Posting(Rewrite("local", k, v))
    BY Zenon, <2>1, Singleton, JobTypes DEF AllKeys
  <2> QED
    BY <1>5, <2>2, NewJobFields DEF SetWebpa, SessionInv, Idle
<1>6. ASSUME NEW k \in NPKeys, NEW v \in Values, SetNonPersistent(k, v) PROVE SessionInv'
  <2>1. jobs' # <<>> /\ jobs'[1] = Rewrite("np", k, v)
    BY Zenon, <1>6, Singleton, JobTypes DEF SetNonPersistent, AllKeys
  <2>2. \A i \in Keys : sent'[i] = sent[i]
    BY ZenonT(40), <1>6, RFCAssumption DEF SetNonPersistent, TypeOK, Dict, AllKeys
  <2> QED
    BY <1>6, <2>1, <2>2, NewJobFields DEF SetNonPersistent, SessionInv, Idle
<1>7. ASSUME NEW p \in Patterns, ClearValue(p) PROVE SessionInv'
  BY Zenon, <1>7 DEF ClearValue, NoClearInSession, SessionInv
<1>8. ASSUME jobs # <<>>, updating
      PROVE  /\ Head(jobs) = jobs[1]
             /\ Tail(jobs) = <<>> \/ (Tail(jobs)[1].kind = "truncate" /\ Tail(jobs)[1].store = "np")
             /\ jobs[1].kind = "rewrite" => jobs[1].store \in {"local", "np"}
             /\ jobs[1].kind = "append" => jobs[1].store = "main" /\ jobs[1].key \in Keys
             /\ jobs[1].store \in Stores
  <2>1. \/ Len(jobs) = 1 /\ Tail(jobs) = <<>>
        \/ Len(jobs) = 2 /\ Tail(jobs)[1] = jobs[2]
    BY Zenon, <1>8, HeadJob
  <2>2. Head(jobs) = jobs[1] /\ jobs[1] \in Job
    BY Zenon, <1>8, HeadJob
  <2> QED
    BY <1>8, <2>1, <2>2 DEF JobsInv, NoClearInSession, Appending, Truncating, RewritingNp,
       RewritingMain, RewritingLocal, Clearing, Job
<1>9. CASE AppendLine
  <2>1. jobs # <<>> /\ UNCHANGED <<updating, sent>> /\ jobs' = Tail(jobs)
    BY Zenon, <1>9 DEF AppendLine
  <2>2. ASSUME updating
        PROVE  \A i \in Keys : file'["main"][i] = IF i = jobs[1].key THEN jobs[1].val
                                                  ELSE file["main"][i]
    BY Zenon, <1>8, <1>9, <2>1, <2>2 DEF AppendLine, TypeOK, Dict, AllKeys
  <2>3. jobs[1].kind = "append"
    BY Zenon, <1>9, HeadJob DEF AppendLine
  <2> QED
    BY Zenon, <1>8, <2>1, <2>2, <2>3 DEF SessionInv
<1>10. CASE TruncateFile
  <2>1. jobs # <<>> /\ UNCHANGED <<updating, sent>> /\ jobs' = Tail(jobs)
    BY Zenon, <1>10 DEF TruncateFile
  <2>2. jobs[1].kind = "truncate"
    BY Zenon, <1>10, HeadJob DEF TruncateFile
  <2>3. ASSUME updating
        PROVE  \A i \in Keys : file'["main"][i] = IF jobs[1].store = "main" THEN None
                                                  ELSE file["main"][i]
    BY Zenon, <1>8, <1>10, <2>1, <2>3 DEF TruncateFile, TypeOK, Dict, AllKeys, NoEntries
  <2> QED
    BY Zenon, <1>8, <2>1, <2>2, <2>3 DEF SessionInv
<1>11. CASE OpenFile
  <2>1. updating => file'["main"] = file["main"]
    BY Zenon, <1>8, <1>11 DEF OpenFile, TypeOK
  <2> QED
    BY Zenon, <1>11, <2>1 DEF OpenFile, SessionInv
<1>12. CASE WriteFile
  <2>1. jobs # <<>> /\ UNCHANGED <<updating, sent>> /\ jobs' = Tail(jobs)
    BY Zenon, <1>12 DEF WriteFile, JobsInv
  <2>2. jobs[1].kind = "rewrite"
    BY Zenon, <1>12, HeadJob DEF WriteFile, JobsInv
  <2>3. updating => file'["main"] = file["main"]
    BY Zenon, <1>8, <1>12, <2>1, <2>2 DEF WriteFile, TypeOK
  <2> QED
    BY Zenon, <1>8, <2>1, <2>2, <2>3 DEF SessionInv
<1>13. CASE OpenFails
  <2>1. jobs # <<>> /\ Head(jobs) = jobs[1] /\ UNCHANGED <<updating, file>>
    BY Zenon, <1>13, HeadJob DEF OpenFails
  <2>2. updating => jobs' = <<>> \/ (jobs'[1].kind = "truncate" /\ jobs'[1].store = "np")
    BY Zenon, <1>8, <1>13, <2>1 DEF OpenFails
  <2>3. ~ (jobs[1].kind = "truncate" /\ jobs[1].store = "main")
    BY Zenon, <1>13, <2>1 DEF OpenFails, Clearable
  <2>4. ASSUME updating
        PROVE  \A i \in Keys : sent'[i] = file["main"][i]
    BY Zenon, <1>8, <1>13, <2>1, <2>3, <2>4 DEF OpenFails, SessionInv, TypeOK, Dict, AllKeys
  <2> QED
    BY Zenon, <2>1, <2>2, <2>4 DEF SessionInv
<1>14. ASSUME NEW k \in Keys, NEW v \in Values, ExternalSet(k, v) PROVE SessionInv'
  <2>1. file'["main"] = file["main"]
    BY Zenon, <1>14 DEF ExternalSet, TypeOK
  <2> QED
    BY Zenon, <1>14, <2>1 DEF ExternalSet, SessionInv
<1>15. CASE UNCHANGED vars
  BY Zenon, <1>15 DEF vars, SessionInv
<1> QED
  BY Zenon, <1>1, <1>2, <1>3, <1>4, <1>5, <1>6, <1>7, <1>9, <1>10, <1>11, <1>12, <1>13, <1>14, <1>15
     DEF Next, Request, FileStep

\* ClearDBEnd serves exactly what the session set and, for the rest, what the
\* local file holds, as long as the main file could be cleared and no clear
\* runs within the session.
THEOREM SessionServed ==
  ASSUME NoClearInSession, Clearable
  PROVE  Spec => SessionExact
<1> DEFINE Exact == updating /\ ~ updating' /\ running' =>
                      \A k \in Keys : cache'["main"][k] = SessionResult(k)
<1>1. ASSUME TypeOK, JobsInv, SessionInv, [Next]_vars, updating, ~ updating', running'
      PROVE  \A k \in Keys : cache'["main"][k] = SessionResult(k)
  <2>1. ReloadCache
    BY Zenon, <1>1 DEF Next, Request, FileStep, Start, InitAgain, ClearAll, SetWebpa, SetValue,
       SetNonPersistent, ClearValue, AppendLine, TruncateFile, OpenFile, WriteFile, OpenFails,
       ExternalSet, SyncDone, Stop, vars
  <2>2. cache'["main"] = Merged /\ jobs = <<>>
    BY Zenon, <1>1, <2>1 DEF ReloadCache, TypeOK, Stores, Idle
  <2> QED
    BY <1>1, <2>2 DEF Merged, SessionResult, SessionInv, AllKeys
<1>2. TypeOK /\ JobsInv /\ SessionInv /\ [Next]_vars => [Exact]_vars
  BY Zenon, <1>1
<1>3. TypeOK /\ JobsInv /\ SessionInv /\ [Next]_vars => (TypeOK /\ JobsInv /\ SessionInv)'
  BY Zenon, TypeNext, JobsNext, SessionNext
<1>4. Init => SessionInv
  BY Zenon DEF Init, SessionInv
<1> QED
  BY <1>2, <1>3, <1>4, TypeInit, PTL DEF Spec, SessionExact
=============================================================================
