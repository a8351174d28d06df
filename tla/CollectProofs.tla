--------------------------- MODULE CollectProofs ----------------------------
(***************************************************************************)
(* What a process that collects never does, for any registrations, pages,  *)
(* files and sessions.                                                     *)
(*                                                                         *)
(* That no session with its checks off is left in the pool is not          *)
(* inductive.  It rests on where such a session can be: WhereChecksAreOff. *)
(* That success means that the work is done, and that the first rows win,  *)
(* rest on a second invariant, of what a job has done at each of its       *)
(* points: WInv.  What Merge returns is shown by induction on the places   *)
(* of a file, with a first-order form of induction: SetInduction.          *)
(***************************************************************************)
EXTENDS Collect, FiniteSetTheorems, SequenceTheorems, WellFoundedInduction, TLAPS

\* Before the database is open no session is, or was.
NotYetOpen == pc \in {"load", "open"} => Open = {} /\ \A s \in Sessions : checks[s]

\* The session of the import is in use until it is given back or discarded.
ConnIsUsed ==
    pc \in {"disable", "write", "restore"} => pool[conn] = "used"

\* A session whose checks are off is that of an import which has still to restore
\* them, or closed, unless the process is being stopped.
WhereChecksAreOff ==
    \A s \in Sessions :
        ~checks[s] => \/ cancelled \/ pool[s] = "closed"
                      \/ s = conn /\ pc \in {"write", "restore"}

IInv == TypeOK /\ NotYetOpen /\ ConnIsUsed /\ WhereChecksAreOff

-----------------------------------------------------------------------------
\* A session is obtained within the limit, and with its checks on unless they
\* were off in the pool.
LEMMA ObtainType ==
    ASSUME DatabaseTypeOK, NEW s \in Sessions, NEW use \in {"idle", "used"}, Obtain(s, use)
    PROVE  /\ pool' \in [Sessions -> {"closed", "idle", "used"}]
           /\ checks' \in [Sessions -> BOOLEAN]
           /\ Cardinality(Open') <= limit
           /\ pool' = [pool EXCEPT ![s] = use]
           /\ \A r \in Sessions : ~checks'[r] => ~checks[r] /\ (r = s => pool[s] = "idle")
<1>1. /\ pool' = [pool EXCEPT ![s] = use]
      /\ checks' = [checks EXCEPT ![s] = pool[s] = "closed" \/ checks[s]]
      /\ Obtainable(s)
  BY DEF Obtain
<1>2. pool \in [Sessions -> {"closed", "idle", "used"}] /\ checks \in [Sessions -> BOOLEAN]
  BY DEF DatabaseTypeOK
<1>3. Open' = Open \cup {s}
  BY <1>1, <1>2 DEF Open
<1>4. IsFiniteSet(Open) /\ IsFiniteSet(Sessions) /\ Cardinality(Open) \in Nat /\ Cardinality(Sessions) \in Nat
  BY ProcessAssumption, FS_Subset, FS_CardinalityType DEF Open
<1>5. limit \in Nat /\ Cardinality(Open) <= limit
  BY <1>4 DEF DatabaseTypeOK
<1>6. Cardinality(Open') <= limit
  <2>1. CASE pool[s] = "idle"
    <3>1. Open' = Open  BY <1>2, <1>3, <2>1 DEF Open
    <3>. QED  BY <3>1, <1>5
  <2>2. CASE pool[s] # "idle"
    <3>1. Cardinality(Open) < limit /\ s \notin Open
      BY <1>1, <2>2 DEF Obtainable, Open
    <3>2. Cardinality(Open') = Cardinality(Open) + 1
      BY <1>3, <1>4, <3>1, FS_AddElement
    <3>. QED  BY <3>1, <3>2, <1>4, <1>5
  <2>. QED  BY <2>1, <2>2
<1>7. ASSUME NEW r \in Sessions, ~checks'[r]
      PROVE  ~checks[r] /\ (r = s => pool[s] = "idle")
  BY <1>1, <1>2, <1>7 DEF Obtainable
<1>. QED  BY <1>1, <1>2, <1>6, <1>7

\* Closing or giving back a session opens none.
LEMMA ClosedType ==
    ASSUME DatabaseTypeOK, NEW s \in Sessions, NEW kind \in {"closed", "idle"},
           pool' = [pool EXCEPT ![s] = kind], kind = "idle" => pool[s] # "closed"
    PROVE  /\ pool' \in [Sessions -> {"closed", "idle", "used"}]
           /\ Open' \subseteq Open /\ Cardinality(Open') <= limit
<1>1. pool \in [Sessions -> {"closed", "idle", "used"}]
  BY DEF DatabaseTypeOK
<1>2. Open' \subseteq Open
  BY <1>1 DEF Open
<1>3. IsFiniteSet(Open) /\ IsFiniteSet(Open') /\ Cardinality(Sessions) \in Nat
  BY <1>2, ProcessAssumption, FS_Subset, FS_CardinalityType DEF Open
<1>4. Cardinality(Open') <= Cardinality(Open) /\ Cardinality(Open') \in Nat /\ Cardinality(Open) \in Nat
  BY <1>2, <1>3, FS_Subset, FS_CardinalityType
<1>. QED  BY <1>1, <1>2, <1>3, <1>4 DEF DatabaseTypeOK

\* So is a session for a query of the store, whether it fails or not.
LEMMA QueryKeeps ==
    ASSUME IInv, pc \notin {"disable", "write", "restore"}, Query \/ QueryFails,
           limit' = limit, cancelled' = cancelled
    PROVE  /\ DatabaseTypeOK'
           /\ \A r \in Sessions : ~checks'[r] => cancelled' \/ pool'[r] = "closed"
<1>1. DatabaseTypeOK /\ WhereChecksAreOff
  BY DEF IInv, TypeOK
<1>2. /\ pool \in [Sessions -> {"closed", "idle", "used"}] /\ checks \in [Sessions -> BOOLEAN]
      /\ limit \in 0..Cardinality(Sessions)
  BY <1>1 DEF DatabaseTypeOK
<1>3. ASSUME NEW s \in Sessions, Obtain(s, "idle")
      PROVE  /\ DatabaseTypeOK'
             /\ \A r \in Sessions : ~checks'[r] => cancelled' \/ pool'[r] = "closed"
  <2>1. /\ DatabaseTypeOK'
        /\ pool' = [pool EXCEPT ![s] = "idle"]
        /\ \A r \in Sessions : ~checks'[r] => ~checks[r] /\ (r = s => pool[s] = "idle")
    BY <1>1, <1>2, <1>3, ObtainType DEF DatabaseTypeOK
  <2>. QED  BY <1>1, <1>2, <2>1 DEF WhereChecksAreOff
<1>4. CASE UNCHANGED database
  <2>1. pool' = pool /\ checks' = checks /\ Open' = Open
    BY <1>4 DEF database, Open
  <2>. QED  BY <1>1, <2>1 DEF DatabaseTypeOK, WhereChecksAreOff
<1>5. ASSUME NEW s \in Sessions, pool' = [pool EXCEPT ![s] = "closed"], UNCHANGED checks
      PROVE  /\ DatabaseTypeOK'
             /\ \A r \in Sessions : ~checks'[r] => cancelled' \/ pool'[r] = "closed"
  BY <1>1, <1>2, <1>5, ClosedType DEF DatabaseTypeOK, WhereChecksAreOff
<1>. QED  BY <1>3, <1>4, <1>5 DEF Query, QueryFails

-----------------------------------------------------------------------------
\* The search keeps to its pages, and finds numbers of registrations.
LEMMA CurrentType ==
    ASSUME EcTypeOK, todo # {}
    PROVE  Current \in Ids
  BY DEF Current, EcTypeOK

\* The steps of a crawler keep its types.
LEMMA EcStepType ==
    ASSUME EcTypeOK, EcStep
    PROVE  EcTypeOK'
<1>0. MaxPages \in Nat \ {0} /\ MaxDetails \in Nat
  BY EcAssumption
<1>1. CASE Search
  <2>1. pages' \in 0..MaxPages + 1 /\ last' \in BOOLEAN /\ details' \in 0..MaxDetails
    <3>1. pages' \in Least(job)..MaxPages + 1 /\ Least(job) \in {0, 1}
      BY <1>1 DEF Search, Least
    <3>2. pages' \in 0..MaxPages + 1
      BY <1>0, <3>1
    <3>3. last' \in BOOLEAN
      BY <1>1 DEF Search
    <3>4. details' \in (IF job \in {"momo", "pchome"} /\ ~last' THEN 0..MaxDetails ELSE {0})
      BY <1>1 DEF Search
    <3>. QED  BY <1>0, <3>2, <3>3, <3>4
  <2>2. found' \subseteq Ids
    BY <1>1 DEF Search, EcTypeOK
  <2>. QED  BY <1>1, <2>1, <2>2 DEF Search, Continue, EcTypeOK
<1>2. CASE SearchFails \/ ScanCancelled \/ LookFails \/ EcDone
  BY <1>2 DEF SearchFails, ScanCancelled, LookFails, EcDone, Fail, Continue, EcTypeOK, ec
<1>3. CASE Detail
  BY <1>0, <1>3 DEF Detail, Continue, Fail, EcTypeOK
<1>4. CASE NextPage
  <2>1. page' \in 1..MaxPages /\ pages' \in 0..MaxPages + 1 /\ last' \in BOOLEAN
    <3>1. /\ page \in 1..MaxPages /\ 1 \in 1..MaxPages
          /\ pages \in 0..MaxPages + 1 /\ 1 \in 0..MaxPages + 1
      BY <1>0 DEF EcTypeOK
    <3>2. /\ page' = 1 \/ (page' = page + 1 /\ page < MaxPages)
          /\ pages' \in {pages, 1} /\ last' \in {last, FALSE}
      BY <1>4 DEF NextPage, Further
    <3>3. last \in BOOLEAN
      BY DEF EcTypeOK
    <3>4. page' \in 1..MaxPages
      BY <1>0, <3>1, <3>2
    <3>5. last' \in BOOLEAN
      BY <3>2, <3>3
    <3>. QED  BY <3>1, <3>2, <3>4, <3>5
  <2>2. pc' \in {"search", "registrations"} /\ UNCHANGED <<details, found, absent, missed, saved>>
        /\ todo' \in {todo, found}
    BY <1>4 DEF NextPage, Continue
  <2>. QED  BY <2>1, <2>2 DEF EcTypeOK
<1>5. CASE Look
  BY <1>5 DEF Look, Continue, Fail, EcTypeOK
<1>7. CASE Fetch
  BY <1>7, CurrentType DEF Fetch, Continue, Fail, EcTypeOK
<1>8. CASE FetchFails
  BY <1>8 DEF FetchFails, Miss, Continue, Fail, EcTypeOK
<1>9. CASE Save
  BY <1>9, CurrentType DEF Save, Continue, Fail, EcTypeOK
<1>10. CASE SaveFails
  BY <1>10, CurrentType DEF SaveFails, Miss, Continue, Fail, EcTypeOK
<1>11. CASE Pause
  BY <1>11 DEF Pause, Continue, Fail, EcTypeOK
<1>. QED
  BY <1>1, <1>2, <1>3, <1>4, <1>5, <1>7, <1>8, <1>9, <1>10, <1>11 DEF EcStep

-----------------------------------------------------------------------------
(* The steps of the jobs *)

\* What is left to show of a step once its search is typed.
Kept ==
    /\ ProcessTypeOK /\ DatabaseTypeOK /\ FeedTypeOK
    /\ NotYetOpen /\ ConnIsUsed /\ WhereChecksAreOff

\* A step that leaves the sessions alone, outside the import's.
LEMMA QuietStep ==
    ASSUME IInv, UNCHANGED database, limit' = limit, cancelled => cancelled', conn' = conn,
           pc \notin {"disable", "write", "restore"} \/ (pc = "write" /\ pc' = "restore")
    PROVE  DatabaseTypeOK' /\ WhereChecksAreOff'
<1>1. pool' = pool /\ checks' = checks /\ Open' = Open
  BY DEF database, Open
<1>. QED  BY <1>1 DEF IInv, TypeOK, DatabaseTypeOK, WhereChecksAreOff

\* The steps of an import keep the invariant.
LEMMA ImportStepKeeps ==
    ASSUME IInv, ImportStep
    PROVE  Kept'
<1>0. ProcessTypeOK /\ DatabaseTypeOK /\ FeedTypeOK /\ ConnIsUsed /\ WhereChecksAreOff
  BY DEF IInv, TypeOK
<1>1. CASE Download \/ DownloadFails \/ DownloadFeed \/ DownloadFeedFails
  <2>1. /\ UNCHANGED <<database, limit, cancelled, conn, stored>> /\ feed' \subseteq Ids
        /\ pc \in {"files", "feed"} /\ pc' \in {"acquire", "files", "replace", "end"} /\ err' \in BOOLEAN
    BY <1>0, <1>1 DEF Download, DownloadFails, DownloadFeed, DownloadFeedFails, Continue, Fail,
                      process, tables, import, FeedTypeOK, ProcessTypeOK
  <2>2. DatabaseTypeOK' /\ WhereChecksAreOff'
    BY <2>1, QuietStep DEF database
  <2>. QED
    BY <1>0, <2>1, <2>2 DEF Kept, ProcessTypeOK, FeedTypeOK, NotYetOpen, ConnIsUsed, ImportPoints
<1>2. CASE Acquire
  <2>1. PICK s \in Sessions : Obtain(s, "used") /\ conn' = s
    BY <1>2 DEF Acquire
  <2>2. /\ pc = "acquire" /\ pc' = "disable" /\ UNCHANGED <<err, limit, cancelled, feed, stored>>
        /\ conn = None /\ ~cancelled
    BY <1>0, <1>2 DEF Acquire, Continue, process, tables, ProcessTypeOK
  <2>3. /\ pool' \in [Sessions -> {"closed", "idle", "used"}] /\ checks' \in [Sessions -> BOOLEAN]
        /\ Cardinality(Open') <= limit
        /\ pool' = [pool EXCEPT ![s] = "used"]
        /\ \A r \in Sessions : ~checks'[r] => ~checks[r] /\ (r = s => pool[s] = "idle")
    BY <1>0, <2>1, ObtainType
  <2>4. \A r \in Sessions : ~checks[r] => pool[r] = "closed"
    BY <1>0, <2>2 DEF WhereChecksAreOff
  <2>5. DatabaseTypeOK'
    BY <1>0, <2>2, <2>3 DEF DatabaseTypeOK
  <2>6. WhereChecksAreOff'
    BY <1>0, <2>3, <2>4 DEF WhereChecksAreOff, DatabaseTypeOK
  <2>7. ConnIsUsed'
    BY <1>0, <2>1, <2>3 DEF ConnIsUsed, DatabaseTypeOK
  <2>. QED
    BY <1>0, <2>1, <2>2, <2>5, <2>6, <2>7, ProcessAssumption
    DEF Kept, ProcessTypeOK, FeedTypeOK, NotYetOpen, ImportPoints
<1>3. CASE AcquireFails \/ Replace \/ ReplaceFails
  <2>1. /\ pc \in {"acquire", "replace"} /\ pc' = "end" /\ UNCHANGED <<limit, cancelled, conn, feed>>
        /\ err' \in BOOLEAN /\ stored' \subseteq Ids /\ conn = None
    BY <1>0, <1>3 DEF AcquireFails, Replace, ReplaceFails, Continue, Fail, process, tables,
                      FeedTypeOK, ProcessTypeOK
  <2>2. Query \/ QueryFails \/ UNCHANGED database
    BY <1>3 DEF AcquireFails, Replace, ReplaceFails
  <2>3. DatabaseTypeOK' /\ WhereChecksAreOff'
    BY <2>1, <2>2, QueryKeeps, QuietStep DEF WhereChecksAreOff
  <2>. QED
    BY <1>0, <2>1, <2>3 DEF Kept, ProcessTypeOK, FeedTypeOK, NotYetOpen, ConnIsUsed
<1>4. CASE DisableChecks \/ DisableFails
  <2>1. /\ pc = "disable" /\ UNCHANGED <<limit, cancelled, conn, feed, stored, pool>>
        /\ err' \in BOOLEAN /\ conn \in Sessions
        /\ checks' \in {checks, [checks EXCEPT ![conn] = FALSE]}
        /\ \/ pc' = "write"
           \/ pc' = "release" /\ (cancelled \/ checks' = checks)
    BY <1>0, <1>4 DEF DisableChecks, DisableFails, Continue, Fail, process, import, ProcessTypeOK
  <2>2. Open' = Open
    BY <2>1 DEF Open
  <2>3. DatabaseTypeOK'
    BY <1>0, <2>1, <2>2 DEF DatabaseTypeOK
  <2>4. WhereChecksAreOff'
    BY <1>0, <2>1 DEF WhereChecksAreOff, DatabaseTypeOK
  <2>. QED
    BY <1>0, <2>1, <2>3, <2>4 DEF Kept, ProcessTypeOK, FeedTypeOK, NotYetOpen, ConnIsUsed, ImportPoints
<1>5. CASE Write
  <2>1. /\ pc = "write" /\ pc' = "restore" /\ err' \in BOOLEAN
        /\ UNCHANGED <<database, limit, cancelled, conn, feed, stored>>
    BY <1>0, <1>5 DEF Write, Continue, Fail, process, ProcessTypeOK
  <2>2. DatabaseTypeOK' /\ WhereChecksAreOff'
    BY <2>1, QuietStep DEF database
  <2>. QED
    BY <1>0, <2>1, <2>2 DEF Kept, ProcessTypeOK, FeedTypeOK, NotYetOpen, ConnIsUsed, ImportPoints, database
<1>6. CASE RestoreChecks
  <2>1. /\ pc = "restore" /\ pc' = "release" /\ err' = err /\ conn \in Sessions
        /\ UNCHANGED <<limit, cancelled, conn, feed, stored, pool>>
        /\ checks' = [checks EXCEPT ![conn] = TRUE] \/ (cancelled /\ checks' = checks)
    BY <1>0, <1>6 DEF RestoreChecks, Continue, process, import, ProcessTypeOK
  <2>2. Open' = Open
    BY <2>1 DEF Open
  <2>3. DatabaseTypeOK'
    BY <1>0, <2>1, <2>2 DEF DatabaseTypeOK
  <2>4. WhereChecksAreOff'
    BY <1>0, <2>1 DEF WhereChecksAreOff, DatabaseTypeOK
  <2>. QED
    BY <1>0, <2>1, <2>3, <2>4 DEF Kept, ProcessTypeOK, FeedTypeOK, NotYetOpen, ConnIsUsed, ImportPoints
<1>7. CASE RestoreFails \/ Release
  <2>1. /\ pc \in {"restore", "release"} /\ pc' \in {"release", "end", "feed"} /\ err' \in BOOLEAN
        /\ conn \in Sessions /\ conn' = (IF pc = "restore" THEN conn ELSE None)
        /\ pc' = "release" <=> pc = "restore"
        /\ UNCHANGED <<limit, cancelled, feed, stored, checks>>
        /\ \E kind \in {"closed", "idle"} :
              /\ pool' = [pool EXCEPT ![conn] = kind] \/ pool' = pool
              /\ kind = "idle" => pc = "release" /\ pool[conn] # "closed"
              /\ pc = "restore" => pool' = [pool EXCEPT ![conn] = "closed"]
    BY <1>0, <1>7 DEF RestoreFails, Release, AfterCertificates, Continue, Fail, process, import,
                      tables, ProcessTypeOK, DatabaseTypeOK
  <2>2. DatabaseTypeOK'
    <3>1. CASE pool' = pool
      BY <1>0, <2>1, <3>1 DEF DatabaseTypeOK, Open
    <3>2. CASE \E kind \in {"closed", "idle"} :
                  /\ pool' = [pool EXCEPT ![conn] = kind]
                  /\ kind = "idle" => pool[conn] # "closed"
      BY <1>0, <2>1, <3>2, ClosedType DEF DatabaseTypeOK
    <3>. QED  BY <2>1, <3>1, <3>2
  <2>3. WhereChecksAreOff'
    BY <1>0, <2>1 DEF WhereChecksAreOff, DatabaseTypeOK
  <2>. QED
    BY <1>0, <2>1, <2>2, <2>3, ProcessAssumption
    DEF Kept, ProcessTypeOK, FeedTypeOK, NotYetOpen, ConnIsUsed, ImportPoints
<1>. QED
  BY <1>1, <1>2, <1>3, <1>4, <1>5, <1>6, <1>7 DEF ImportStep

\* So do those of a crawler, which touches no session of an import.
LEMMA EcStepKeeps ==
    ASSUME IInv, EcStep, UNCHANGED import
    PROVE  Kept'
<1>0. ProcessTypeOK /\ FeedTypeOK
  BY DEF IInv, TypeOK
<1>1. /\ pc \in EcPoints /\ pc' \in EcPoints \cup {"end"} /\ err' \in BOOLEAN
      /\ UNCHANGED <<limit, cancelled, conn, feed, stored>>
  BY <1>0 DEF EcStep, Search, SearchFails, Detail, ScanCancelled, NextPage, Look, LookFails,
      Fetch, FetchFails, Miss, Save, SaveFails, Pause, EcDone, Continue, Fail, process, import,
      EcPoints, ProcessTypeOK
<1>2. Query \/ QueryFails \/ UNCHANGED database
  BY DEF EcStep, Search, SearchFails, Detail, ScanCancelled, NextPage, Look, LookFails,
      Fetch, FetchFails, Save, SaveFails, Pause, EcDone
<1>3. DatabaseTypeOK' /\ WhereChecksAreOff'
  BY <1>1, <1>2, QueryKeeps, QuietStep DEF WhereChecksAreOff, EcPoints
<1>. QED
  BY <1>0, <1>1, <1>3 DEF Kept, ProcessTypeOK, FeedTypeOK, NotYetOpen, ConnIsUsed, EcPoints

-----------------------------------------------------------------------------
(* The steps of the process, and of its surroundings *)

\* A step that goes on outside the jobs.
LEMMA StepKeeps ==
    ASSUME IInv,
           \/ Load \/ OpenDatabase \/ OpenFails \/ CheckVersion \/ RefuseVersion
           \/ (\E j \in Jobs : Start(j)) \/ Finish \/ Stop
    PROVE  IInv'
<1>0. /\ ProcessTypeOK /\ DatabaseTypeOK /\ EcTypeOK /\ FeedTypeOK
      /\ NotYetOpen /\ ConnIsUsed /\ WhereChecksAreOff
  BY DEF IInv, TypeOK
<1>1. CASE Load \/ OpenFails \/ Finish \/ Stop
  <2>1. /\ pc \in {"load", "open", "end", "ready"} /\ pc' \in {"open", "exit", "ready"}
        /\ pc' = "open" => pc = "load"
        /\ UNCHANGED <<pool, checks, limit, cancelled, conn>> /\ err' \in BOOLEAN
    BY <1>0, <1>1 DEF Load, OpenFails, Finish, Stop, Continue, Fail, process, database, import,
                      ProcessTypeOK
  <2>2. Open' = Open
    BY <2>1 DEF Open
  <2>3. ProcessTypeOK' /\ NotYetOpen' /\ ConnIsUsed'
    BY <1>0, <2>1, <2>2 DEF ProcessTypeOK, NotYetOpen, ConnIsUsed
  <2>4. DatabaseTypeOK' /\ WhereChecksAreOff'
    BY <1>0, <2>1, <2>2 DEF DatabaseTypeOK, WhereChecksAreOff
  <2>5. EcTypeOK' /\ FeedTypeOK'
    <3>1. CASE Finish
      <4>1. /\ feed' = {} /\ stored' = {} /\ page' = 1 /\ pages' = 1 /\ details' = 0 /\ last' = FALSE
            /\ found' = {} /\ todo' = {} /\ absent' = {} /\ missed' = FALSE /\ saved' = {}
        BY <3>1 DEF Finish
      <4>2. 1 \in 1..MaxPages /\ 1 \in 0..MaxPages + 1 /\ 0 \in 0..MaxDetails
        BY EcAssumption DEF EcAssumption
      <4>. QED  BY <2>1, <4>1, <4>2 DEF EcTypeOK, FeedTypeOK
    <3>2. CASE Load \/ OpenFails \/ Stop
      <4>1. UNCHANGED ec /\ UNCHANGED <<feed, stored>>
        BY <3>2 DEF Load, OpenFails, Stop, import, tables
      <4>. QED  BY <1>0, <2>1, <4>1 DEF EcTypeOK, FeedTypeOK, ec
    <3>. QED  BY <1>1, <3>1, <3>2
  <2>. QED  BY <2>3, <2>4, <2>5 DEF IInv, TypeOK
<1>2. CASE OpenDatabase
  <2>1. PICK s \in Sessions : pool' = [pool EXCEPT ![s] = "idle"]
    BY <1>2 DEF OpenDatabase
  <2>2. /\ pc = "open" /\ pc' = "version" /\ UNCHANGED <<err, cancelled, checks, conn, feed, stored, ec>>
        /\ limit' \in {1, Cardinality(Sessions)} /\ Open = {}
        /\ \A r \in Sessions : checks[r]
    BY <1>0, <1>2 DEF OpenDatabase, import, tables, NotYetOpen
  <2>3. Open' = {s}
    BY <1>0, <2>1, <2>2 DEF Open, DatabaseTypeOK
  <2>4. Cardinality({s}) = 1 /\ Cardinality(Sessions) \in Nat /\ 1 <= Cardinality(Sessions)
    <3>1. Cardinality({s}) = 1
      BY FS_Singleton
    <3>2. {s} \subseteq Sessions /\ IsFiniteSet(Sessions)
      BY ProcessAssumption
    <3>3. Cardinality({s}) <= Cardinality(Sessions)
      BY <3>2, FS_Subset
    <3>4. Cardinality(Sessions) \in Nat
      BY <3>2, FS_CardinalityType
    <3>. QED  BY <3>1, <3>3, <3>4
  <2>5. DatabaseTypeOK'
    BY <1>0, <2>1, <2>2, <2>3, <2>4 DEF DatabaseTypeOK
  <2>6. ProcessTypeOK' /\ NotYetOpen' /\ ConnIsUsed' /\ FeedTypeOK' /\ EcTypeOK'
    BY <1>0, <2>2 DEF ProcessTypeOK, NotYetOpen, ConnIsUsed, FeedTypeOK, EcTypeOK, ec
  <2>7. WhereChecksAreOff'
    BY <2>2 DEF WhereChecksAreOff
  <2>. QED  BY <2>5, <2>6, <2>7 DEF IInv, TypeOK
<1>3. CASE CheckVersion \/ RefuseVersion
  <2>1. /\ pc = "version" /\ pc' \in {"ready", "exit"} /\ err' \in BOOLEAN /\ (Query \/ QueryFails)
        /\ UNCHANGED <<limit, cancelled, conn, feed, stored, ec>>
    BY <1>0, <1>3 DEF CheckVersion, RefuseVersion, Continue, Fail, process, import, tables, ProcessTypeOK
  <2>2. DatabaseTypeOK' /\ WhereChecksAreOff'
    BY <2>1, QueryKeeps DEF WhereChecksAreOff
  <2>. QED
    BY <1>0, <2>1, <2>2
    DEF IInv, TypeOK, ProcessTypeOK, NotYetOpen, ConnIsUsed, FeedTypeOK, EcTypeOK, ec
<1>4. ASSUME NEW j \in Jobs, Start(j)
      PROVE  IInv'
  <2>1. /\ pc = "ready" /\ pc' = FirstStep(j) /\ err' = FALSE
        /\ UNCHANGED <<cancelled, limit, pool, checks, conn, feed, stored>>
        /\ UNCHANGED <<page, pages, details, last, found, todo, absent, missed>>
        /\ saved' \subseteq Ids
    BY <1>4 DEF Start, database, import, tables
  <2>2. pc' \in {"files", "feed", "search"}
    BY <2>1 DEF FirstStep, Jobs, Imports, Sources
  <2>3. Open' = Open
    BY <2>1 DEF Open
  <2>4. DatabaseTypeOK' /\ WhereChecksAreOff'
    BY <1>0, <2>1, <2>3 DEF DatabaseTypeOK, WhereChecksAreOff
  <2>5. EcTypeOK' /\ FeedTypeOK'
    BY <1>0, <2>1, <2>2 DEF EcTypeOK, FeedTypeOK
  <2>6. ProcessTypeOK' /\ NotYetOpen' /\ ConnIsUsed'
    BY <1>0, <2>1, <2>2 DEF ProcessTypeOK, NotYetOpen, ConnIsUsed, ImportPoints, EcPoints
  <2>. QED  BY <2>4, <2>5, <2>6 DEF IInv, TypeOK
<1>. QED  BY <1>1, <1>2, <1>3, <1>4

\* Nor do a signal, the web server and the ends of sessions disturb it.
LEMMA EnvironmentKeeps ==
    ASSUME IInv, Environment \/ UNCHANGED vars
    PROVE  IInv'
<1>0. /\ ProcessTypeOK /\ DatabaseTypeOK /\ EcTypeOK /\ FeedTypeOK
      /\ NotYetOpen /\ ConnIsUsed /\ WhereChecksAreOff
  BY DEF IInv, TypeOK
<1>1. CASE Cancel \/ (\E id \in Ids : Visit(id)) \/ UNCHANGED vars
  <2>1. /\ UNCHANGED <<pc, err, pool, checks, limit, conn, feed, stored>>
        /\ cancelled' \in BOOLEAN /\ (cancelled => cancelled')
        /\ UNCHANGED <<page, pages, details, last, found, todo, absent, missed>>
        /\ saved' \subseteq Ids
    BY <1>0, <1>1 DEF Cancel, Visit, vars, process, database, import, tables, ec, ProcessTypeOK, EcTypeOK
  <2>2. Open' = Open
    BY <2>1 DEF Open
  <2>3. ProcessTypeOK'
    BY <1>0, <2>1 DEF ProcessTypeOK, ImportPoints, EcPoints
  <2>7. NotYetOpen' /\ ConnIsUsed' /\ FeedTypeOK'
    BY <1>0, <2>1, <2>2 DEF NotYetOpen, ConnIsUsed, FeedTypeOK
  <2>4. DatabaseTypeOK'
    BY <1>0, <2>1, <2>2 DEF DatabaseTypeOK
  <2>5. EcTypeOK'
    BY <1>0, <2>1 DEF EcTypeOK
  <2>6. WhereChecksAreOff'
    BY <1>0, <2>1 DEF WhereChecksAreOff
  <2>. QED  BY <2>3, <2>4, <2>5, <2>6, <2>7 DEF IInv, TypeOK
<1>2. ASSUME NEW s \in Sessions, Expire(s), UNCHANGED <<import, ec>>
      PROVE  IInv'
  <2>1. /\ pool[s] = "idle" /\ pool' = [pool EXCEPT ![s] = "closed"]
        /\ UNCHANGED <<pc, err, cancelled, limit, checks, conn, feed, stored, ec>>
    BY <1>2 DEF Expire, process, import, tables
  <2>2. Open' \subseteq Open /\ DatabaseTypeOK'
    BY <1>0, <2>1, ClosedType DEF DatabaseTypeOK
  <2>3. WhereChecksAreOff' /\ ConnIsUsed'
    BY <1>0, <2>1 DEF WhereChecksAreOff, ConnIsUsed, DatabaseTypeOK, ProcessTypeOK
  <2>4. ProcessTypeOK' /\ NotYetOpen' /\ FeedTypeOK' /\ EcTypeOK'
    BY <1>0, <2>1, <2>2 DEF ProcessTypeOK, NotYetOpen, FeedTypeOK, EcTypeOK, ec
  <2>. QED  BY <2>2, <2>3, <2>4 DEF IInv, TypeOK
<1>. QED  BY <1>1, <1>2 DEF Environment

\* The invariant holds at first.
LEMMA InitIInv == Init => IInv
<1> SUFFICES ASSUME Init PROVE IInv
  OBVIOUS
<1>1. Open = {} /\ Cardinality({}) = 0 /\ Cardinality(Sessions) \in Nat
  BY ProcessAssumption, FS_EmptySet, FS_CardinalityType DEF Init, Open
<1>2. DatabaseTypeOK
  BY <1>1 DEF Init, DatabaseTypeOK
<1>3. ProcessTypeOK /\ FeedTypeOK
  BY ProcessAssumption DEF Init, ProcessTypeOK, FeedTypeOK
<1>4. EcTypeOK
  <2>1. 1 \in 1..MaxPages /\ 1 \in 0..MaxPages + 1 /\ 0 \in 0..MaxDetails
    BY EcAssumption DEF EcAssumption
  <2>. QED  BY <2>1 DEF Init, EcTypeOK
<1>5. NotYetOpen /\ ConnIsUsed /\ WhereChecksAreOff
  BY <1>1 DEF Init, NotYetOpen, ConnIsUsed, WhereChecksAreOff
<1>. QED  BY <1>2, <1>3, <1>4, <1>5 DEF IInv, TypeOK

\* Every step keeps it.
LEMMA NextIInv == IInv /\ [Next]_vars => IInv'
<1> SUFFICES ASSUME IInv, [Next]_vars PROVE IInv'
  OBVIOUS
<1>1. CASE ImportStep /\ UNCHANGED ec
  <2>1. Kept'
    BY <1>1, ImportStepKeeps
  <2>2. pc' \notin {"fetch", "save", "pause"}
    BY <1>1 DEF ImportStep, Download, DownloadFails, Acquire, AcquireFails, DisableChecks,
       DisableFails, Write, RestoreChecks, RestoreFails, Release, AfterCertificates, DownloadFeed,
       DownloadFeedFails, Replace, ReplaceFails, Continue, Fail
  <2>3. EcTypeOK'
    BY <1>1, <2>2 DEF IInv, TypeOK, EcTypeOK, ec
  <2>. QED  BY <2>1, <2>3 DEF Kept, IInv, TypeOK
<1>2. CASE EcStep /\ UNCHANGED import
  BY <1>2, EcStepKeeps, EcStepType DEF Kept, IInv, TypeOK
<1>3. CASE Environment \/ UNCHANGED vars
  BY <1>3, EnvironmentKeeps
<1>. QED
  BY <1>1, <1>2, <1>3, StepKeeps DEF Next, Step, JobStep, Gone

-----------------------------------------------------------------------------
\* The invariant of the sessions holds: no session is without its checks but that of an
\* import that has still to restore them (jobs.go and store.go: Acquire to Release).
THEOREM Invariance == Spec => []IInv
  BY InitIInv, NextIInv, PTL DEF Spec

\* The types hold: the sessions keep to their limit, which is one on SQLite
\* (db.go:52), the session of an import is there from Acquire to Release, and a
\* search reads no more than its pages, whatever the site says (ec.go:52-106).
THEOREM TypeCorrect == Spec => []TypeOK
<1>1. IInv => TypeOK
  BY DEF IInv
<1>. QED  BY <1>1, Invariance, PTL

\* No session with its foreign key checks off goes back to the pool while the
\* process runs on, whichever statement of an import fails (store.go:200-223).
THEOREM ChecksAlwaysRestored == Spec => []ChecksAreRestored
<1>1. IInv => ChecksAreRestored
  BY DEF IInv, ChecksAreRestored, WhereChecksAreOff, ConnIsUsed
<1>. QED  BY <1>1, Invariance, PTL

\* What is not asked of the database of an environment holds of every one that
\* FromEnv accepts (config.go:45-103).
LEMMA FromEnvKeeps ==
    ASSUME NEW e \in Environments, FromEnv(e) # None
    PROVE  /\ Explicit(e) => FromEnv(e) = Database(e.BSMI_DRIVER, "BSMI_DSN")
           /\ e.NODE_ENV = "production" =>
                 /\ FromEnv(e).dsn # "dev.db"
                 /\ e.MYSQL_HOST # "" => FromEnv(e).dsn # "DATABASE_URL"
<1>0. e.TZ # "Nowhere"
  BY DEF FromEnv
<1>1. CASE Explicit(e)
  BY <1>0, <1>1 DEF FromEnv, FromExplicit, Database
<1>2. CASE ~Explicit(e) /\ Adapter(e)
  BY <1>0, <1>2 DEF FromEnv, FromAdapter, Database
<1>3. CASE ~Explicit(e) /\ ~Adapter(e)
  <2>1. FromEnv(e) = FromURL(e)
    BY <1>0, <1>3 DEF FromEnv
  <2>2. e.NODE_ENV = "production" => e.MYSQL_HOST = ""
    BY <1>3 DEF Adapter
  <2>3. e.NODE_ENV = "production" => FromURL(e).dsn # "dev.db"
    BY <2>1 DEF FromURL, Database
  <2>. QED  BY <1>3, <2>1, <2>2, <2>3
<1>. QED  BY <1>1, <1>2, <1>3

\* A process of production runs on the database of its settings, and never on
\* the file for development (config.go:45-54, 96-101).
THEOREM ProductionAlwaysKeepsItsDatabase == Spec => ProductionKeepsItsDatabase
<1>. DEFINE EnvOK == pc = "load" => env \in Environments
<1>1. Init => EnvOK
  BY DEF Init
<1>2. EnvOK /\ [Next]_vars => EnvOK'
  BY DEF Next, Step, Environment, Gone, JobStep, ImportStep, EcStep, Load, OpenDatabase, OpenFails,
     CheckVersion, RefuseVersion, Start, FirstStep, Jobs, Imports, Sources, Finish, Stop, Cancel, Visit, Expire, vars,
     Download, DownloadFails, Acquire, AcquireFails, DisableChecks, DisableFails, Write, RestoreChecks,
     RestoreFails, Release, AfterCertificates, DownloadFeed, DownloadFeedFails, Replace, ReplaceFails,
     Search, SearchFails, Detail, ScanCancelled, NextPage, Look, LookFails, Fetch, FetchFails, Miss,
     Save, SaveFails, Pause, EcDone, Continue, Fail
<1>3. EnvOK /\ [Next]_vars =>
         [pc = "load" /\ pc' = "open" =>
             /\ env.BSMI_DRIVER # "" \/ env.BSMI_DSN # "" =>
                   config' = [driver |-> env.BSMI_DRIVER, dsn |-> "BSMI_DSN"]
             /\ env.NODE_ENV = "production" =>
                   /\ config'.dsn # "dev.db"
                   /\ env.MYSQL_HOST # "" => config'.dsn # "DATABASE_URL"]_vars
  <2> SUFFICES ASSUME EnvOK, [Next]_vars, pc = "load", pc' = "open"
               PROVE  /\ env.BSMI_DRIVER # "" \/ env.BSMI_DSN # "" =>
                            config' = [driver |-> env.BSMI_DRIVER, dsn |-> "BSMI_DSN"]
                      /\ env.NODE_ENV = "production" =>
                            /\ config'.dsn # "dev.db"
                            /\ env.MYSQL_HOST # "" => config'.dsn # "DATABASE_URL"
    OBVIOUS
  <2>1. Load
    BY DEF Next, Step, Environment, Gone, JobStep, ImportStep, EcStep, OpenDatabase, OpenFails,
       CheckVersion, RefuseVersion, Start, Finish, Stop, Cancel, Visit, Expire, vars,
       Download, DownloadFails, Acquire, AcquireFails, DisableChecks, DisableFails, Write,
       RestoreChecks, RestoreFails, Release, DownloadFeed, DownloadFeedFails, Replace,
       ReplaceFails, Search, SearchFails, Detail, ScanCancelled, NextPage, Look, LookFails,
       Fetch, FetchFails, Save, SaveFails, Pause, EcDone
  <2>2. config' = FromEnv(env) /\ FromEnv(env) # None /\ env \in Environments
    BY <2>1 DEF Load, Fail
  <2>. QED  BY <2>2, FromEnvKeeps DEF Explicit, Database
<1>. QED  BY <1>1, <1>2, <1>3, PTL DEF Spec, ProductionKeepsItsDatabase

-----------------------------------------------------------------------------
(* What Merge returns *)

\* Induction, in first-order form: a set of numbers that has 0 and the successor of each
\* of its numbers has them all.
LEMMA SetInduction ==
    ASSUME NEW S, 0 \in S, \A n \in Nat : n \in S => n + 1 \in S
    PROVE  Nat \subseteq S
<1>. DEFINE R == OpToRel(<, Nat)
<1>. DEFINE T == Nat \ S
<1>1. SUFFICES ASSUME T # {} PROVE FALSE
  OBVIOUS
<1>2. PICK n \in T : \A m \in T : <<m, n>> \notin R
  <2>1. IsWellFoundedOn(R, Nat)
    BY NatLessThanWellFounded
  <2>2. T \subseteq Nat
    OBVIOUS
  <2>. HIDE DEF R, T
  <2>. QED  BY <1>1, <2>1, <2>2, WFMin
<1>3. n \in Nat \ {0}
  OBVIOUS
<1>4. n - 1 \in Nat
  BY <1>3
<1>5. <<n - 1, n>> \in R
  BY <1>3, <1>4 DEF OpToRel
<1>6. n - 1 \in S
  BY <1>2, <1>4, <1>5
<1>7. n = (n - 1) + 1
  BY <1>3
<1>. QED  BY <1>4, <1>6, <1>7

\* g is the fold over the subsets of D that takes pick[s] out of s first.
Folds(g, D, T, a, pick, F) ==
    /\ g \in [SUBSET D -> T]
    /\ \A s \in SUBSET D : g[s] = IF s = {} THEN a ELSE F[pick[s]][g[s \ {pick[s]}]]

\* There is one: by induction on the size of the subsets on which it is right.
LEMMA SetRecursion ==
    ASSUME NEW D, IsFiniteSet(D), NEW T, NEW a \in T, NEW pick,
           \A s \in SUBSET D : s # {} => pick[s] \in s,
           NEW F \in [D -> [T -> T]]
    PROVE  \E g : Folds(g, D, T, a, pick, F)
<1>. DEFINE Value(g, s) == IF s = {} THEN a ELSE F[pick[s]][g[s \ {pick[s]}]]
            Upto(n, g) == \A s \in SUBSET D : Cardinality(s) <= n => g[s] = Value(g, s)
            S == {n \in Nat : \E g \in [SUBSET D -> T] : Upto(n, g)}
<1>1. ASSUME NEW s \in SUBSET D
      PROVE  Cardinality(s) \in Nat /\ IsFiniteSet(s) /\ (Cardinality(s) = 0 <=> s = {})
  BY FS_Subset, FS_CardinalityType, FS_EmptySet
<1>2. ASSUME NEW s \in SUBSET D, s # {}
      PROVE  /\ pick[s] \in D /\ s \ {pick[s]} \in SUBSET D
             /\ Cardinality(s \ {pick[s]}) = Cardinality(s) - 1
  BY <1>1, <1>2, FS_RemoveElement
<1>3. ASSUME NEW g \in [SUBSET D -> T], NEW s \in SUBSET D
      PROVE  Value(g, s) \in T
  <2>1. CASE s # {}
    <3>1. g[s \ {pick[s]}] \in T
      BY <1>2, <2>1
    <3>. QED  BY <1>2, <2>1, <3>1
  <2>. QED  BY <2>1
<1>4. 0 \in S
  <2>. DEFINE g == [s \in SUBSET D |-> a]
  <2>1. g \in [SUBSET D -> T] /\ Upto(0, g)
    BY <1>1
  <2>. QED  BY <2>1
<1>5. ASSUME NEW n \in Nat, n \in S
      PROVE  n + 1 \in S
  <2>1. PICK g \in [SUBSET D -> T] : Upto(n, g)
    BY <1>5
  <2>. DEFINE h == [s \in SUBSET D |-> IF Cardinality(s) = n + 1 THEN Value(g, s) ELSE g[s]]
  <2>2. h \in [SUBSET D -> T]
    <3>. HIDE DEF Value
    <3>. QED  BY <1>3
  <2>3. ASSUME NEW s \in SUBSET D, Cardinality(s) <= n + 1
        PROVE  h[s] = Value(h, s)
    <3>1. s # {} => h[s \ {pick[s]}] = g[s \ {pick[s]}]
      <4>. HIDE DEF Value
      <4>1. ASSUME s # {} PROVE Cardinality(s \ {pick[s]}) # n + 1
        BY <1>1, <1>2, <2>3, <4>1
      <4>. QED  BY <1>2, <4>1
    <3>2. Value(h, s) = Value(g, s)
      <4>. HIDE DEF h
      <4>. QED  BY <3>1
    <3>. HIDE DEF Value
    <3>3. CASE Cardinality(s) = n + 1
      BY <3>2, <3>3
    <3>4. CASE Cardinality(s) # n + 1
      BY <1>1, <2>1, <2>3, <3>2, <3>4
    <3>. QED  BY <3>3, <3>4
  <2>. HIDE DEF h, Value
  <2>. QED  BY <2>2, <2>3
<1>. HIDE DEF S
<1>6. Cardinality(D) \in S
  BY <1>1, <1>4, <1>5, SetInduction
<1>. USE DEF S
<1>7. PICK g \in [SUBSET D -> T] : Upto(Cardinality(D), g)
  BY <1>6
<1>8. \A s \in SUBSET D : Cardinality(s) <= Cardinality(D)
  BY FS_Subset
<1>. QED  BY <1>7, <1>8 DEF Folds

\* Max returns the greatest of places.
LEMMA MaxOf ==
    ASSUME NEW n \in Nat, NEW s \in SUBSET (1..n), s # {}
    PROVE  Max(s) \in s /\ \A i \in s : i <= Max(s)
<1>. DEFINE S == {m \in Nat : \A q \in SUBSET (1..m) : q # {} => \E x \in q : \A y \in q : x >= y}
<1>1. 0 \in S
  <2>1. \A q \in SUBSET (1..0) : q = {}
    OBVIOUS
  <2>. QED  BY <2>1
<1>2. ASSUME NEW m \in Nat, m \in S PROVE m + 1 \in S
  <2>1. ASSUME NEW q \in SUBSET (1..m + 1), q # {} PROVE \E x \in q : \A y \in q : x >= y
    <3>1. CASE m + 1 \in q
      BY <3>1
    <3>2. CASE m + 1 \notin q
      <4>1. q \in SUBSET (1..m)
        BY <3>2
      <4>. QED  BY <4>1, <1>2, <2>1
    <3>. QED  BY <3>1, <3>2
  <2>. QED  BY <2>1
<1>. HIDE DEF S
<1>3. n \in S
  BY <1>1, <1>2, SetInduction
<1>4. \E x \in s : \A y \in s : x >= y
  BY <1>3 DEF S
<1>. QED  BY <1>4 DEF Max

Rows == [id : Ids, file : Nat, place : Nat]

\* The rows after one place of a file: the body of the loop of Merge.
Added(rows, file, number, i) ==
    IF file[i] = NoId \/ file[i] \in Seen(rows) THEN rows
    ELSE Append(rows, Row(file[i], number, i))

\* The recursive function that Merge stands for, by the definitions of its fold.
MergeUpto(rows, file, number) ==
    CHOOSE iter : iter = [s \in SUBSET DOMAIN file |->
        IF s = {} THEN rows ELSE Added(iter[s \ {Max(s)}], file, number, Max(s))]

\* Merge is its value for the whole file.
LEMMA MergeIs ==
    ASSUME NEW rows, NEW n \in Nat, NEW file \in [1..n -> Ids \cup {NoId}], NEW number \in Nat
    PROVE  Merge(rows, file, number) = MergeUpto(rows, file, number)[1..n]
<1>1. \A s \in SUBSET DOMAIN file : s # {} => Max(s) \in DOMAIN file
  BY MaxOf
<1>. DEFINE self == [i \in DOMAIN file |-> i]
            raw(iter) == [s \in SUBSET DOMAIN self |->
                IF s = {} THEN rows ELSE Added(iter[s \ {Max(s)}], file, number, self[Max(s)])]
            upto(iter) == [s \in SUBSET DOMAIN file |->
                IF s = {} THEN rows ELSE Added(iter[s \ {Max(s)}], file, number, Max(s))]
<1>2. Merge(rows, file, number) = (CHOOSE iter : iter = raw(iter))[DOMAIN self]
  BY DEF Merge, Added, FoldLeftDomain, FoldLeft, MapThenFoldSet
<1>3. DOMAIN self = DOMAIN file /\ \A i \in DOMAIN file : self[i] = i
  OBVIOUS
<1>. HIDE DEF self
<1>4. ASSUME NEW iter PROVE raw(iter) = upto(iter)
  BY <1>1, <1>3
<1>. HIDE DEF raw, upto
<1>5. (CHOOSE iter : iter = raw(iter)) = (CHOOSE iter : iter = upto(iter))
  BY <1>4
<1>6. MergeUpto(rows, file, number) = CHOOSE iter : iter = upto(iter)
  BY DEF MergeUpto, upto
<1>. QED  BY <1>2, <1>3, <1>5, <1>6

\* m[i] is the rows after the first i of the n places of a file.
Merging(m, n, rows, file, number) ==
    /\ m \in [0..n -> Seq(Rows)]
    /\ m[0] = rows /\ m[n] = Merge(rows, file, number)
    /\ \A i \in 0..n - 1 : m[i + 1] = Added(m[i], file, number, i + 1)

\* Merge adds the rows of a file one place after the other.
LEMMA MergeSteps ==
    ASSUME NEW rows \in Seq(Rows), NEW n \in Nat, NEW file \in [1..n -> Ids \cup {NoId}], NEW number \in Nat
    PROVE  \E m : Merging(m, n, rows, file, number)
<1>. DEFINE T == Seq(Rows)
            D == 1..n
            pick == [s \in SUBSET D |-> Max(s)]
            F == [i \in D |-> [r \in T |-> Added(r, file, number, i)]]
<1>0. ASSUME NEW r \in Seq(Rows), NEW i \in 1..n
       PROVE  Added(r, file, number, i) \in Seq(Rows)
  <2>1. CASE file[i] # NoId
    <3>1. Row(file[i], number, i) \in Rows
      BY <2>1 DEF Row, Rows
    <3>. QED  BY <3>1 DEF Added
  <2>2. CASE file[i] = NoId
    BY <2>2 DEF Added
  <2>. QED  BY <2>1, <2>2
<1>1. IsFiniteSet(D)
  BY FS_Interval
<1>2. \A s \in SUBSET D : s # {} => pick[s] \in s
  BY MaxOf
<1>3. F \in [D -> [T -> T]]
  <2>1. ASSUME NEW i \in D, NEW r \in T PROVE Added(r, file, number, i) \in T
    BY <1>0
  <2>. HIDE DEF T
  <2>. QED  BY <2>1
<1>4. PICK g : Folds(g, D, T, rows, pick, F)
  <2>. HIDE DEF T, D, pick, F
  <2>1. rows \in T
    BY DEF T
  <2>. QED  BY <1>1, <1>2, <1>3, <2>1, SetRecursion
<1>5. g = [s \in SUBSET DOMAIN file |->
        IF s = {} THEN rows ELSE Added(g[s \ {Max(s)}], file, number, Max(s))]
  <2>1. g \in [SUBSET D -> T]
    BY <1>4 DEF Folds
  <2>2. ASSUME NEW s \in SUBSET D, s # {} PROVE g[s] = Added(g[s \ {Max(s)}], file, number, Max(s))
    <3>1. pick[s] = Max(s) /\ Max(s) \in D /\ s \ {Max(s)} \in SUBSET D
      BY <1>2, <2>2
    <3>2. g[s \ {Max(s)}] \in T
      BY <2>1, <3>1
    <3>3. g[s] = F[pick[s]][g[s \ {pick[s]}]]
      BY <1>4, <2>2 DEF Folds
    <3>. HIDE DEF T, pick
    <3>. QED  BY <3>1, <3>2, <3>3
  <2>3. g[{}] = rows
    BY <1>4 DEF Folds
  <2>. HIDE DEF F, pick, T
  <2>. QED  BY <2>1, <2>2, <2>3
<1>6. MergeUpto(rows, file, number) = [s \in SUBSET DOMAIN file |->
        IF s = {} THEN rows ELSE Added(MergeUpto(rows, file, number)[s \ {Max(s)}], file, number, Max(s))]
  BY <1>5 DEF MergeUpto
<1>. DEFINE h == MergeUpto(rows, file, number)
<1>. HIDE DEF D, T, pick, F
<1>7. ASSUME NEW s \in SUBSET (1..n)
      PROVE  h[s] = IF s = {} THEN rows ELSE Added(h[s \ {Max(s)}], file, number, Max(s))
  BY <1>6
<1>. HIDE DEF h
<1>8. h[1..0] = rows
  <2>1. 1..0 = {} /\ {} \in SUBSET (1..n)
    OBVIOUS
  <2>. QED  BY <2>1, <1>7
<1>9. ASSUME NEW i \in 0..n - 1
      PROVE  h[1..i + 1] = Added(h[1..i], file, number, i + 1)
  <2>. DEFINE s == 1..i + 1
  <2>1. /\ s \in SUBSET (1..n) /\ i + 1 \in s /\ s \ {i + 1} = 1..i
        /\ \A j \in s : j \in Nat /\ j <= i + 1
    <3>1. \A j \in s : j \in 1..n
      BY <1>9
    <3>. QED  BY <3>1
  <2>. HIDE DEF s
  <2>2. Max(s) \in s /\ i + 1 <= Max(s)
    BY <2>1, MaxOf
  <2>3. Max(s) = i + 1
    BY <2>1, <2>2
  <2>4. s # {}
    BY <2>1
  <2>5. h[s] = Added(h[s \ {Max(s)}], file, number, Max(s))
    BY <2>1, <2>4, <1>7
  <2>. QED  BY <2>1, <2>3, <2>5 DEF s
<1>. DEFINE m == [i \in 0..n |-> h[1..i]]
<1>11. ASSUME NEW i \in 0..n PROVE m[i] \in Seq(Rows)
  <2>. DEFINE S == {j \in Nat : j <= n => h[1..j] \in Seq(Rows)}
  <2>1. 0 \in S
    BY <1>8
  <2>2. ASSUME NEW j \in Nat, j \in S PROVE j + 1 \in S
    <3>1. CASE j + 1 <= n
      <4>1. j \in 0..n - 1 /\ j + 1 \in 1..n
        BY <3>1
      <4>2. h[1..j] \in Seq(Rows)
        BY <2>2, <4>1
      <4>3. h[1..j + 1] = Added(h[1..j], file, number, j + 1)
        BY <4>1, <1>9
      <4>4. h[1..j + 1] \in Seq(Rows)
        BY <4>1, <4>2, <4>3, <1>0
      <4>. QED  BY <4>4
    <3>2. CASE ~(j + 1 <= n)
      BY <3>2
    <3>. QED  BY <3>1, <3>2
  <2>. HIDE DEF S
  <2>3. i \in S
    BY <2>1, <2>2, SetInduction
  <2>. QED  BY <2>3 DEF S
<1>12. h[1..n] = Merge(rows, file, number)
  BY MergeIs DEF h
<1>13. Merging(m, n, rows, file, number)
  <2>1. \A i \in 0..n - 1 : m[i + 1] = Added(m[i], file, number, i + 1)
    BY <1>9
  <2>2. m[0] = rows /\ m[n] = Merge(rows, file, number)
    BY <1>8, <1>12
  <2>. QED  BY <1>11, <2>1, <2>2 DEF Merging
<1>. QED  BY <1>13


\* Place m of file f is among those read, and in the last file among the first k.
Counted(files, k, f, m) ==
    f \in 1..Len(files) /\ m \in DOMAIN files[f] /\ (f < Len(files) \/ m <= k)

NotAfter(f, m, g, l) == f < g \/ (f = g /\ m <= l)

\* The rows are, for every certificate named at a counted place, its first place.
FirstRows(rows, files, k) ==
    /\ rows \in Seq(Rows)
    /\ \A i, j \in DOMAIN rows : rows[i].id = rows[j].id => i = j
    /\ \A i \in DOMAIN rows :
          /\ Counted(files, k, rows[i].file, rows[i].place)
          /\ files[rows[i].file][rows[i].place] = rows[i].id
          /\ \A f, m \in Nat :
                Counted(files, k, f, m) /\ files[f][m] = rows[i].id
                    => NotAfter(rows[i].file, rows[i].place, f, m)
    /\ \A f, m \in Nat :
          Counted(files, k, f, m) => files[f][m] = NoId \/ files[f][m] \in Seen(rows)

\* The types of files and rows.
LEMMA FileType ==
    ASSUME NEW file \in Files
    PROVE  \E n \in 1..MaxRows : file \in [1..n -> Ids \cup {NoId}] /\ Len(file) = n /\ n \in Nat
<1>. PICK n \in 1..MaxRows : file \in [1..n -> Ids \cup {NoId}]
  BY DEF Files
<1>1. n \in Nat /\ file \in Seq(Ids \cup {NoId})
  BY ImportAssumption
<1>. QED  BY <1>1

\* The parts of a row.
LEMMA RowsType ==
    ASSUME NEW rows \in Seq(Rows), NEW i \in DOMAIN rows
    PROVE  rows[i].file \in Nat /\ rows[i].place \in Nat /\ rows[i].id \in Ids
<1>1. rows[i] \in Rows
  OBVIOUS
<1>. QED  BY <1>1 DEF Rows

\* One more place keeps this.
LEMMA AddedFirst ==
    ASSUME NEW files \in Seq(Files), NEW k \in Nat, NEW rows, files # <<>>,
           k + 1 \in DOMAIN files[Len(files)], FirstRows(rows, files, k)
    PROVE  FirstRows(Added(rows, files[Len(files)], Len(files), k + 1), files, k + 1)
<1>. DEFINE here == Len(files)
            id == files[here][k + 1]
            place == k + 1
<1>0. here \in 1..Len(files) /\ here \in Nat /\ files[here] \in Files /\ place \in Nat
  OBVIOUS
<1>1. id \in Ids \cup {NoId}
  BY <1>0, FileType
<1>2. \A f, m \in Nat : Counted(files, place, f, m) <=> Counted(files, k, f, m) \/ (f = here /\ m = place)
  BY <1>0 DEF Counted
<1>3. /\ rows \in Seq(Rows)
      /\ \A i, j \in DOMAIN rows : rows[i].id = rows[j].id => i = j
      /\ \A i \in DOMAIN rows :
            /\ Counted(files, k, rows[i].file, rows[i].place)
            /\ files[rows[i].file][rows[i].place] = rows[i].id
            /\ \A f, m \in Nat :
                  Counted(files, k, f, m) /\ files[f][m] = rows[i].id
                      => NotAfter(rows[i].file, rows[i].place, f, m)
      /\ \A f, m \in Nat :
            Counted(files, k, f, m) => files[f][m] = NoId \/ files[f][m] \in Seen(rows)
  BY DEF FirstRows
<1>4. \A i \in DOMAIN rows : rows[i].file \in Nat /\ rows[i].place \in Nat /\ rows[i].id \in Ids
  BY <1>3, RowsType
<1>5. ASSUME NEW i \in DOMAIN rows
      PROVE  /\ Counted(files, place, rows[i].file, rows[i].place)
             /\ NotAfter(rows[i].file, rows[i].place, here, place)
  BY <1>0, <1>2, <1>3, <1>4 DEF Counted, NotAfter
<1>. HIDE DEF here, id, place
<1>6. CASE id = NoId \/ id \in Seen(rows)
  <2>1. Added(rows, files[here], here, place) = rows
    BY <1>6 DEF Added, id, here, place
  <2>. QED  BY <1>2, <1>3, <1>5, <1>6, <2>1 DEF FirstRows, here, place, id
<1>7. CASE ~(id = NoId \/ id \in Seen(rows))
  <2>. DEFINE row == Row(id, here, place)
              more == Append(rows, row)
  <2>1. Added(rows, files[here], here, place) = more
    BY <1>7 DEF Added, id, here, place
  <2>2. row \in Rows /\ row.id = id /\ row.file = here /\ row.place = place
    BY <1>0, <1>1, <1>7 DEF Row, Rows
  <2>. HIDE DEF row
  <2>3. /\ more \in Seq(Rows) /\ DOMAIN more = DOMAIN rows \cup {Len(rows) + 1}
        /\ \A i \in DOMAIN rows : more[i] = rows[i]
        /\ more[Len(rows) + 1] = row /\ Len(rows) + 1 \notin DOMAIN rows
    BY <1>3, <2>2
  <2>. HIDE DEF more
  <2>4. \A i \in DOMAIN rows : rows[i].id # id
    BY <1>7 DEF Seen
  <2>5. Seen(more) = Seen(rows) \cup {id}
    BY <2>2, <2>3 DEF Seen
  <2>6. \A i, j \in DOMAIN more : more[i].id = more[j].id => i = j
    BY <1>3, <2>2, <2>3, <2>4
  <2>7. Counted(files, place, here, place) /\ files[here][place] = id
    BY <1>0 DEF Counted, id, here, place
  <2>8. \A f, m \in Nat : Counted(files, place, f, m) /\ files[f][m] = id => f = here /\ m = place
    BY <1>2, <1>3, <1>7
  <2>9. ASSUME NEW i \in DOMAIN more
        PROVE  /\ Counted(files, place, more[i].file, more[i].place)
               /\ files[more[i].file][more[i].place] = more[i].id
               /\ \A f, m \in Nat :
                     Counted(files, place, f, m) /\ files[f][m] = more[i].id
                         => NotAfter(more[i].file, more[i].place, f, m)
    <3>1. CASE i \in DOMAIN rows
      BY <1>2, <1>3, <1>5, <2>3, <2>4, <3>1
    <3>2. CASE i = Len(rows) + 1
      <4>1. NotAfter(here, place, here, place)
        BY <1>0 DEF NotAfter
      <4>. QED  BY <2>2, <2>3, <2>7, <2>8, <3>2, <4>1
    <3>. QED  BY <2>3, <3>1, <3>2
  <2>10. \A f, m \in Nat : Counted(files, place, f, m) => files[f][m] = NoId \/ files[f][m] \in Seen(more)
    BY <1>2, <1>3, <2>5, <2>7
  <2>11. FirstRows(more, files, place)
    BY <2>3, <2>6, <2>9, <2>10 DEF FirstRows
  <2>. QED  BY <2>1, <2>11 DEF here, place
<1>. QED  BY <1>6, <1>7

\* So does one more file.
LEMMA MergeFirst ==
    ASSUME NEW files \in Seq(Files), NEW rows, FirstRows(rows, files, MaxRows), NEW file \in Files
    PROVE  FirstRows(Merge(rows, file, Len(files) + 1), Append(files, file), MaxRows)
<1>. DEFINE more == Append(files, file)
            here == Len(files) + 1
<1>1. PICK n \in 1..MaxRows : file \in [1..n -> Ids \cup {NoId}] /\ Len(file) = n /\ n \in Nat
  BY FileType
<1>2. /\ more \in Seq(Files) /\ more # <<>> /\ Len(more) = here /\ more[here] = file /\ here \in Nat
      /\ \A f \in 1..Len(files) : more[f] = files[f] /\ f \in 1..here /\ f < here
      /\ \A f \in 1..here : f = here \/ f \in 1..Len(files)
  OBVIOUS
<1>3. rows \in Seq(Rows)
  BY DEF FirstRows
<1>4. \A f \in 1..Len(files) : \A m \in DOMAIN files[f] : m \in Nat /\ m <= MaxRows
  <2>1. ASSUME NEW f \in 1..Len(files), NEW m \in DOMAIN files[f] PROVE m \in Nat /\ m <= MaxRows
    <3>1. files[f] \in Files
      OBVIOUS
    <3>2. PICK l \in 1..MaxRows : files[f] \in [1..l -> Ids \cup {NoId}] /\ l \in Nat
      BY <3>1, FileType
    <3>. QED  BY <3>2, ImportAssumption
  <2>. QED  BY <2>1
<1>. HIDE DEF more, here
<1>5. \A f, m \in Nat : Counted(more, 0, f, m) <=> Counted(files, MaxRows, f, m)
  <2>1. \A f, m \in Nat : f \in 1..Len(files) /\ m \in DOMAIN files[f] => f < Len(files) \/ m <= MaxRows
    BY <1>4
  <2>2. \A m \in DOMAIN more[here] : ~(m <= 0)
    BY <1>1, <1>2
  <2>. QED  BY <1>2, <2>1, <2>2 DEF Counted
<1>6. \A f, m \in Nat : Counted(files, MaxRows, f, m) => more[f] = files[f]
  BY <1>2 DEF Counted
<1>7. FirstRows(rows, more, 0)
  <2>1. ASSUME NEW i \in DOMAIN rows
        PROVE  /\ Counted(more, 0, rows[i].file, rows[i].place)
               /\ more[rows[i].file][rows[i].place] = rows[i].id
               /\ \A f, m \in Nat :
                     Counted(more, 0, f, m) /\ more[f][m] = rows[i].id
                         => NotAfter(rows[i].file, rows[i].place, f, m)
    <3>1. rows[i].file \in Nat /\ rows[i].place \in Nat
      BY <1>3, RowsType
    <3>. QED  BY <3>1, <1>5, <1>6 DEF FirstRows
  <2>2. \A f, m \in Nat : Counted(more, 0, f, m) => more[f][m] = NoId \/ more[f][m] \in Seen(rows)
    BY <1>5, <1>6 DEF FirstRows
  <2>. QED  BY <1>3, <2>1, <2>2 DEF FirstRows
<1>8. PICK m : Merging(m, n, rows, file, here)
  BY <1>1, <1>2, <1>3, MergeSteps
<1>. DEFINE S == {i \in Nat : i <= n => FirstRows(m[i], more, i)}
<1>9. 0 \in S
  BY <1>7, <1>8 DEF Merging
<1>10. ASSUME NEW i \in Nat, i \in S PROVE i + 1 \in S
  <2>1. CASE i + 1 <= n
    <3>1. i \in 0..n - 1 /\ i + 1 \in DOMAIN more[Len(more)] /\ FirstRows(m[i], more, i)
      BY <1>1, <1>2, <1>10, <2>1
    <3>2. m[i + 1] = Added(m[i], more[Len(more)], Len(more), i + 1)
      BY <1>2, <1>8, <3>1 DEF Merging
    <3>3. FirstRows(m[i + 1], more, i + 1)
      BY <1>2, <3>1, <3>2, AddedFirst
    <3>. QED  BY <3>3
  <2>2. CASE ~(i + 1 <= n)
    BY <2>2
  <2>. QED  BY <2>1, <2>2
<1>. HIDE DEF S
<1>11. n \in S
  BY <1>1, <1>9, <1>10, SetInduction
<1>12. FirstRows(Merge(rows, file, here), more, n)
  BY <1>1, <1>8, <1>11 DEF S, Merging
<1>13. \A f, l \in Nat : Counted(more, n, f, l) <=> Counted(more, MaxRows, f, l)
  <2>1. \A l \in DOMAIN more[here] : l <= n /\ l <= MaxRows
    BY <1>1, <1>2, ImportAssumption
  <2>. QED  BY <1>2, <2>1 DEF Counted
<1>14. FirstRows(Merge(rows, file, here), more, MaxRows)
  <2>. DEFINE merged == Merge(rows, file, here)
  <2>. HIDE DEF merged
  <2>1. merged \in Seq(Rows)
    BY <1>12 DEF FirstRows, merged
  <2>2. \A i \in DOMAIN merged : merged[i].file \in Nat /\ merged[i].place \in Nat
    BY <2>1, RowsType
  <2>3. FirstRows(merged, more, n)
    BY <1>12 DEF merged
  <2>4. FirstRows(merged, more, MaxRows)
    BY <1>13, <2>2, <2>3 DEF FirstRows
  <2>. QED  BY <2>4 DEF merged
<1>. QED  BY <1>14 DEF here, more

-----------------------------------------------------------------------------
(* The work of a job *)

\* A process that runs no job has no rows of one.
NoJob ==
    pc \in {"load", "open", "version", "ready"} => read = <<>> /\ certs = <<>>

\* Each job keeps to its own points.
JobAtPoint ==
    /\ pc \in {"files", "acquire", "disable", "write", "restore", "release"} =>
          job \in {"import", "import-certificates"}
    /\ pc \in {"feed", "replace"} => job \in {"import", "import-authorizations"}
    /\ pc \in EcPoints => job \in Sources

\* While files are read, and from when all three are to the write, the job has met no
\* error, every file has a number, and the rows to write are the first of each
\* certificate in them.
FilesMerged ==
    pc \in {"files", "acquire", "disable", "write"} =>
        /\ ~err /\ read \in Seq(Files) /\ FirstRows(certs, read, MaxRows)
        /\ \A f \in DOMAIN read : HasIds(read[f])
        /\ IF pc = "files" THEN Len(read) < 3 ELSE Len(read) = 3

\* There are rows to write once three files with numbers were read.
CertsThere ==
    \/ pc \in {"acquire", "disable", "write", "restore", "release"}
    \/ pc \in {"feed", "replace"} /\ job = "import"
    => certs # <<>>

\* Without an error they are in the table from there on.
CertsWritten ==
    /\ pc \in {"restore", "release"} /\ ~err => table = Imported
    /\ pc \in {"feed", "replace"} => ~err /\ (job = "import" => table = Imported)

\* Every registration found is saved, unknown to BSMI or still to be looked at, unless
\* an error is kept; the one that the job pauses after is no longer to be looked at.
SearchCovered ==
    /\ pc \in {"registrations", "fetch", "save", "pause"} => missed \/ found \subseteq saved \cup absent \cup todo
    /\ pc = "pause" => missed \/ Current \in saved \cup absent

\* What a job has done at each of its points.
WInv == NoJob /\ JobAtPoint /\ FilesMerged /\ CertsThere /\ CertsWritten /\ SearchCovered /\ SuccessMeansDone

\* Another file is merged, and after the third there are rows.
LEMMA DownloadWorks ==
    ASSUME WInv, Download, UNCHANGED ec
    PROVE  WInv'
<1>1. PICK file \in Files :
         HasIds(file) /\ read' = Append(read, file) /\ certs' = Merge(certs, file, Len(read) + 1)
  BY DEF Download
<1>2. /\ pc = "files" /\ pc' = (IF Len(read) = 2 THEN "acquire" ELSE "files") /\ job' = job
      /\ read \in Seq(Files) /\ FirstRows(certs, read, MaxRows) /\ Len(read) \in Nat
      /\ \A f \in DOMAIN read : HasIds(read[f])
      /\ Len(read) < 3 /\ job \in {"import", "import-certificates"} /\ ~err /\ err' = err
  BY DEF Download, Continue, process, WInv, FilesMerged, JobAtPoint
<1>3. Len(read') = Len(read) + 1 /\ read' \in Seq(Files)
  BY <1>1, <1>2
<1>4. FirstRows(certs', read', MaxRows)
  BY <1>1, <1>2, MergeFirst
<1>7. \A f \in DOMAIN read' : HasIds(read'[f])
  BY <1>1, <1>2
<1>5. certs' # <<>>
  <2>1. PICK m \in DOMAIN file : file[m] # NoId
    BY <1>1 DEF HasIds
  <2>2. m \in Nat /\ m <= MaxRows
    BY <2>1, FileType, ImportAssumption
  <2>3. Counted(read', MaxRows, Len(read'), m) /\ read'[Len(read')][m] = file[m] /\ Len(read') \in Nat
    BY <1>1, <1>2, <1>3, <2>1, <2>2 DEF Counted
  <2>4. file[m] \in Seen(certs')
    BY <1>4, <2>1, <2>2, <2>3 DEF FirstRows
  <2>. QED  BY <2>4 DEF Seen
<1>6. /\ IF pc' = "files" THEN Len(read') < 3 ELSE Len(read') = 3
      /\ pc' \in {"files", "acquire"}
  <2>1. CASE Len(read) = 2
    BY <1>2, <1>3, <2>1
  <2>2. CASE Len(read) # 2
    <3>1. pc' = "files"
      BY <1>2, <2>2
    <3>. DEFINE n == Len(read)
    <3>0. n \in Nat /\ n < 3 /\ n # 2
      BY <1>2, <2>2
    <3>. HIDE DEF n
    <3>2. n + 1 < 3
      BY <3>0
    <3>. QED  BY <1>3, <3>1, <3>2 DEF n
  <2>. QED  BY <2>1, <2>2
<1>. QED
  BY <1>2, <1>3, <1>4, <1>5, <1>6, <1>7
  DEF WInv, NoJob, JobAtPoint, FilesMerged, CertsThere, CertsWritten, SearchCovered, SuccessMeansDone, EcPoints

\* The steps of an import keep track of its work.
LEMMA ImportStepWorks ==
    ASSUME WInv, ImportStep, UNCHANGED ec
    PROVE  WInv'
<1>0. NoJob /\ JobAtPoint /\ FilesMerged /\ CertsThere /\ CertsWritten
  BY DEF WInv
<1>1. CASE DownloadFails \/ AcquireFails \/ DownloadFeedFails \/ ReplaceFails
  <2>1. pc' = "end" /\ err'
    BY <1>1 DEF DownloadFails, AcquireFails, DownloadFeedFails, ReplaceFails, Fail
  <2>. QED
    BY <2>1 DEF WInv, NoJob, JobAtPoint, FilesMerged, CertsThere, CertsWritten, SearchCovered,
                SuccessMeansDone, EcPoints
<1>2. CASE Acquire \/ DisableChecks \/ DisableFails
  <2>1. /\ pc \in {"acquire", "disable"} /\ pc' \in {"disable", "write", "release"} /\ job' = job
        /\ certs' = certs /\ read' = read /\ (pc' = "release" => err')
        /\ pc' # "release" => err' = err
    BY <1>2 DEF Acquire, DisableChecks, DisableFails, Continue, Fail, process, import
  <2>. QED
    BY <1>0, <2>1 DEF WInv, NoJob, JobAtPoint, FilesMerged, CertsThere, CertsWritten, SearchCovered,
                      SuccessMeansDone, EcPoints
<1>3. CASE Write
  <2>1. /\ pc = "write" /\ pc' = "restore" /\ job' = job /\ certs' = certs
        /\ err' \/ table' = Imported
    BY <1>3 DEF Write, Continue, Fail, process
  <2>2. table' = Imported => Imported' = Imported
    BY <2>1 DEF Imported
  <2>. QED
    BY <1>0, <2>1, <2>2 DEF WInv, NoJob, JobAtPoint, FilesMerged, CertsThere, CertsWritten,
                            SearchCovered, SuccessMeansDone, EcPoints
<1>4. CASE RestoreChecks \/ RestoreFails \/ Release
  <2>1. /\ pc \in {"restore", "release"} /\ pc' = (IF pc = "restore" THEN "release" ELSE AfterCertificates)
        /\ job' = job /\ certs' = certs /\ table' = table /\ (err => err')
        /\ pc = "release" => err' = err
    BY <1>4 DEF RestoreChecks, RestoreFails, Release, Continue, Fail, process, import, tables
  <2>2. Imported' = Imported
    BY <2>1 DEF Imported
  <2>3. CASE pc = "restore"
    <3>1. pc' = "release" /\ job \in {"import", "import-certificates"} /\ certs # <<>>
      BY <1>0, <2>1, <2>3 DEF JobAtPoint, CertsThere
    <3>2. ~err' => table = Imported
      <4>1. ~err => table = Imported
        BY <1>0, <2>3 DEF CertsWritten
      <4>. QED  BY <2>1, <4>1
    <3>. QED
      BY <2>1, <2>2, <3>1, <3>2 DEF WInv, NoJob, JobAtPoint, FilesMerged, CertsThere, CertsWritten,
                                  SearchCovered, SuccessMeansDone, EcPoints
  <2>4. CASE pc = "release"
    <3>1. /\ job \in {"import", "import-certificates"} /\ certs # <<>> /\ (~err => table = Imported)
      BY <1>0, <2>4 DEF JobAtPoint, CertsThere, CertsWritten
    <3>2. CASE err \/ job = "import-certificates"
      <4>1. pc' = "end" /\ (err' \/ job' = "import-certificates")
        BY <2>1, <2>4, <3>2 DEF AfterCertificates
      <4>2. SuccessMeansDone'
        BY <2>1, <2>2, <2>4, <3>1, <4>1 DEF SuccessMeansDone, Sources
      <4>. QED
        BY <4>1, <4>2 DEF WInv, NoJob, JobAtPoint, FilesMerged, CertsThere, CertsWritten,
                          SearchCovered, EcPoints
    <3>3. CASE ~err /\ job = "import"
      <4>1. pc' = "feed" /\ ~err'
        BY <2>1, <2>4, <3>3 DEF AfterCertificates
      <4>. QED
        BY <2>1, <2>2, <3>1, <3>3, <4>1
        DEF WInv, NoJob, JobAtPoint, FilesMerged, CertsThere, CertsWritten, SearchCovered,
            SuccessMeansDone, EcPoints
    <3>. QED  BY <3>1, <3>2, <3>3
  <2>. QED  BY <2>1, <2>3, <2>4
<1>5. CASE DownloadFeed \/ Replace
  <2>1. /\ pc \in {"feed", "replace"} /\ pc' = (IF pc = "feed" THEN "replace" ELSE "end")
        /\ UNCHANGED <<job, certs, table, err>>
        /\ pc = "replace" => stored' = feed /\ feed' = feed /\ feed # {}
    BY <1>5 DEF DownloadFeed, Replace, Query, Continue, process, tables
  <2>2. Imported' = Imported
    BY <2>1 DEF Imported
  <2>3. SuccessMeansDone'
    BY <1>0, <2>1, <2>2 DEF SuccessMeansDone, Sources, JobAtPoint, CertsThere, CertsWritten
  <2>. QED
    BY <1>0, <2>1, <2>2, <2>3
    DEF WInv, NoJob, JobAtPoint, FilesMerged, CertsThere, CertsWritten, SearchCovered, EcPoints
<1>. QED  BY <1>1, <1>2, <1>3, <1>4, <1>5, DownloadWorks DEF ImportStep

\* So do those of a crawl.
LEMMA EcStepWorks ==
    ASSUME WInv, EcStep, UNCHANGED import
    PROVE  WInv'
<1>0. /\ JobAtPoint /\ SearchCovered
      /\ pc \in EcPoints /\ pc' \in EcPoints \cup {"end"} /\ job' = job /\ job \in Sources
  BY DEF EcStep, Search, SearchFails, Detail, ScanCancelled, NextPage, Look, LookFails, Fetch,
         FetchFails, Miss, Save, SaveFails, Pause, EcDone, Continue, Fail, process, EcPoints, WInv, JobAtPoint
<1>1. SearchCovered'
  <2>1. CASE SearchFails \/ ScanCancelled \/ LookFails \/ EcDone \/ Search \/ Detail
    <3>1. pc' \in {"end", "details"}
      BY <2>1 DEF SearchFails, ScanCancelled, LookFails, EcDone, Search, Detail, Continue, Fail
    <3>. QED  BY <3>1 DEF SearchCovered
  <2>2. CASE NextPage
    <3>1. pc' = "search" \/ (pc' = "registrations" /\ todo' = found /\ found' = found)
      BY <2>2 DEF NextPage, Continue
    <3>. QED  BY <3>1 DEF SearchCovered
  <2>3. CASE Look
    BY <1>0, <2>3 DEF Look, Continue, SearchCovered
  <2>4. CASE Fetch \/ FetchFails
    <3>1. /\ pc = "fetch" /\ UNCHANGED <<found, todo, saved>> /\ Current' = Current
          /\ pc' \in {"save", "pause", "end"} /\ absent \subseteq absent'
          /\ missed => missed'
          /\ pc' = "pause" => missed' \/ Current \in absent'
      BY <2>4 DEF Fetch, FetchFails, Miss, Continue, Fail, Current
    <3>. QED  BY <1>0, <3>1 DEF SearchCovered
  <2>5. CASE Save \/ SaveFails
    <3>1. /\ pc = "save" /\ UNCHANGED <<found, todo, absent>> /\ Current' = Current
          /\ pc' \in {"pause", "end"} /\ saved \subseteq saved'
          /\ missed => missed'
          /\ pc' = "pause" => missed' \/ Current \in saved'
      BY <2>5 DEF Save, SaveFails, Miss, Continue, Fail, Current
    <3>. QED  BY <1>0, <3>1 DEF SearchCovered
  <2>6. CASE Pause
    BY <1>0, <2>6 DEF Pause, Continue, Fail, SearchCovered
  <2>. QED  BY <2>1, <2>2, <2>3, <2>4, <2>5, <2>6 DEF EcStep
<1>2. SuccessMeansDone'
  <2>1. pc' = "end" => err' \/ EcDone
    BY DEF EcStep, Search, SearchFails, Detail, ScanCancelled, NextPage, Look, LookFails, Fetch,
           FetchFails, Miss, Save, SaveFails, Pause, EcDone, Continue, Fail
  <2>2. EcDone => err' \/ (~missed /\ todo = {} /\ pc = "registrations" /\ UNCHANGED ec)
    BY DEF EcDone, Fail
  <2>3. EcDone => err' \/ found' \subseteq saved' \cup absent'
    BY <1>0, <2>2 DEF SearchCovered, ec
  <2>. QED  BY <1>0, <2>1, <2>3 DEF SuccessMeansDone, Sources
<1>. QED
  BY <1>0, <1>1, <1>2 DEF WInv, NoJob, JobAtPoint, FilesMerged, CertsThere, CertsWritten, EcPoints

\* The invariant of the work holds at first.
LEMMA InitWInv == Init => WInv
  BY DEF Init, WInv, NoJob, JobAtPoint, FilesMerged, CertsThere, CertsWritten, SearchCovered,
         SuccessMeansDone, EcPoints

\* Every step keeps it.
LEMMA NextWInv == WInv /\ [Next]_vars => WInv'
<1> SUFFICES ASSUME WInv, [Next]_vars PROVE WInv'
  OBVIOUS
<1>0. NoJob /\ JobAtPoint /\ FilesMerged /\ CertsThere /\ CertsWritten /\ SearchCovered /\ SuccessMeansDone
  BY DEF WInv
<1>1. CASE Load \/ OpenDatabase \/ OpenFails \/ CheckVersion \/ RefuseVersion \/ Finish \/ Stop
  <2>1. /\ pc' \in {"open", "version", "ready", "exit"}
        /\ \/ pc \in {"load", "open", "version", "ready"} /\ UNCHANGED <<read, certs>>
           \/ read' = <<>> /\ certs' = <<>>
    BY <1>1 DEF Load, OpenDatabase, OpenFails, CheckVersion, RefuseVersion, Finish, Stop, Continue,
                Fail, import
  <2>. QED
    BY <1>0, <2>1 DEF WInv, NoJob, JobAtPoint, FilesMerged, CertsThere, CertsWritten, SearchCovered,
                      SuccessMeansDone, EcPoints
<1>2. ASSUME NEW j \in Jobs, Start(j)
      PROVE  WInv'
  <2>1. /\ pc = "ready" /\ pc' = FirstStep(j) /\ job' = j /\ ~err' /\ UNCHANGED <<read, certs>>
    BY <1>2 DEF Start, import
  <2>2. /\ read' = <<>> /\ certs' = <<>>
    BY <1>0, <2>1 DEF NoJob
  <2>3. \/ pc' = "files" /\ j \in {"import", "import-certificates"}
        \/ pc' = "feed" /\ j = "import-authorizations"
        \/ pc' = "search" /\ j \in Sources
    BY <2>1 DEF FirstStep, Jobs, Imports, Sources
  <2>4. /\ <<>> \in Seq(Files) /\ FirstRows(<<>>, <<>>, MaxRows) /\ Len(<<>>) = 0
    BY DEF FirstRows, Counted
  <2>. QED
    BY <2>1, <2>2, <2>3, <2>4
    DEF WInv, NoJob, JobAtPoint, FilesMerged, CertsThere, CertsWritten, SearchCovered,
        SuccessMeansDone, EcPoints
<1>3. CASE Environment \/ UNCHANGED vars
  <2>1. /\ UNCHANGED <<pc, job, err, import, found, todo, absent, missed>> /\ saved \subseteq saved'
    BY <1>3 DEF Environment, Cancel, Visit, Expire, vars, process, import, ec
  <2>2. UNCHANGED <<read, certs, table, feed, stored>>
    BY <2>1 DEF import, tables
  <2>3. Imported' = Imported /\ Current' = Current
    BY <2>1, <2>2 DEF Imported, Current
  <2>4. SuccessMeansDone' /\ SearchCovered'
    BY <1>0, <2>1, <2>2, <2>3 DEF SuccessMeansDone, SearchCovered
  <2>. QED
    BY <1>0, <2>1, <2>2, <2>3, <2>4 DEF WInv, NoJob, JobAtPoint, FilesMerged, CertsThere, CertsWritten
<1>. QED
  BY <1>1, <1>2, <1>3, ImportStepWorks, EcStepWorks DEF Next, Step, JobStep, Gone

\* The invariant of the work holds: at each point of a job, what it has downloaded and
\* written is what the code has done by then, for any files, pages and cancellations.
THEOREM WorkInvariance == Spec => []WInv
  BY InitWInv, NextWInv, PTL DEF Spec

\* A job that ends without an error has done its work (jobs.go:97-117,
\* import.go:71-120): no failure among many is forgotten on the way.
THEOREM SuccessAlwaysMeansDone == Spec => []SuccessMeansDone
<1>1. WInv => SuccessMeansDone
  BY DEF WInv
<1>. QED  BY <1>1, WorkInvariance, PTL

\* A job changes the certificates only when it has read all three files and met no
\* error, and then every certificate that any of them names has a row of theirs
\* (import.go:71-101): no other step of the process writes one, and none comes to
\* the write past a file that failed.
THEOREM ImportsAlwaysWhole == Spec => ImportsAreWhole
<1>1. ASSUME WInv, [Next]_vars, table' # table, pc # "end"
      PROVE  /\ ~err /\ Len(read) = 3
             /\ \A file \in Range(read) :
                   /\ HasIds(file)
                   /\ \A id \in Ids \cap Range(file) : \E f \in 1..3 : \E i \in DOMAIN read[f] :
                         read[f][i] = id /\ table'[id] = Row(id, f, i)
  <2>1. Write
    BY <1>1 DEF Next, Step, Environment, Gone, JobStep, ImportStep, EcStep, Download,
       DownloadFails, Acquire, AcquireFails, DisableChecks, DisableFails, RestoreChecks, RestoreFails,
       Release, DownloadFeed, DownloadFeedFails, Replace, ReplaceFails, Load, OpenDatabase, OpenFails,
       CheckVersion, RefuseVersion, Start, Finish, Stop, Cancel, Visit, import, tables, vars
  <2>2. pc = "write" /\ table' = Imported
    BY <1>1, <2>1 DEF Write
  <2>3. /\ ~err /\ read \in Seq(Files) /\ FirstRows(certs, read, MaxRows)
        /\ \A f \in DOMAIN read : HasIds(read[f])
        /\ Len(read) = 3
    BY <1>1, <2>2 DEF WInv, FilesMerged
  <2>4. ASSUME NEW g \in DOMAIN read, NEW id \in Ids \cap Range(read[g])
        PROVE  \E f \in 1..3 : \E i \in DOMAIN read[f] :
                  read[f][i] = id /\ table'[id] = Row(id, f, i)
    <3>1. PICK m \in DOMAIN read[g] : read[g][m] = id
      BY <2>4 DEF Range
    <3>2. PICK n \in 1..MaxRows : read[g] \in [1..n -> Ids \cup {NoId}] /\ n \in Nat
      <4>1. g \in 1..Len(read)
        BY <2>3
      <4>2. read[g] \in Files
        BY <2>3, <4>1, ElementOfSeq
      <4>. QED  BY <4>2, FileType
    <3>3. Counted(read, MaxRows, g, m) /\ g \in Nat /\ m \in Nat /\ id # NoId
      BY <2>3, <3>1, <3>2, ImportAssumption DEF Counted
    <3>4. id \in Seen(certs)
      BY <2>3, <3>1, <3>3 DEF FirstRows
    <3>. DEFINE i == CHOOSE i \in DOMAIN certs : certs[i].id = id
    <3>5. i \in DOMAIN certs /\ certs[i].id = id
      <4>1. \E j \in DOMAIN certs : certs[j].id = id
        BY <3>4 DEF Seen
      <4>. QED  BY <4>1
    <3>6. table'[id] = certs[i]
      BY <2>2, <3>4 DEF Imported
    <3>. HIDE DEF i
    <3>7. /\ Counted(read, MaxRows, certs[i].file, certs[i].place)
          /\ read[certs[i].file][certs[i].place] = id
      BY <2>3, <3>5 DEF FirstRows
    <3>8. certs[i] = Row(id, certs[i].file, certs[i].place)
      <4>1. certs[i] \in Rows
        BY <2>3, <3>5 DEF FirstRows
      <4>. QED  BY <3>5, <4>1 DEF Rows, Row
    <3>. QED  BY <2>3, <3>6, <3>7, <3>8 DEF Counted
  <2>5. \A file \in Range(read) : \E g \in DOMAIN read : file = read[g]
    BY DEF Range
  <2>. QED  BY <2>3, <2>4, <2>5
<1>2. WInv /\ [Next]_vars =>
         [table' # table /\ pc # "end" =>
             /\ ~err /\ Len(read) = 3
             /\ \A file \in Range(read) :
                   /\ HasIds(file)
                   /\ \A id \in Ids \cap Range(file) : \E f \in 1..3 : \E i \in DOMAIN read[f] :
                         read[f][i] = id /\ table'[id] = Row(id, f, i)]_vars
  BY <1>1
<1>. QED  BY <1>2, WorkInvariance, PTL DEF Spec, ImportsAreWhole

\* The rows to be written are the first of every certificate in the three files taken
\* together (import.go:71-92), however long the files are and whatever is repeated.
THEOREM FirstRowsAlwaysWin == Spec => []FirstRowsWin
<1>1. ASSUME WInv, pc = "acquire"
      PROVE  FirstRowsWin
  <2>0. /\ FirstRows(certs, read, MaxRows) /\ read \in Seq(Files) /\ Len(read) = 3
        /\ certs \in Seq(Rows) /\ \A i, j \in DOMAIN certs : certs[i].id = certs[j].id => i = j
    BY <1>1 DEF WInv, FilesMerged, FirstRows
  <2>1. Cardinality(Seen(certs)) = Len(certs)
    <3>. DEFINE n == Len(certs)
                f == [i \in 1..n |-> certs[i].id]
    <3>1. f \in Bijection(1..n, Seen(certs))
      <4>1. DOMAIN certs = 1..n /\ n \in Nat
        BY <2>0
      <4>2. f \in [1..n -> Seen(certs)] /\ \A id \in Seen(certs) : \E i \in 1..n : f[i] = id
        BY <4>1 DEF Seen
      <4>3. \A i, j \in 1..n : f[i] = f[j] => i = j
        BY <2>0, <4>1
      <4>. HIDE DEF f, n
      <4>. QED  BY <4>2, <4>3 DEF Bijection, Injection, Surjection, IsInjective
    <3>2. ExistsBijection(1..n, Seen(certs)) /\ n \in Nat
      BY <2>0, <3>1 DEF ExistsBijection
    <3>. QED  BY <3>2, FS_CountingElements
  <2>2. ASSUME NEW p \in (1..3) \X (1..MaxRows), p[2] \in DOMAIN read[p[1]]
        PROVE  Counted(read, MaxRows, p[1], p[2]) /\ p[1] \in Nat /\ p[2] \in Nat
    BY <2>0, <2>2, ImportAssumption DEF Counted
  <2>3. ASSUME NEW f \in Nat, NEW m \in Nat, Counted(read, MaxRows, f, m)
        PROVE  <<f, m>> \in (1..3) \X (1..MaxRows) /\ m \in DOMAIN read[f]
    <3>1. f \in 1..3 /\ m \in DOMAIN read[f] /\ read[f] \in Files
      <4>1. f \in 1..3 /\ m \in DOMAIN read[f]
        BY <2>0, <2>3 DEF Counted
      <4>2. read \in Seq(Files) /\ f \in 1..Len(read)
        BY <2>0, <4>1
      <4>3. read[f] \in Files
        BY <4>2, ElementOfSeq
      <4>. QED  BY <4>1, <4>3
    <3>2. PICK n \in 1..MaxRows : read[f] \in [1..n -> Ids \cup {NoId}] /\ n \in Nat
      BY <3>1, FileType
    <3>3. m \in 1..MaxRows
      BY <3>1, <3>2, ImportAssumption
    <3>. QED  BY <3>1, <3>3
  <2>. DEFINE Before(p, q) == p[1] < q[1] \/ (p[1] = q[1] /\ p[2] < q[2])
              Places(id) == {p \in (1..3) \X (1..MaxRows) :
                                p[2] \in DOMAIN read[p[1]] /\ read[p[1]][p[2]] = id}
  <2>4. ASSUME NEW id \in Ids
        PROVE  IF Places(id) = {} THEN id \notin Seen(certs)
               ELSE \E p \in Places(id) :
                       /\ \A q \in Places(id) : p = q \/ Before(p, q)
                       /\ Row(id, p[1], p[2]) \in Range(certs)
    <3>1. ASSUME NEW i \in DOMAIN certs, certs[i].id = id
          PROVE  LET p == <<certs[i].file, certs[i].place>>
                 IN  /\ p \in Places(id) /\ Row(id, p[1], p[2]) \in Range(certs)
                     /\ \A q \in Places(id) : p = q \/ Before(p, q)
      <4>. DEFINE f == certs[i].file
                  m == certs[i].place
      <4>1. certs[i] \in Rows /\ f \in Nat /\ m \in Nat
        BY <2>0, RowsType
      <4>2. /\ Counted(read, MaxRows, f, m) /\ read[f][m] = id
            /\ \A g, l \in Nat : Counted(read, MaxRows, g, l) /\ read[g][l] = id => NotAfter(f, m, g, l)
        BY <2>0, <3>1, <4>1 DEF FirstRows
      <4>3. certs[i] = Row(id, f, m) /\ certs[i] \in Range(certs)
        BY <3>1, <4>1 DEF Rows, Row, Range
      <4>. HIDE DEF f, m
      <4>4. <<f, m>> \in Places(id)
        BY <2>3, <4>1, <4>2
      <4>5. ASSUME NEW q \in Places(id) PROVE <<f, m>> = q \/ Before(<<f, m>>, q)
        <5>1. NotAfter(f, m, q[1], q[2])
          BY <2>2, <4>2
        <5>. QED  BY <4>1, <5>1 DEF NotAfter
      <4>. QED  BY <4>3, <4>4, <4>5 DEF f, m
    <3>2. CASE id \in Seen(certs)
      BY <3>1, <3>2 DEF Seen
    <3>3. CASE id \notin Seen(certs)
      <4>1. id # NoId
        BY ImportAssumption
      <4>2. ASSUME NEW p \in Places(id) PROVE FALSE
        BY <2>0, <2>2, <3>3, <4>1 DEF FirstRows
      <4>. QED  BY <3>3, <4>2
    <3>. QED  BY <3>2, <3>3
  <2>. QED  BY <2>1, <2>4 DEF FirstRowsWin
<1>2. WInv => FirstRowsWin
  BY <1>1 DEF FirstRowsWin
<1>. QED  BY <1>2, WorkInvariance, PTL
=============================================================================
