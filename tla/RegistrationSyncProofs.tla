----------------------- MODULE RegistrationSyncProofs -----------------------
(***************************************************************************)
(* When a change at BSMI is lost to the checks, for any registrations,     *)
(* refreshers, recent jobs, zones and bounds.                              *)
(*                                                                         *)
(* A save or a check is safe if what its answer did not show is dated no   *)
(* earlier than the answer (Behind), or is dated outside the query         *)
(* (Covered).  Both survive whatever the others do meanwhile: pages grow,  *)
(* and so does the latest time stamp of a copy (Grown), though the time    *)
(* stamps themselves may go back.                                          *)
(*                                                                         *)
(* The checks of one recent job count no moment twice: checked_at is then  *)
(* its own and never goes back, and each check counts from there on, or    *)
(* from later (OwnCheck).                                                  *)
(***************************************************************************)
EXTENDS RegistrationSync, FiniteSetTheorems, TLAPS

\* What a page fetched at time `at' does not show of r came after that.
Behind(r, revision, at) == revision # page[r].revision => at <= page[r].modified

\* Nothing is dated later than now, and the history of a copy bounds its time stamps.
Past ==
    \A r \in Registrations :
        /\ page[r].modified <= now
        /\ copy[r] # Absent =>
              /\ copy[r].first <= copy[r].updated
              /\ copy[r].updated <= copy[r].latest
              /\ copy[r].checked <= copy[r].latest
              /\ copy[r].latest <= now

TaskSaw(w) ==
    /\ task[w].phase \in {"saving", "upserting"} =>
          task[w].at <= now /\ Behind(task[w].reg, task[w].revision, task[w].at)
    /\ task[w].phase = "upserting" => task[w].stamp <= now

\* The time stamps a recent job has read are not ahead of those the copies have had.
StatsAreOld(k) ==
    job[k].phase # "off" =>
        \A r \in DOMAIN job[k].stats :
            copy[r] # Absent /\ job[k].stats[r] <= copy[r].latest

\* What may have happened to r since the answer of time `at', or the modification
\* is dated before the query or after it.
Covered(r, from, at) ==
    \/ at <= copy[r].latest
    \/ at <= page[r].modified
    \/ Day(page[r].modified) < JobDay(from)
    \/ JobDay(at) < Day(page[r].modified)

JobSaw(k) ==
    /\ StatsAreOld(k)
    /\ job[k].phase \notin {"off", "next"} =>
          job[k].reg \in DOMAIN job[k].stats /\ job[k].began <= now
    /\ job[k].phase \in {"saving", "upserting"} =>
          job[k].at <= now /\ Behind(job[k].reg, job[k].revision, job[k].at)
    /\ job[k].phase = "upserting" => job[k].at <= job[k].stamp /\ job[k].stamp <= now
    /\ job[k].phase = "updating" => job[k].began <= job[k].stamp /\ job[k].stamp <= now
    /\ job[k].phase \in {"recording", "updating"} /\ ~job[k].missed =>
          job[k].at <= now /\ Covered(job[k].reg, job[k].stats[job[k].reg], job[k].at)

IInv ==
    /\ TypeOK /\ Past
    /\ \A w \in Refreshers : TaskSaw(w)
    /\ \A k \in Runners : JobSaw(k)

-----------------------------------------------------------------------------
(* Days and types *)

\* Later times are on later days, or on the same.
LEMMA DaysGrow ==
    ASSUME NEW a \in Int, NEW b \in Int, a <= b, NEW d \in Nat \ {0}
    PROVE  a \div d \in Int /\ b \div d \in Int /\ a \div d <= b \div d
  OBVIOUS

\* Times and days are integers.
LEMMA TimesAreNumbers ==
    /\ \A t \in Times : t \in Int /\ 0 <= t /\ t <= MaxClock
    /\ \A t : t \in Int /\ 0 <= t /\ t <= MaxClock => t \in Times
    /\ DayLength \in Nat \ {0} /\ Offsets \subseteq Int /\ Never \in Int /\ Never < 0
    /\ MaxClock \in Nat
  BY SyncAssumption DEF SyncAssumption, Times, Never

\* The parts of what a job has read of the registrations.
LEMMA StatsType ==
    /\ \A stats \in Stats :
          DOMAIN stats \subseteq Registrations /\ \A r \in DOMAIN stats : stats[r] \in Times
    /\ \A stats : \A S \in SUBSET Registrations : stats \in [S -> Times] => stats \in Stats
<1>1. ASSUME NEW stats \in Stats
      PROVE  DOMAIN stats \subseteq Registrations /\ \A r \in DOMAIN stats : stats[r] \in Times
  <2>1. PICK S \in SUBSET Registrations : stats \in [S -> Times]
    BY <1>1 DEF Stats
  <2>. QED  BY <2>1
<1>2. ASSUME NEW stats, NEW S \in SUBSET Registrations, stats \in [S -> Times]
      PROVE  stats \in Stats
  BY <1>2 DEF Stats
<1>. QED  BY <1>1, <1>2

\* The parts of a refresh.
LEMMA TaskType ==
    ASSUME NEW t \in TaskStates
    PROVE  /\ t.phase \in {"idle", "fetching", "saving", "upserting"}
           /\ t.phase # "idle" => t.reg \in Registrations
           /\ t.phase \in {"saving", "upserting"} => t.revision \in Revisions /\ t.at \in Times
           /\ t.phase = "upserting" => t.stamp \in Times
  BY DEF TaskStates, Idle

\* What a job holds while a page is on its way or a check is about to be recorded.
Waiting == [phase: {"fetching", "recording"}, stats: Stats, reg: Registrations,
            began: Times, missed: BOOLEAN, at: Times]

\* The parts of a job.
LEMMA JobType ==
    ASSUME NEW j \in JobStates
    PROVE  /\ j.phase \in {"off", "next", "asking", "fetching", "saving", "upserting",
                           "recording", "updating"}
           /\ j.phase # "off" => j.stats \in Stats
           /\ j.phase \notin {"off", "next"} => j.reg \in Registrations /\ j.began \in Times
           /\ j.phase \notin {"off", "next", "asking"} => j.missed \in BOOLEAN /\ j.at \in Times
           /\ j.phase \in {"saving", "upserting"} => j.revision \in Revisions /\ j.missed = FALSE
           /\ j.phase \in {"upserting", "updating"} => j.stamp \in Times
           /\ j = Off <=> j.phase = "off"
           /\ j.phase \in {"fetching", "recording"} => j \in Waiting
<1>1. CASE j = Off
  BY <1>1 DEF Off
<1>2. CASE j \in [phase: {"next"}, stats: Stats]
  BY <1>2 DEF Off
<1>3. CASE j \in [phase: {"asking"}, stats: Stats, reg: Registrations, began: Times]
  BY <1>3 DEF Off
<1>4. CASE j \in Waiting
  <2>1. /\ j.phase \in {"fetching", "recording"} /\ j.stats \in Stats /\ j.reg \in Registrations
        /\ j.began \in Times /\ j.missed \in BOOLEAN /\ j.at \in Times
    BY <1>4 DEF Waiting
  <2>2. j # Off
    BY <2>1 DEF Off
  <2>. QED  BY <1>4, <2>1, <2>2
<1>5. CASE j \in [phase: {"saving"}, stats: Stats, reg: Registrations, began: Times,
                  missed: {FALSE}, at: Times, revision: Revisions]
  <2>1. j.missed = FALSE /\ j.phase = "saving"
    BY <1>5
  <2>2. /\ j.stats \in Stats /\ j.reg \in Registrations /\ j.began \in Times
        /\ j.at \in Times /\ j.revision \in Revisions
    BY <1>5
  <2>3. j # Off
    BY <2>1 DEF Off
  <2>. QED  BY <2>1, <2>2, <2>3
<1>6. CASE j \in [phase: {"upserting"}, stats: Stats, reg: Registrations, began: Times,
                  missed: {FALSE}, at: Times, revision: Revisions, stamp: Times]
  <2>1. j.missed = FALSE /\ j.phase = "upserting"
    BY <1>6
  <2>2. /\ j.stats \in Stats /\ j.reg \in Registrations /\ j.began \in Times
        /\ j.at \in Times /\ j.revision \in Revisions /\ j.stamp \in Times
    BY <1>6
  <2>3. j # Off
    BY <2>1 DEF Off
  <2>. QED  BY <2>1, <2>2, <2>3
<1>7. CASE j \in [phase: {"updating"}, stats: Stats, reg: Registrations, began: Times,
                  missed: BOOLEAN, at: Times, stamp: Times]
  <2>1. j.missed \in BOOLEAN /\ j.phase = "updating"
    BY <1>7
  <2>2. /\ j.stats \in Stats /\ j.reg \in Registrations /\ j.began \in Times
        /\ j.at \in Times /\ j.stamp \in Times
    BY <1>7
  <2>3. j # Off
    BY <2>1 DEF Off
  <2>. QED  BY <2>1, <2>2, <2>3
<1>. QED  BY <1>1, <1>2, <1>3, <1>4, <1>5, <1>6, <1>7 DEF JobStates, Waiting

\* The parts of a row.
LEMMA RowType ==
    ASSUME NEW c \in CopyRow
    PROVE  /\ c.revision \in Revisions /\ c.seconds \in Int
           /\ c.updated \in Times /\ c.first \in Times /\ c.latest \in Times
           /\ c.checked \in Times \cup {Never}
           /\ c.updated \in Int /\ c.first \in Int /\ c.latest \in Int /\ c.checked \in Int
           /\ SyncedAt(c) \in Times /\ SyncedAt(c) \in Int
           /\ SyncedAt(c) \in {c.checked, c.updated}
           /\ c.updated <= SyncedAt(c) /\ c.checked <= SyncedAt(c)
<1>1. /\ c.revision \in Revisions /\ c.seconds \in Int
      /\ c.updated \in Times /\ c.first \in Times /\ c.latest \in Times
      /\ c.checked \in Times \cup {Never}
  BY DEF CopyRow
<1>2. c.updated \in Int /\ c.first \in Int /\ c.latest \in Int /\ c.checked \in Int /\ 0 <= c.updated
  BY <1>1, TimesAreNumbers
<1>3. SyncedAt(c) = IF c.checked < c.updated THEN c.updated ELSE c.checked
  BY DEF SyncedAt, Later
<1>. QED  BY <1>1, <1>2, <1>3, TimesAreNumbers

\* The parts of a page and of its copy, and the order of their times.
LEMMA CopyType ==
    ASSUME TypeOK, NEW r \in Registrations
    PROVE  /\ page[r].revision \in Revisions /\ page[r].modified \in Times
           /\ page[r].modified \in Int
           /\ copy[r] # Absent => copy[r] \in CopyRow /\ copy[r].latest \in Times
<1>1. page[r].revision \in Revisions /\ page[r].modified \in Times
  BY DEF TypeOK
<1>2. copy[r] # Absent => copy[r] \in CopyRow
  BY DEF TypeOK
<1>. QED  BY <1>1, <1>2, RowType, TimesAreNumbers

-----------------------------------------------------------------------------
\* What every step does to the pages, the copies and the clock.
Grown ==
    /\ offset' = offset /\ now <= now'
    /\ \A r \in Registrations :
          /\ page'[r] = page[r] \/ page'[r].modified = now
          /\ copy[r] # Absent => copy'[r] # Absent /\ copy[r].latest <= copy'[r].latest

\* What an answer did not show stays after it, and covered what is covered.
LEMMA BehindGrows ==
    ASSUME TypeOK, Past, TypeOK', Grown, NEW r \in Registrations, NEW revision,
           NEW at \in Times, at <= now, Behind(r, revision, at)
    PROVE  at <= now' /\ Behind(r, revision, at)'
<1>1. now \in Int /\ now' \in Int /\ at \in Int
  BY TimesAreNumbers DEF TypeOK
<1>2. page[r].modified \in Int /\ page'[r].modified \in Int
  BY TimesAreNumbers DEF TypeOK
<1>. QED  BY <1>1, <1>2 DEF Behind, Grown

\* What has been covered stays covered as the clock and the copies move on.
LEMMA CoveredGrows ==
    ASSUME TypeOK, Past, TypeOK', Grown, NEW r \in Registrations, copy[r] # Absent,
           NEW from \in Times, NEW at \in Times, at <= now, Covered(r, from, at)
    PROVE  at <= now' /\ Covered(r, from, at)'
<1>1. now \in Int /\ now' \in Int /\ at \in Int
  BY TimesAreNumbers DEF TypeOK
<1>2. page[r].modified \in Int /\ page'[r].modified \in Int
  BY TimesAreNumbers DEF TypeOK
<1>3. copy[r].latest \in Int /\ copy'[r].latest \in Int
  <2>1. copy'[r] # Absent
    BY DEF Grown
  <2>2. copy'[r] \in CopyRow /\ copy[r] \in CopyRow
    BY <2>1 DEF TypeOK
  <2>. QED  BY <2>2, RowType
<1>4. CASE at <= copy[r].latest
  BY <1>1, <1>3, <1>4 DEF Covered, Grown
<1>5. CASE page'[r] # page[r]
  BY <1>1, <1>2, <1>5 DEF Covered, Grown
<1>6. CASE page'[r] = page[r]
  BY <1>1, <1>4, <1>6 DEF Covered, Grown, Day, JobDay
<1>. QED  BY <1>5, <1>6

\* What a job has read of the copies is never ahead of them.
LEMMA StatsStayOld ==
    ASSUME IInv, TypeOK', Grown, NEW k \in Runners, job[k].phase # "off",
           NEW r \in DOMAIN job[k].stats
    PROVE  copy'[r] # Absent /\ job[k].stats[r] <= copy'[r].latest
<1>0. TypeOK /\ JobSaw(k) /\ job[k] \in JobStates
  BY DEF IInv, TypeOK
<1>1. r \in Registrations /\ job[k].stats[r] \in Times
  BY <1>0, JobType, StatsType
<1>2. copy[r] # Absent /\ job[k].stats[r] <= copy[r].latest
  BY <1>0 DEF JobSaw, StatsAreOld
<1>3. copy'[r] # Absent /\ copy[r].latest <= copy'[r].latest
  BY <1>1, <1>2 DEF Grown
<1>4. copy'[r] \in CopyRow /\ copy[r] \in CopyRow
  BY <1>0, <1>1, <1>2, <1>3 DEF TypeOK
<1>5. copy[r].latest \in Int /\ copy'[r].latest \in Int /\ job[k].stats[r] \in Int
  BY <1>1, <1>4, RowType, TimesAreNumbers
<1>. QED  BY <1>2, <1>3, <1>5

\* A step keeps what a refresher knows that it leaves alone,
LEMMA OtherTasksKeep ==
    ASSUME IInv, TypeOK', Grown, NEW w \in Refreshers, task'[w] = task[w]
    PROVE  TaskSaw(w)'
<1>0. /\ TypeOK /\ Past /\ TaskSaw(w) /\ task[w] \in TaskStates
      /\ now \in Int /\ now' \in Int /\ now <= now'
  BY TimesAreNumbers DEF IInv, TypeOK, Grown
<1>1. ASSUME task[w].phase \in {"saving", "upserting"}
      PROVE  task[w].at <= now' /\ Behind(task[w].reg, task[w].revision, task[w].at)'
  <2>1. task[w].reg \in Registrations /\ task[w].at \in Times
    BY <1>0, <1>1, TaskType
  <2>2. task[w].at <= now /\ Behind(task[w].reg, task[w].revision, task[w].at)
    BY <1>0, <1>1 DEF TaskSaw
  <2>. QED  BY <1>0, <2>1, <2>2, BehindGrows DEF Behind
<1>2. ASSUME task[w].phase = "upserting"
      PROVE  task[w].stamp <= now'
  <2>1. task[w].stamp \in Int /\ task[w].stamp <= now
    BY <1>0, <1>2, TaskType, TimesAreNumbers DEF TaskSaw
  <2>. QED  BY <1>0, <2>1
<1>. QED  BY <1>1, <1>2 DEF TaskSaw

\* and what a job knows.
LEMMA OtherJobsKeep ==
    ASSUME IInv, TypeOK', Grown, NEW k \in Runners, job'[k] = job[k]
    PROVE  JobSaw(k)'
<1>0. /\ TypeOK /\ Past /\ JobSaw(k) /\ job[k] \in JobStates
      /\ now \in Int /\ now' \in Int /\ now <= now'
  BY TimesAreNumbers DEF IInv, TypeOK, Grown
<1>1. StatsAreOld(k)'
  BY StatsStayOld DEF StatsAreOld
<1>2. ASSUME job[k].phase \notin {"off", "next"}
      PROVE  job[k].reg \in DOMAIN job[k].stats /\ job[k].began <= now'
  <2>1. job[k].reg \in DOMAIN job[k].stats /\ job[k].began <= now /\ job[k].began \in Int
    BY <1>0, <1>2, JobType, TimesAreNumbers DEF JobSaw
  <2>. QED  BY <1>0, <2>1
<1>3. ASSUME job[k].phase \in {"saving", "upserting"}
      PROVE  job[k].at <= now' /\ Behind(job[k].reg, job[k].revision, job[k].at)'
  <2>1. job[k].reg \in Registrations /\ job[k].at \in Times
    BY <1>0, <1>3, JobType
  <2>2. job[k].at <= now /\ Behind(job[k].reg, job[k].revision, job[k].at)
    BY <1>0, <1>3 DEF JobSaw
  <2>. QED  BY <1>0, <2>1, <2>2, BehindGrows DEF Behind
<1>4. ASSUME job[k].phase \in {"upserting", "updating"}
      PROVE  job[k].stamp <= now'
  <2>1. job[k].stamp <= now /\ job[k].stamp \in Int
    BY <1>0, <1>4, JobType, TimesAreNumbers DEF JobSaw
  <2>. QED  BY <1>0, <2>1
<1>5. /\ job[k].phase = "upserting" => job[k].at <= job[k].stamp
      /\ job[k].phase = "updating" => job[k].began <= job[k].stamp
  BY <1>0 DEF JobSaw
<1>6. ASSUME job[k].phase \in {"recording", "updating"}, ~job[k].missed
      PROVE  job[k].at <= now' /\ Covered(job[k].reg, job[k].stats[job[k].reg], job[k].at)'
  <2>1. /\ job[k].reg \in Registrations /\ job[k].at \in Times
        /\ job[k].reg \in DOMAIN job[k].stats /\ job[k].stats[job[k].reg] \in Times
    BY <1>0, <1>6, JobType, StatsType DEF JobSaw
  <2>2. copy[job[k].reg] # Absent
    BY <1>0, <1>6, <2>1 DEF JobSaw, StatsAreOld
  <2>3. job[k].at <= now /\ Covered(job[k].reg, job[k].stats[job[k].reg], job[k].at)
    BY <1>0, <1>6 DEF JobSaw
  <2>. QED  BY <1>0, <2>1, <2>2, <2>3, CoveredGrows DEF Covered
<1>. QED  BY <1>1, <1>2, <1>3, <1>4, <1>5, <1>6 DEF JobSaw

\* A step of one actor, that keeps what it knows itself.
LEMMA OneRefresher ==
    ASSUME IInv, TypeOK', Grown, Past', NEW w \in Refreshers, NEW state,
           task' = [task EXCEPT ![w] = state], job' = job, TaskSaw(w)'
    PROVE  IInv'
<1>1. \A v \in Refreshers : v # w => task'[v] = task[v]
  BY DEF IInv, TypeOK
<1>2. \A v \in Refreshers : TaskSaw(v)'
  BY <1>1, OtherTasksKeep
<1>3. \A k \in Runners : JobSaw(k)'
  BY OtherJobsKeep
<1>. QED  BY <1>2, <1>3 DEF IInv

\* A step of one job that changes nothing but its state.
LEMMA OneRunner ==
    ASSUME IInv, TypeOK', Grown, Past', NEW k \in Runners, NEW state,
           job' = [job EXCEPT ![k] = state], task' = task, JobSaw(k)'
    PROVE  IInv'
<1>1. \A l \in Runners : l # k => job'[l] = job[l]
  BY DEF IInv, TypeOK
<1>2. \A l \in Runners : JobSaw(l)'
  BY <1>1, OtherJobsKeep
<1>3. \A w \in Refreshers : TaskSaw(w)'
  BY OtherTasksKeep
<1>. QED  BY <1>2, <1>3 DEF IInv

\* A step that writes nothing.
LEMMA Unwritten ==
    ASSUME IInv, UNCHANGED <<offset, now, page, copy>>
    PROVE  Grown /\ Past'
<1>1. \A r \in Registrations : copy[r] # Absent => copy[r].latest \in Int
  BY CopyType, TimesAreNumbers DEF IInv
<1>2. now \in Int
  BY TimesAreNumbers DEF IInv, TypeOK
<1>. QED  BY <1>1, <1>2 DEF IInv, Past, Grown

\* What writing one row keeps.
LEMMA RowWritten ==
    ASSUME IInv, NEW r \in Registrations, NEW row \in CopyRow, copy' = [copy EXCEPT ![r] = row],
           UNCHANGED <<offset, now, page>>,
           row.first <= row.updated, row.updated <= row.latest, row.checked <= row.latest,
           row.latest <= now, copy[r] # Absent => copy[r].latest <= row.latest
    PROVE  /\ copy' \in [Registrations -> CopyRow \cup {Absent}] /\ Grown /\ Past'
           /\ copy'[r] = row /\ row # Absent
           /\ \A q \in Registrations : q # r => copy'[q] = copy[q]
<1>0. TypeOK /\ Past /\ now \in Int
  BY TimesAreNumbers DEF IInv, TypeOK
<1>1. row # Absent
  BY AbsentAssumption DEF AbsentAssumption
<1>2. copy'[r] = row /\ \A q \in Registrations : q # r => copy'[q] = copy[q]
  BY <1>0 DEF TypeOK
<1>3. copy' \in [Registrations -> CopyRow \cup {Absent}]
  BY <1>0 DEF TypeOK
<1>4. \A q \in Registrations : copy[q] # Absent => copy[q].latest \in Int
  BY <1>0, CopyType, TimesAreNumbers
<1>5. Past'
  BY <1>0, <1>2 DEF Past
<1>6. Grown
  BY <1>0, <1>1, <1>2, <1>4 DEF Grown
<1>. QED  BY <1>1, <1>2, <1>3, <1>5, <1>6

\* A save of r writes the page and its time stamp, and neither loses a later time
\* stamp from the history nor touches the record of the checks.
LEMMA SaveKeeps ==
    ASSUME IInv, NEW r \in Registrations, NEW revision \in Revisions, NEW stamp \in Times,
           stamp <= now, Save(r, revision, stamp), UNCHANGED <<offset, now, page>>
    PROVE  /\ copy' \in [Registrations -> CopyRow \cup {Absent}] /\ Grown /\ Past'
           /\ copy'[r] # Absent /\ copy'[r].revision = revision /\ stamp <= copy'[r].latest
           /\ copy[r] = Absent => copy'[r].seconds = 0
           /\ copy[r] # Absent =>
                 /\ copy'[r].first <= copy[r].first /\ copy'[r].checked = copy[r].checked
                 /\ copy'[r].seconds = copy[r].seconds
           /\ \A q \in Registrations : q # r => copy'[q] = copy[q]
<1>0. TypeOK /\ Past /\ now \in Int /\ stamp \in Int /\ 0 <= stamp
  BY TimesAreNumbers DEF IInv, TypeOK
<1>1. CASE copy[r] = Absent
  <2>. DEFINE row == Stored(revision, stamp)
  <2>1. copy' = [copy EXCEPT ![r] = row]
    BY <1>1 DEF Save
  <2>2. /\ row \in CopyRow /\ row.first = stamp /\ row.updated = stamp /\ row.latest = stamp
        /\ row.checked = Never /\ row.revision = revision /\ row.seconds = 0
    BY <1>0 DEF Stored, CopyRow
  <2>3. Never <= stamp /\ stamp <= stamp
    BY <1>0, TimesAreNumbers
  <2>. HIDE DEF row
  <2>4. /\ copy' \in [Registrations -> CopyRow \cup {Absent}] /\ Grown /\ Past'
        /\ copy'[r] = row /\ row # Absent
        /\ \A q \in Registrations : q # r => copy'[q] = copy[q]
    BY <1>1, <2>1, <2>2, <2>3, RowWritten
  <2>. QED  BY <1>1, <2>2, <2>3, <2>4
<1>2. CASE copy[r] # Absent
  <2>. DEFINE row == [copy[r] EXCEPT !.revision = revision, !.updated = stamp,
                                     !.first = Earlier(copy[r].first, stamp),
                                     !.latest = Later(copy[r].latest, stamp)]
  <2>0. /\ copy[r] \in CopyRow /\ copy[r].first \in Times /\ copy[r].latest \in Times
        /\ copy[r].first \in Int /\ copy[r].latest \in Int /\ copy[r].checked \in Int
        /\ copy[r].checked <= copy[r].latest /\ copy[r].latest <= now
    BY <1>0, <1>2, CopyType, RowType DEF Past
  <2>1. copy' = [copy EXCEPT ![r] = row]
    BY <1>2 DEF Save
  <2>2. Earlier(copy[r].first, stamp) \in Times /\ Later(copy[r].latest, stamp) \in Times
    BY <2>0 DEF Earlier, Later
  <2>3. row \in CopyRow
    BY <2>0, <2>2 DEF CopyRow
  <2>4. /\ row.first = Earlier(copy[r].first, stamp) /\ row.updated = stamp
        /\ row.latest = Later(copy[r].latest, stamp)
        /\ row.checked = copy[r].checked /\ row.revision = revision
        /\ row.seconds = copy[r].seconds
    BY <2>0 DEF CopyRow
  <2>. HIDE DEF row
  <2>5. /\ row.first <= stamp /\ row.first <= copy[r].first
        /\ stamp <= row.latest /\ copy[r].latest <= row.latest /\ row.latest <= now
        /\ row.checked <= row.latest
    BY <1>0, <2>0, <2>4 DEF Earlier, Later
  <2>6. /\ copy' \in [Registrations -> CopyRow \cup {Absent}] /\ Grown /\ Past'
        /\ copy'[r] = row /\ row # Absent
        /\ \A q \in Registrations : q # r => copy'[q] = copy[q]
    BY <2>1, <2>3, <2>4, <2>5, RowWritten
  <2>. QED  BY <1>2, <2>4, <2>5, <2>6
<1>. QED  BY <1>1, <1>2

\* The statement that records a check.
Recorded(r, stamp, seconds) ==
    /\ copy' = [copy EXCEPT ![r] = [copy[r] EXCEPT !.checked = stamp,
                                                   !.latest = Later(copy[r].latest, stamp),
                                                   !.seconds = seconds]]
    /\ UNCHANGED <<offset, now, page>>

\* The record of a check writes its time stamp, which may not be the latest.
LEMMA RecordKeeps ==
    ASSUME IInv, NEW r \in Registrations, NEW seconds \in Int, copy[r] # Absent,
           NEW stamp \in Times, stamp <= now, Recorded(r, stamp, seconds)
    PROVE  /\ copy' \in [Registrations -> CopyRow \cup {Absent}] /\ Grown /\ Past'
           /\ copy'[r] # Absent /\ copy'[r].revision = copy[r].revision
           /\ copy'[r].latest = Later(copy[r].latest, stamp) /\ copy'[r].latest <= now
           /\ copy'[r].checked = stamp /\ copy'[r].seconds = seconds
           /\ copy'[r].first = copy[r].first
           /\ \A q \in Registrations : q # r => copy'[q] = copy[q]
<1>0. TypeOK /\ Past /\ now \in Int /\ stamp \in Int
  BY TimesAreNumbers DEF IInv, TypeOK
<1>1. /\ copy[r] \in CopyRow /\ copy[r].latest \in Times /\ copy[r].latest \in Int
      /\ copy[r].updated \in Int /\ copy[r].latest <= now
      /\ copy[r].first <= copy[r].updated /\ copy[r].updated <= copy[r].latest
  BY <1>0, CopyType, RowType DEF Past
<1>. DEFINE row == [copy[r] EXCEPT !.checked = stamp, !.latest = Later(copy[r].latest, stamp),
                                   !.seconds = seconds]
<1>2. Later(copy[r].latest, stamp) \in Times
  BY <1>1 DEF Later
<1>3. row \in CopyRow
  BY <1>1, <1>2 DEF CopyRow
<1>4. /\ row.checked = stamp /\ row.latest = Later(copy[r].latest, stamp)
      /\ row.seconds = seconds /\ row.updated = copy[r].updated /\ row.first = copy[r].first
      /\ row.revision = copy[r].revision
  BY <1>1 DEF CopyRow
<1>5. copy' = [copy EXCEPT ![r] = row] /\ UNCHANGED <<offset, now, page>>
  BY DEF Recorded
<1>. HIDE DEF row
<1>6. /\ stamp <= row.latest /\ copy[r].latest <= row.latest /\ row.latest <= now
      /\ row.updated <= row.latest /\ row.first <= row.updated
  BY <1>0, <1>1, <1>4 DEF Later
<1>7. /\ copy' \in [Registrations -> CopyRow \cup {Absent}] /\ Grown /\ Past'
      /\ copy'[r] = row /\ row # Absent
      /\ \A q \in Registrations : q # r => copy'[q] = copy[q]
  BY <1>3, <1>4, <1>5, <1>6, RowWritten
<1>. QED  BY <1>4, <1>6, <1>7

-----------------------------------------------------------------------------
(* The steps *)

\* The clock keeps the invariant.
LEMMA TickKeeps == ASSUME IInv, Tick PROVE IInv'
<1>0. TypeOK /\ Past /\ now \in Int /\ 0 <= now /\ now < MaxClock
  BY TimesAreNumbers DEF IInv, TypeOK, Tick
<1>1. now' = now + 1 /\ UNCHANGED <<offset, page, copy, task, job>>
  BY DEF Tick
<1>2. now' \in Times
  BY <1>0, <1>1, TimesAreNumbers
<1>3. TypeOK'
  BY <1>0, <1>1, <1>2 DEF TypeOK
<1>4. \A r \in Registrations :
         page[r].modified \in Int /\ (copy[r] # Absent => copy[r].latest \in Int)
  BY <1>0, CopyType, TimesAreNumbers
<1>5. Past'
  BY <1>0, <1>1, <1>4 DEF Past
<1>6. Grown
  BY <1>0, <1>1, <1>4 DEF Grown
<1>7. \A w \in Refreshers : TaskSaw(w)'
  BY <1>1, <1>3, <1>6, OtherTasksKeep
<1>8. \A k \in Runners : JobSaw(k)'
  BY <1>1, <1>3, <1>6, OtherJobsKeep
<1>. QED  BY <1>3, <1>5, <1>7, <1>8 DEF IInv

\* So does a change of a page,
LEMMA ModifyKeeps == ASSUME IInv, NEW r \in Registrations, Modify(r) PROVE IInv'
<1>0. TypeOK /\ Past /\ now \in Times /\ now \in Int
  BY TimesAreNumbers DEF IInv, TypeOK
<1>1. /\ page' = [page EXCEPT ![r] = [revision |-> page[r].revision + 1, modified |-> now]]
      /\ page[r].revision < MaxRevision /\ UNCHANGED <<offset, now, copy, task, job>>
  BY DEF Modify
<1>2. page[r].revision + 1 \in Revisions
  BY <1>0, <1>1, SyncAssumption DEF TypeOK, Revisions, SyncAssumption
<1>3. TypeOK'
  BY <1>0, <1>1, <1>2 DEF TypeOK
<1>4. \A q \in Registrations : page'[q] = page[q] \/ page'[q].modified = now
  BY <1>0, <1>1 DEF TypeOK
<1>5. Past'
  BY <1>0, <1>1, <1>4 DEF Past
<1>6. \A q \in Registrations : copy[q] # Absent => copy[q].latest \in Int
  BY <1>0, CopyType, TimesAreNumbers
<1>7. Grown
  BY <1>0, <1>1, <1>4, <1>6 DEF Grown
<1>8. \A w \in Refreshers : TaskSaw(w)'
  BY <1>1, <1>3, <1>7, OtherTasksKeep
<1>9. \A k \in Runners : JobSaw(k)'
  BY <1>1, <1>3, <1>7, OtherJobsKeep
<1>. QED  BY <1>3, <1>5, <1>8, <1>9 DEF IInv

\* a refresh,
LEMMA RefreshKeeps ==
    ASSUME IInv, NEW w \in Refreshers,
           \/ \E r \in Registrations : BeginRefresh(w, r)
           \/ FetchPage(w) \/ StampPage(w) \/ SavePage(w) \/ GiveUpRefresh(w)
    PROVE  IInv'
<1>0. TypeOK /\ Past /\ TaskSaw(w) /\ task[w] \in TaskStates /\ now \in Times /\ now \in Int
  BY TimesAreNumbers DEF IInv, TypeOK
<1>1. ASSUME NEW r \in Registrations, BeginRefresh(w, r)
      PROVE  IInv'
  <2>1. /\ task' = [task EXCEPT ![w] = [phase |-> "fetching", reg |-> r]]
        /\ UNCHANGED <<offset, now, page, copy, job>>
    BY <1>1 DEF BeginRefresh
  <2>2. [phase |-> "fetching", reg |-> r] \in TaskStates
    BY DEF TaskStates
  <2>3. TypeOK' /\ task'[w] = [phase |-> "fetching", reg |-> r]
    BY <1>0, <2>1, <2>2 DEF TypeOK
  <2>4. TaskSaw(w)'
    BY <2>3 DEF TaskSaw
  <2>. QED  BY <2>1, <2>3, <2>4, Unwritten, OneRefresher
<1>2. CASE FetchPage(w)
  <2>. DEFINE r == task[w].reg
             state == [phase |-> "saving", reg |-> r, revision |-> page[r].revision, at |-> now]
  <2>1. task' = [task EXCEPT ![w] = state] /\ UNCHANGED <<offset, now, page, copy, job>>
    BY <1>2 DEF FetchPage
  <2>2. r \in Registrations /\ page[r].revision \in Revisions
    BY <1>0, <1>2, TaskType, CopyType DEF FetchPage
  <2>3. state \in TaskStates
    BY <1>0, <2>2 DEF TaskStates
  <2>4. TypeOK' /\ task'[w] = state
    BY <1>0, <2>1, <2>3 DEF TypeOK
  <2>5. TaskSaw(w)'
    BY <1>0, <2>1, <2>4 DEF TaskSaw, Behind
  <2>. QED  BY <2>1, <2>4, <2>5, Unwritten, OneRefresher
<1>5. CASE StampPage(w)
  <2>. DEFINE state == [phase |-> "upserting", reg |-> task[w].reg, revision |-> task[w].revision,
                       at |-> task[w].at, stamp |-> now]
  <2>1. /\ task[w].phase = "saving" /\ task' = [task EXCEPT ![w] = state]
        /\ UNCHANGED <<offset, now, page, copy, job>>
    BY <1>5 DEF StampPage
  <2>2. /\ task[w].reg \in Registrations /\ task[w].revision \in Revisions /\ task[w].at \in Times
        /\ task[w].at <= now /\ Behind(task[w].reg, task[w].revision, task[w].at)
    BY <1>0, <2>1, TaskType DEF TaskSaw
  <2>3. state \in TaskStates
    BY <1>0, <2>2 DEF TaskStates
  <2>4. TypeOK' /\ task'[w] = state
    BY <1>0, <2>1, <2>3 DEF TypeOK
  <2>5. TaskSaw(w)'
    BY <1>0, <2>1, <2>2, <2>4 DEF TaskSaw, Behind
  <2>. QED  BY <2>1, <2>4, <2>5, Unwritten, OneRefresher
<1>3. CASE SavePage(w)
  <2>1. /\ task[w].phase = "upserting" /\ Save(task[w].reg, task[w].revision, task[w].stamp)
        /\ task' = [task EXCEPT ![w] = Idle] /\ UNCHANGED <<offset, now, page, job>>
    BY <1>3 DEF SavePage
  <2>2. /\ task[w].reg \in Registrations /\ task[w].revision \in Revisions
        /\ task[w].stamp \in Times /\ task[w].stamp <= now
    BY <1>0, <2>1, TaskType DEF TaskSaw
  <2>3. copy' \in [Registrations -> CopyRow \cup {Absent}] /\ Grown /\ Past'
    BY <2>1, <2>2, SaveKeeps
  <2>4. Idle \in TaskStates
    BY DEF TaskStates
  <2>5. TypeOK' /\ task'[w] = Idle
    BY <1>0, <2>1, <2>3, <2>4 DEF TypeOK
  <2>6. TaskSaw(w)'
    BY <2>5 DEF TaskSaw, Idle
  <2>. QED  BY <2>1, <2>3, <2>5, <2>6, OneRefresher
<1>4. CASE GiveUpRefresh(w)
  <2>1. task' = [task EXCEPT ![w] = Idle] /\ UNCHANGED <<offset, now, page, copy, job>>
    BY <1>4 DEF GiveUpRefresh
  <2>2. Idle \in TaskStates
    BY DEF TaskStates
  <2>3. TypeOK' /\ task'[w] = Idle
    BY <1>0, <2>1, <2>2 DEF TypeOK
  <2>4. TaskSaw(w)'
    BY <2>3 DEF TaskSaw, Idle
  <2>. QED  BY <2>1, <2>3, <2>4, Unwritten, OneRefresher
<1>. QED  BY <1>1, <1>2, <1>3, <1>4, <1>5

\* The registrations left to a recent job.
LEMMA RestType ==
    ASSUME IInv, NEW k \in Runners, job[k].phase \notin {"off", "next"}
    PROVE  /\ Rest(k) \in JobStates /\ Rest(k).phase \in {"off", "next"}
           /\ Rest(k).phase = "next" =>
                 \A r \in DOMAIN Rest(k).stats :
                    r \in DOMAIN job[k].stats /\ Rest(k).stats[r] = job[k].stats[r]
<1>. DEFINE left == DOMAIN job[k].stats \ {job[k].reg}
           stats == [r \in left |-> job[k].stats[r]]
<1>1. job[k] \in JobStates /\ job[k].phase # "off"
  BY DEF IInv, TypeOK
<1>2. job[k].stats \in Stats
  BY <1>1, JobType
<1>3. left \in SUBSET Registrations /\ \A r \in left : job[k].stats[r] \in Times
  BY <1>2, StatsType
<1>4. stats \in [left -> Times]
  BY <1>3
<1>5. stats \in Stats
  BY <1>3, <1>4, StatsType
<1>6. CASE left = {}
  BY <1>6 DEF Rest, Off, JobStates
<1>7. CASE left # {}
  <2>1. Rest(k) = [phase |-> "next", stats |-> stats]
    BY <1>7 DEF Rest
  <2>2. [phase |-> "next", stats |-> stats] \in JobStates
    BY <1>5 DEF JobStates
  <2>. QED  BY <2>1, <2>2
<1>. QED  BY <1>6, <1>7

\* and a job that goes on to the rest of its registrations.
LEMMA RestKeeps ==
    ASSUME IInv, TypeOK', Grown, Past', NEW k \in Runners, job[k].phase \notin {"off", "next"},
           job' = [job EXCEPT ![k] = Rest(k)], task' = task
    PROVE  IInv'
<1>1. job'[k] = Rest(k)
  BY DEF IInv, TypeOK
<1>2. StatsAreOld(k)'
  BY <1>1, RestType, StatsStayOld DEF StatsAreOld
<1>3. JobSaw(k)'
  BY <1>1, <1>2, RestType DEF JobSaw
<1>. QED  BY <1>3, OneRunner

\* The steps of a recent job that write nothing.
LEMMA AskingKeeps ==
    ASSUME IInv, NEW k \in Runners,
           \/ BeginRun(k) \/ Answer(k) \/ FetchChanged(k) \/ StampChanged(k) \/ StampCheck(k)
           \/ \E r \in Registrations : BeginCheck(k, r)
    PROVE  IInv'
<1>0. /\ TypeOK /\ Past /\ JobSaw(k) /\ job[k] \in JobStates /\ now \in Times /\ now \in Int
      /\ \A t \in Times : t \in Int
  BY TimesAreNumbers DEF IInv, TypeOK
<1>1. UNCHANGED <<offset, now, page, copy, task>>
  BY DEF BeginRun, BeginCheck, Answer, FetchChanged, StampChanged, StampCheck
<1>2. Grown /\ Past'
  BY <1>1, Unwritten
<1>3. ASSUME NEW state \in JobStates, job' = [job EXCEPT ![k] = state]
      PROVE  TypeOK' /\ job'[k] = state
  BY <1>0, <1>1, <1>3 DEF TypeOK
<1>4. CASE BeginRun(k)
  <2>. DEFINE stats == [r \in Known |-> SyncedAt(copy[r])]
             state == [phase |-> "next", stats |-> stats]
  <2>1. job' = [job EXCEPT ![k] = state]
    BY <1>4 DEF BeginRun
  <2>2. \A r \in Known : /\ r \in Registrations /\ copy[r] # Absent /\ SyncedAt(copy[r]) \in Times
                         /\ SyncedAt(copy[r]) <= copy[r].latest
    BY <1>0, CopyType, RowType DEF Known, Past
  <2>3. stats \in [Known -> Times] /\ Known \in SUBSET Registrations
    BY <2>2
  <2>4. stats \in Stats
    BY <2>3, StatsType
  <2>5. state \in JobStates
    BY <2>4 DEF JobStates
  <2>6. TypeOK' /\ job'[k] = state
    BY <1>3, <2>1, <2>5
  <2>7. StatsAreOld(k)'
    <3>1. DOMAIN stats = Known /\ \A r \in Known : stats[r] = SyncedAt(copy[r])
      OBVIOUS
    <3>2. \A r \in Known : copy'[r] # Absent /\ stats[r] <= copy'[r].latest
      <4>1. \A r \in Known : copy'[r] = copy[r]
        BY <1>1
      <4>. HIDE DEF stats
      <4>. QED  BY <2>2, <3>1, <4>1
    <3>. QED  BY <2>6, <3>1, <3>2 DEF StatsAreOld
  <2>8. JobSaw(k)'
    BY <2>6, <2>7 DEF JobSaw
  <2>. QED  BY <1>1, <1>2, <2>1, <2>6, <2>8, OneRunner
<1>5. ASSUME NEW r \in Registrations, BeginCheck(k, r)
      PROVE  IInv'
  <2>. DEFINE state == [phase |-> "asking", stats |-> job[k].stats, reg |-> r, began |-> now]
  <2>1. /\ job' = [job EXCEPT ![k] = state] /\ job[k].phase = "next" /\ r \in DOMAIN job[k].stats
    BY <1>5 DEF BeginCheck
  <2>2. job[k].stats \in Stats
    BY <1>0, <2>1, JobType
  <2>3. state \in JobStates
    BY <1>0, <2>2 DEF JobStates
  <2>4. TypeOK' /\ job'[k] = state
    BY <1>3, <2>1, <2>3
  <2>5. StatsAreOld(k)'
    BY <1>0, <1>1, <2>1, <2>4 DEF StatsAreOld, JobSaw
  <2>6. JobSaw(k)'
    BY <1>0, <1>1, <2>1, <2>4, <2>5 DEF JobSaw
  <2>. QED  BY <1>1, <1>2, <2>1, <2>4, <2>6, OneRunner
<1>6. CASE Answer(k)
  <2>. DEFINE r == job[k].reg
             from == job[k].stats[r]
             at == job[k].began
             hit == Modified(r, from, at)
  <2>0. PICK changed \in BOOLEAN :
           job' = [job EXCEPT ![k] =
                      [phase |-> IF changed THEN "fetching" ELSE "recording",
                       stats |-> job[k].stats, reg |-> r, began |-> at,
                       missed |-> hit /\ ~changed, at |-> at]]
    BY <1>6 DEF Answer
  <2>. DEFINE phase == IF changed THEN "fetching" ELSE "recording"
             missed == hit /\ ~changed
             state == [phase |-> phase, stats |-> job[k].stats, reg |-> r, began |-> at,
                       missed |-> missed, at |-> at]
  <2>1. job' = [job EXCEPT ![k] = state] /\ job[k].phase = "asking"
    BY <1>6, <2>0 DEF Answer
  <2>2. /\ job[k].stats \in Stats /\ r \in Registrations /\ at \in Times
        /\ r \in DOMAIN job[k].stats /\ from \in Times /\ at <= now
    BY <1>0, <2>1, JobType, StatsType DEF JobSaw
  <2>3. phase \in {"fetching", "recording"} /\ missed \in BOOLEAN
    OBVIOUS
  <2>. HIDE DEF missed
  <2>4. state \in JobStates
    BY <2>2, <2>3 DEF JobStates
  <2>5. TypeOK' /\ job'[k] = state
    BY <1>3, <2>1, <2>4
  <2>6. StatsAreOld(k)'
    BY <1>0, <1>1, <2>1, <2>5 DEF StatsAreOld, JobSaw
  <2>7. phase = "recording" /\ ~missed => Covered(r, from, at)
    <3>1. phase = "recording" /\ ~missed => Day(page[r].modified) \notin JobDay(from)..JobDay(at)
      BY DEF Modified, missed
    <3>2. page[r].modified \in Int /\ from \in Int /\ at \in Int /\ offset \in Int
      BY <1>0, <2>2, CopyType, TimesAreNumbers DEF TypeOK
    <3>3. Day(page[r].modified) \in Int /\ JobDay(from) \in Int /\ JobDay(at) \in Int
      BY <3>2, DaysGrow, TimesAreNumbers DEF Day, JobDay
    <3>. QED  BY <3>1, <3>3 DEF Covered
  <2>8. Covered(r, from, at)' <=> Covered(r, from, at)
    BY <1>1, <2>1, <2>5 DEF Covered, Day, JobDay
  <2>9. JobSaw(k)'
    BY <1>1, <2>2, <2>3, <2>5, <2>6, <2>7, <2>8 DEF JobSaw, Covered
  <2>. QED  BY <1>1, <1>2, <2>1, <2>5, <2>9, OneRunner
<1>7. CASE FetchChanged(k)
  <2>1. /\ job[k].phase = "fetching" /\ job[k].stats \in Stats /\ job[k].reg \in Registrations
        /\ job[k].began \in Times /\ page[job[k].reg].revision \in Revisions
        /\ job[k].reg \in DOMAIN job[k].stats /\ job[k].began <= now
    BY <1>0, <1>7, JobType, CopyType DEF FetchChanged, JobSaw
  <2>. DEFINE saving == [phase |-> "saving", stats |-> job[k].stats, reg |-> job[k].reg,
                        began |-> job[k].began, missed |-> FALSE, at |-> now,
                        revision |-> page[job[k].reg].revision]
             recording == [job[k] EXCEPT !.phase = "recording", !.missed = TRUE]
  <2>2. CASE job' = [job EXCEPT ![k] = saving]
    <3>1. saving \in JobStates
      BY <1>0, <2>1 DEF JobStates
    <3>2. TypeOK' /\ job'[k] = saving
      BY <1>3, <2>2, <3>1
    <3>3. StatsAreOld(k)'
      BY <1>0, <1>1, <2>1, <3>2 DEF StatsAreOld, JobSaw
    <3>4. JobSaw(k)'
      BY <1>0, <1>1, <2>1, <3>2, <3>3 DEF JobSaw, Behind
    <3>. QED  BY <1>1, <1>2, <2>2, <3>2, <3>4, OneRunner
  <2>3. CASE job' = [job EXCEPT ![k] = recording]
    <3>1. job[k] \in Waiting
      BY <1>0, <2>1, JobType
    <3>2. recording \in Waiting
      BY <3>1 DEF Waiting
    <3>3. recording \in JobStates
      BY <3>2 DEF JobStates, Waiting
    <3>4. /\ recording.phase = "recording" /\ recording.stats = job[k].stats
          /\ recording.reg = job[k].reg /\ recording.began = job[k].began /\ recording.missed = TRUE
      BY <3>1 DEF Waiting
    <3>5. TypeOK' /\ job'[k] = recording
      BY <1>3, <2>3, <3>3
    <3>6. StatsAreOld(k)'
      BY <1>0, <1>1, <2>1, <3>4, <3>5 DEF StatsAreOld, JobSaw
    <3>7. JobSaw(k)'
      BY <1>0, <1>1, <2>1, <3>4, <3>5, <3>6 DEF JobSaw
    <3>. QED  BY <1>1, <1>2, <2>3, <3>5, <3>7, OneRunner
  <2>4. \/ job' = [job EXCEPT ![k] = saving]
        \/ job' = [job EXCEPT ![k] = recording]
    BY <1>7 DEF FetchChanged
  <2>. QED  BY <2>2, <2>3, <2>4
<1>8. CASE StampChanged(k)
  <2>. DEFINE state == [phase |-> "upserting", stats |-> job[k].stats, reg |-> job[k].reg,
                       began |-> job[k].began, missed |-> FALSE, at |-> job[k].at,
                       revision |-> job[k].revision, stamp |-> now]
  <2>1. job[k].phase = "saving" /\ job' = [job EXCEPT ![k] = state]
    BY <1>8 DEF StampChanged
  <2>2. /\ job[k].stats \in Stats /\ job[k].reg \in Registrations /\ job[k].began \in Times
        /\ job[k].at \in Times /\ job[k].revision \in Revisions
    BY <1>0, <2>1, JobType
  <2>3. /\ job[k].reg \in DOMAIN job[k].stats /\ job[k].began <= now /\ job[k].at <= now
        /\ Behind(job[k].reg, job[k].revision, job[k].at)
    BY <1>0, <2>1 DEF JobSaw
  <2>4. state \in JobStates
    BY <1>0, <2>2 DEF JobStates
  <2>5. TypeOK' /\ job'[k] = state
    BY <1>3, <2>1, <2>4
  <2>6. StatsAreOld(k)'
    BY <1>0, <1>1, <2>1, <2>5 DEF StatsAreOld, JobSaw
  <2>7. JobSaw(k)'
    BY <1>0, <1>1, <2>3, <2>5, <2>6 DEF JobSaw, Behind
  <2>. QED  BY <1>1, <1>2, <2>1, <2>5, <2>7, OneRunner
<1>9. CASE StampCheck(k)
  <2>. DEFINE state == [phase |-> "updating", stats |-> job[k].stats, reg |-> job[k].reg,
                       began |-> job[k].began, missed |-> job[k].missed, at |-> job[k].at,
                       stamp |-> now]
  <2>1. job[k].phase = "recording" /\ job' = [job EXCEPT ![k] = state]
    BY <1>9 DEF StampCheck
  <2>2. /\ job[k].stats \in Stats /\ job[k].reg \in Registrations /\ job[k].began \in Times
        /\ job[k].at \in Times /\ job[k].missed \in BOOLEAN
    BY <1>0, <2>1, JobType
  <2>3. /\ job[k].reg \in DOMAIN job[k].stats /\ job[k].began <= now
        /\ ~job[k].missed => job[k].at <= now /\ Covered(job[k].reg, job[k].stats[job[k].reg], job[k].at)
    BY <1>0, <2>1 DEF JobSaw
  <2>4. state \in JobStates
    BY <1>0, <2>2 DEF JobStates
  <2>5. TypeOK' /\ job'[k] = state
    BY <1>3, <2>1, <2>4
  <2>6. StatsAreOld(k)'
    BY <1>0, <1>1, <2>1, <2>5 DEF StatsAreOld, JobSaw
  <2>7. Covered(job[k].reg, job[k].stats[job[k].reg], job[k].at) =>
           Covered(job[k].reg, job[k].stats[job[k].reg], job[k].at)'
    BY <1>1, <2>5 DEF Covered, Day, JobDay
  <2>8. JobSaw(k)'
    BY <1>0, <1>1, <2>3, <2>5, <2>6, <2>7 DEF JobSaw, Covered, Day, JobDay
  <2>. QED  BY <1>1, <1>2, <2>1, <2>5, <2>8, OneRunner
<1>. QED  BY <1>4, <1>5, <1>6, <1>7, <1>8, <1>9

\* The steps of a recent job that write, or that leave a registration.
LEMMA WritingKeeps ==
    ASSUME IInv, NEW k \in Runners,
           SaveChanged(k) \/ RecordCheck(k) \/ FailCheck(k) \/ AbortRun(k)
    PROVE  IInv'
<1>0. /\ TypeOK /\ Past /\ JobSaw(k) /\ job[k] \in JobStates /\ now \in Times /\ now \in Int
      /\ \A t \in Times : t \in Int
  BY TimesAreNumbers DEF IInv, TypeOK
<1>1. UNCHANGED <<offset, now, page, task>>
  BY DEF SaveChanged, RecordCheck, FailCheck, AbortRun
<1>2. ASSUME NEW state \in JobStates, job' = [job EXCEPT ![k] = state],
             copy' \in [Registrations -> CopyRow \cup {Absent}]
      PROVE  TypeOK' /\ job'[k] = state
  BY <1>0, <1>1, <1>2 DEF TypeOK
<1>3. CASE SaveChanged(k)
  <2>. DEFINE state == [phase |-> "recording", stats |-> job[k].stats, reg |-> job[k].reg,
                       began |-> job[k].began, missed |-> FALSE, at |-> job[k].at]
  <2>1. /\ job[k].phase = "upserting" /\ job' = [job EXCEPT ![k] = state]
        /\ Save(job[k].reg, job[k].revision, job[k].stamp)
    BY <1>3 DEF SaveChanged
  <2>2. /\ job[k].stats \in Stats /\ job[k].reg \in Registrations /\ job[k].revision \in Revisions
        /\ job[k].began \in Times /\ job[k].at \in Times /\ job[k].stamp \in Times
    BY <1>0, <2>1, JobType
  <2>3. /\ job[k].at <= now /\ job[k].reg \in DOMAIN job[k].stats /\ job[k].began <= now
        /\ job[k].at <= job[k].stamp /\ job[k].stamp <= now
    BY <1>0, <2>1 DEF JobSaw
  <2>4. /\ copy' \in [Registrations -> CopyRow \cup {Absent}] /\ Grown /\ Past'
        /\ copy'[job[k].reg] # Absent /\ job[k].stamp <= copy'[job[k].reg].latest
    BY <1>1, <2>1, <2>2, <2>3, SaveKeeps
  <2>5. state \in JobStates
    BY <2>2 DEF JobStates
  <2>6. TypeOK' /\ job'[k] = state
    BY <1>2, <2>1, <2>4, <2>5
  <2>7. job[k].at <= copy'[job[k].reg].latest
    <3>1. copy'[job[k].reg] \in CopyRow
      BY <2>2, <2>4
    <3>2. copy'[job[k].reg].latest \in Int /\ job[k].at \in Int /\ job[k].stamp \in Int
      BY <2>2, <3>1, RowType, TimesAreNumbers
    <3>. QED  BY <2>3, <2>4, <3>2
  <2>8. StatsAreOld(k)'
    BY <2>1, <2>4, <2>6, StatsStayOld DEF StatsAreOld
  <2>9. JobSaw(k)'
    BY <1>1, <2>3, <2>6, <2>7, <2>8 DEF JobSaw, Covered
  <2>. QED  BY <1>1, <2>1, <2>4, <2>6, <2>9, OneRunner
<1>4. CASE RecordCheck(k)
  <2>. DEFINE r == job[k].reg
             seconds == copy[r].seconds + job[k].began - job[k].stats[r]
  <2>1. /\ job[k].phase = "updating" /\ job' = [job EXCEPT ![k] = Rest(k)]
        /\ Recorded(r, job[k].stamp, seconds)
    BY <1>4 DEF RecordCheck, Recorded
  <2>2. /\ r \in Registrations /\ r \in DOMAIN job[k].stats /\ copy[r] # Absent
        /\ job[k].began \in Times /\ job[k].stats[r] \in Times
        /\ job[k].stamp \in Times /\ job[k].stamp <= now
    BY <1>0, <2>1, JobType, StatsType DEF JobSaw, StatsAreOld
  <2>3. seconds \in Int
    <3>1. copy[r].seconds \in Int
      BY <1>0, <2>2, CopyType, RowType
    <3>2. job[k].began \in Int /\ job[k].stats[r] \in Int
      BY <1>0, <2>2
    <3>. HIDE DEF r
    <3>. QED  BY <3>1, <3>2
  <2>4. copy' \in [Registrations -> CopyRow \cup {Absent}] /\ Grown /\ Past'
    <3>. HIDE DEF seconds
    <3>. QED  BY <2>1, <2>2, <2>3, RecordKeeps
  <2>5. Rest(k) \in JobStates
    BY <2>1, RestType
  <2>6. TypeOK'
    BY <1>2, <2>1, <2>4, <2>5
  <2>. QED  BY <1>1, <2>1, <2>4, <2>6, RestKeeps
<1>5. CASE FailCheck(k)
  <2>1. /\ job[k].phase \notin {"off", "next"} /\ job' = [job EXCEPT ![k] = Rest(k)]
        /\ copy' = copy
    BY <1>5 DEF FailCheck
  <2>2. Rest(k) \in JobStates /\ copy' \in [Registrations -> CopyRow \cup {Absent}]
    BY <1>0, <2>1, RestType DEF TypeOK
  <2>3. TypeOK'
    BY <1>2, <2>1, <2>2
  <2>. QED  BY <1>1, <2>1, <2>3, Unwritten, RestKeeps
<1>6. CASE AbortRun(k)
  <2>1. job' = [job EXCEPT ![k] = Off] /\ copy' = copy
    BY <1>6 DEF AbortRun
  <2>2. Off \in JobStates /\ copy' \in [Registrations -> CopyRow \cup {Absent}]
    BY <1>0, <2>1 DEF TypeOK, JobStates
  <2>3. TypeOK' /\ job'[k] = Off
    BY <1>2, <2>1, <2>2
  <2>4. JobSaw(k)'
    BY <2>3 DEF JobSaw, StatsAreOld, Off
  <2>. QED  BY <1>1, <2>1, <2>3, <2>4, Unwritten, OneRunner
<1>. QED  BY <1>3, <1>4, <1>5, <1>6

\* The invariant holds at first.
LEMMA InitIInv == Init => IInv
<1> SUFFICES ASSUME Init PROVE IInv
  OBVIOUS
<1>1. 0 \in Times /\ 0 \in Revisions
  BY SyncAssumption DEF SyncAssumption, Times, Revisions
<1>2. Idle \in TaskStates /\ Off \in JobStates
  BY DEF TaskStates, JobStates
<1>3. TypeOK
  BY <1>1, <1>2 DEF Init, TypeOK
<1>4. Past
  BY DEF Init, Past
<1>5. \A w \in Refreshers : TaskSaw(w)
  BY DEF Init, Idle, TaskSaw
<1>6. \A k \in Runners : JobSaw(k)
  BY DEF Init, Off, JobSaw, StatsAreOld
<1>. QED  BY <1>3, <1>4, <1>5, <1>6 DEF IInv

\* Every step keeps it.
LEMMA NextIInv == IInv /\ [Next]_vars => IInv'
<1> SUFFICES ASSUME IInv, [Next]_vars PROVE IInv'
  OBVIOUS
<1>1. CASE UNCHANGED vars
  <2>1. UNCHANGED <<offset, now, page, copy, task, job>>
    BY <1>1 DEF vars
  <2>2. TypeOK' /\ Grown /\ Past'
    BY <2>1, Unwritten DEF IInv, TypeOK
  <2>3. \A w \in Refreshers : TaskSaw(w)'
    BY <2>1, <2>2, OtherTasksKeep
  <2>4. \A k \in Runners : JobSaw(k)'
    BY <2>1, <2>2, OtherJobsKeep
  <2>. QED  BY <2>2, <2>3, <2>4 DEF IInv
<1>. QED
  BY <1>1, TickKeeps, ModifyKeeps, RefreshKeeps, AskingKeeps, WritingKeeps DEF Next

-----------------------------------------------------------------------------
(* Where a change is lost *)

\* The days of what is compared.
LEMMA DayType ==
    ASSUME TypeOK
    PROVE  \A t \in Times : Day(t) \in Int /\ JobDay(t) \in Int
<1>1. offset \in Int /\ \A t \in Times : t \in Int /\ t + offset \in Int
  BY TimesAreNumbers DEF TypeOK
<1>. QED  BY <1>1, DaysGrow, TimesAreNumbers DEF Day, JobDay

\* Days follow the order of times.
LEMMA DayOrder ==
    ASSUME TypeOK, NEW s \in Times, NEW t \in Times, s <= t
    PROVE  Day(s) <= Day(t) /\ JobDay(s) <= JobDay(t)
<1>1. s \in Int /\ t \in Int /\ offset \in Int
  BY TimesAreNumbers DEF TypeOK
<1>2. s + offset \in Int /\ t + offset \in Int /\ s + offset <= t + offset
  BY <1>1
<1>. QED  BY <1>1, <1>2, DaysGrow, TimesAreNumbers DEF Day, JobDay

\* A change that is lost to the next check is exposed.
LostAreExposed == \A r \in Registrations : Lost(r) => Exposed(r)

\* So it is, as the latest time stamp of a copy is no earlier than its others.
LEMMA LostIsExposed == ASSUME IInv PROVE LostAreExposed
<1> SUFFICES ASSUME NEW r \in Registrations, Lost(r) PROVE Exposed(r)
  BY DEF LostAreExposed
<1>0. TypeOK /\ Past
  BY DEF IInv
<1>1. copy[r] # Absent /\ copy[r] \in CopyRow
  BY <1>0, CopyType DEF Lost
<1>2. /\ SyncedAt(copy[r]) \in Times /\ copy[r].latest \in Times
      /\ SyncedAt(copy[r]) <= copy[r].latest
  BY <1>0, <1>1, RowType DEF Past
<1>3. JobDay(SyncedAt(copy[r])) <= JobDay(copy[r].latest)
  BY <1>0, <1>2, DayOrder
<1>4. Day(page[r].modified) < JobDay(SyncedAt(copy[r]))
  BY DEF Lost, HiddenFrom
<1>5. page[r].modified \in Times
  BY <1>0, CopyType
<1>6. Day(page[r].modified) < JobDay(copy[r].latest)
  BY <1>0, <1>2, <1>3, <1>4, <1>5, DayType
<1>. QED  BY <1>6 DEF Lost, Exposed, HiddenFrom

\* A save exposes only what came after its answer, which is of an earlier day then.
LEMMA SaveExposes ==
    ASSUME IInv, NEW r \in Registrations, NEW revision \in Revisions, NEW at \in Times,
           NEW stamp \in Times, stamp <= now,
           Save(r, revision, stamp), UNCHANGED <<offset, now, page>>, Behind(r, revision, at),
           NEW q \in Registrations, ~Exposed(q), Exposed(q)'
    PROVE  q = r /\ OnEarlierDay(at)
<1>0. TypeOK /\ now \in Times
  BY DEF IInv, TypeOK
<1>1. /\ copy' \in [Registrations -> CopyRow \cup {Absent}] /\ Past'
      /\ copy'[r] # Absent /\ copy'[r].revision = revision
      /\ \A p \in Registrations : p # r => copy'[p] = copy[p]
  BY SaveKeeps
<1>2. q = r
  BY <1>1 DEF Exposed, HiddenFrom, Day, JobDay
<1>3. page[r].revision # revision /\ Day(page[r].modified) < JobDay(copy'[r].latest)
  BY <1>1, <1>2 DEF Exposed, HiddenFrom, Day, JobDay
<1>4. at <= page[r].modified /\ page[r].modified \in Times
  BY <1>0, <1>3, CopyType DEF Behind
<1>5. Day(at) <= Day(page[r].modified)
  BY <1>0, <1>4, DayOrder
<1>6. copy'[r].latest \in Times /\ copy'[r].latest <= now
  <2>1. copy'[r] \in CopyRow
    BY <1>1
  <2>. QED  BY <1>1, <2>1, RowType DEF Past
<1>7. JobDay(copy'[r].latest) <= JobDay(now)
  BY <1>0, <1>6, DayOrder
<1>8. /\ Day(at) \in Int /\ Day(page[r].modified) \in Int
      /\ JobDay(copy'[r].latest) \in Int /\ JobDay(now) \in Int
  BY <1>0, <1>4, <1>6, DayType
<1>9. Day(at) < JobDay(now)
  BY <1>3, <1>5, <1>7, <1>8
<1>. QED  BY <1>2, <1>9 DEF OnEarlierDay

\* A check exposes only what its answer, of an earlier day, did not cover.
LEMMA CheckExposes ==
    ASSUME IInv, NEW k \in Runners, RecordCheck(k),
           NEW q \in Registrations, ~Exposed(q), Exposed(q)'
    PROVE  q = job[k].reg /\ (job[k].missed \/ OnEarlierDay(job[k].at))
<1>0. TypeOK /\ now \in Times /\ JobSaw(k) /\ job[k] \in JobStates
  BY DEF IInv, TypeOK
<1>. DEFINE r == job[k].reg
           from == job[k].stats[r]
           at == job[k].at
           stamp == job[k].stamp
           seconds == copy[r].seconds + job[k].began - from
           latest == Later(copy[r].latest, stamp)
<1>1. /\ job[k].phase = "updating" /\ UNCHANGED <<offset, now, page>>
      /\ Recorded(r, stamp, seconds)
  BY DEF RecordCheck, Recorded
<1>2. /\ r \in Registrations /\ r \in DOMAIN job[k].stats /\ copy[r] # Absent
      /\ job[k].began \in Times /\ from \in Times /\ at \in Times /\ job[k].missed \in BOOLEAN
      /\ stamp \in Times /\ stamp <= now /\ from <= copy[r].latest
  BY <1>0, <1>1, JobType, StatsType DEF JobSaw, StatsAreOld
<1>3. seconds \in Int
  <2>1. copy[r].seconds \in Int /\ job[k].began \in Int /\ from \in Int
    BY <1>0, <1>2, CopyType, RowType, TimesAreNumbers
  <2>. HIDE DEF r, from
  <2>. QED  BY <2>1
<1>4. /\ copy'[r].revision = copy[r].revision /\ copy'[r].latest = latest
      /\ copy'[r] # Absent /\ copy'[r].latest <= now
      /\ \A p \in Registrations : p # r => copy'[p] = copy[p]
  <2>. HIDE DEF seconds
  <2>. QED  BY <1>1, <1>2, <1>3, RecordKeeps
<1>5. q = r
  BY <1>1, <1>4 DEF Exposed, HiddenFrom, Day, JobDay
<1>6. copy[r].revision # page[r].revision /\ Day(page[r].modified) < JobDay(latest)
  BY <1>1, <1>4, <1>5 DEF Exposed, HiddenFrom, Day, JobDay
<1>7. /\ page[r].modified \in Times /\ copy[r].latest \in Times /\ latest \in Times
  BY <1>0, <1>2, CopyType DEF Later
<1>. HIDE DEF latest
<1>8. /\ Day(page[r].modified) \in Int /\ JobDay(now) \in Int /\ JobDay(at) \in Int
      /\ Day(at) \in Int /\ JobDay(from) \in Int /\ JobDay(copy[r].latest) \in Int
      /\ JobDay(latest) \in Int
  BY <1>0, <1>2, <1>7, DayType
<1>9. Day(page[r].modified) < JobDay(now)
  <2>1. JobDay(latest) <= JobDay(now)
    BY <1>0, <1>4, <1>7, DayOrder DEF latest
  <2>. QED  BY <1>6, <1>8, <2>1
<1>10. JobDay(copy[r].latest) <= Day(page[r].modified)
  <2>1. ~(Day(page[r].modified) < JobDay(copy[r].latest))
    BY <1>2, <1>5, <1>6 DEF Exposed, HiddenFrom
  <2>. QED  BY <1>8, <2>1
<1>11. ASSUME ~job[k].missed
       PROVE  OnEarlierDay(at)
  <2>1. Covered(r, from, at)
    BY <1>0, <1>1, <1>11 DEF JobSaw
  <2>2. CASE at <= copy[r].latest
    <3>1. JobDay(at) <= JobDay(copy[r].latest)
      BY <1>0, <1>2, <1>7, <2>2, DayOrder
    <3>2. JobDay(at) < JobDay(now)
      BY <1>8, <1>9, <1>10, <3>1
    <3>. QED  BY <3>2 DEF OnEarlierDay
  <2>3. CASE at <= page[r].modified
    <3>1. Day(at) <= Day(page[r].modified)
      BY <1>0, <1>2, <1>7, <2>3, DayOrder
    <3>2. Day(at) < JobDay(now)
      BY <1>8, <1>9, <3>1
    <3>. QED  BY <3>2 DEF OnEarlierDay
  <2>4. CASE Day(page[r].modified) < JobDay(from)
    <3>1. JobDay(from) <= JobDay(copy[r].latest)
      BY <1>0, <1>2, <1>7, DayOrder
    <3>. QED  BY <1>8, <1>10, <2>4, <3>1
  <2>5. CASE JobDay(at) < Day(page[r].modified)
    <3>1. JobDay(at) < JobDay(now)
      BY <1>8, <1>9, <2>5
    <3>. QED  BY <3>1 DEF OnEarlierDay
  <2>. QED  BY <2>1, <2>2, <2>3, <2>4, <2>5 DEF Covered
<1>. QED  BY <1>5, <1>11

\* A change is dated by Taiwan when it is made.
LEMMA ModifyExposes ==
    ASSUME IInv, NEW r \in Registrations, Modify(r),
           NEW q \in Registrations, ~Exposed(q), Exposed(q)'
    PROVE  page'[q] # page[q] /\ Day(now) < JobDay(now)
<1>0. TypeOK /\ Past /\ now \in Times
  BY DEF IInv, TypeOK
<1>1. /\ page' = [page EXCEPT ![r] = [revision |-> page[r].revision + 1, modified |-> now]]
      /\ UNCHANGED <<offset, copy>>
  BY DEF Modify
<1>2. \A p \in Registrations : p # r => page'[p] = page[p]
  BY <1>0, <1>1 DEF TypeOK
<1>3. q = r
  BY <1>1, <1>2 DEF Exposed, HiddenFrom, Day, JobDay
<1>4. page'[r].revision = page[r].revision + 1 /\ page'[r].modified = now
  BY <1>0, <1>1 DEF TypeOK
<1>5. page[r].revision \in Int
  BY <1>0, CopyType, SyncAssumption DEF Revisions, SyncAssumption
<1>6. copy[r] # Absent /\ Day(now) < JobDay(copy[r].latest)
  BY <1>1, <1>3, <1>4 DEF Exposed, HiddenFrom, Day, JobDay
<1>7. copy[r].latest \in Times /\ copy[r].latest <= now
  BY <1>0, <1>6, CopyType DEF Past
<1>8. JobDay(copy[r].latest) <= JobDay(now)
  BY <1>0, <1>7, DayOrder
<1>9. Day(now) < JobDay(now)
  BY <1>0, <1>6, <1>7, <1>8, DayType
<1>. QED  BY <1>3, <1>4, <1>5, <1>9

\* The steps that may expose a change.
LEMMA StepExposes ==
    ASSUME IInv, [Next]_vars, NEW r \in Registrations, ~Exposed(r), Exposed(r)'
    PROVE  \/ page'[r] # page[r] /\ Day(now) < JobDay(now)
           \/ \E w \in Refreshers :
                 /\ task[w].phase = "upserting"
                 /\ task[w].reg = r
                 /\ task'[w] = Idle
                 /\ OnEarlierDay(task[w].at)
           \/ \E k \in Runners :
                 /\ job[k].phase \in {"upserting", "updating"}
                 /\ job[k].reg = r
                 /\ job'[k] # job[k]
                 /\ job[k].missed \/ OnEarlierDay(job[k].at)
<1>0. TypeOK
  BY DEF IInv
<1>1. ASSUME UNCHANGED <<offset, page, copy>>
      PROVE  FALSE
  BY <1>1 DEF Exposed, HiddenFrom, Day, JobDay
<1>2. ASSUME NEW q \in Registrations, Modify(q)
      PROVE  page'[r] # page[r] /\ Day(now) < JobDay(now)
  BY <1>2, ModifyExposes
<1>3. ASSUME NEW w \in Refreshers, SavePage(w)
      PROVE  /\ task[w].phase = "upserting" /\ task[w].reg = r /\ task'[w] = Idle
             /\ OnEarlierDay(task[w].at)
  <2>1. /\ task[w].phase = "upserting" /\ Save(task[w].reg, task[w].revision, task[w].stamp)
        /\ task' = [task EXCEPT ![w] = Idle] /\ UNCHANGED <<offset, now, page>>
    BY <1>3 DEF SavePage
  <2>2. TaskSaw(w) /\ task[w] \in TaskStates
    BY <1>0 DEF TypeOK, IInv
  <2>3. /\ task[w].reg \in Registrations /\ task[w].revision \in Revisions /\ task[w].at \in Times
        /\ task[w].stamp \in Times /\ task[w].stamp <= now
        /\ Behind(task[w].reg, task[w].revision, task[w].at)
    BY <2>1, <2>2, TaskType DEF TaskSaw
  <2>4. r = task[w].reg /\ OnEarlierDay(task[w].at)
    BY <2>1, <2>3, SaveExposes
  <2>. QED  BY <1>0, <2>1, <2>4 DEF TypeOK
<1>4. ASSUME NEW k \in Runners, SaveChanged(k)
      PROVE  /\ job[k].phase = "upserting" /\ job[k].reg = r /\ job'[k] # job[k]
             /\ OnEarlierDay(job[k].at)
  <2>1. /\ job[k].phase = "upserting" /\ Save(job[k].reg, job[k].revision, job[k].stamp)
        /\ UNCHANGED <<offset, now, page>>
    BY <1>4 DEF SaveChanged
  <2>2. JobSaw(k) /\ job[k] \in JobStates
    BY <1>0 DEF TypeOK, IInv
  <2>3. /\ job[k].reg \in Registrations /\ job[k].revision \in Revisions /\ job[k].at \in Times
        /\ job[k].stamp \in Times /\ job[k].stamp <= now
        /\ Behind(job[k].reg, job[k].revision, job[k].at)
    BY <2>1, <2>2, JobType DEF JobSaw
  <2>4. r = job[k].reg /\ OnEarlierDay(job[k].at)
    BY <2>1, <2>3, SaveExposes
  <2>5. job'[k].phase = "recording"
    BY <1>0, <1>4 DEF SaveChanged, TypeOK
  <2>. QED  BY <2>1, <2>4, <2>5
<1>5. ASSUME NEW k \in Runners, RecordCheck(k)
      PROVE  /\ job[k].phase = "updating" /\ job[k].reg = r /\ job'[k] # job[k]
             /\ job[k].missed \/ OnEarlierDay(job[k].at)
  <2>1. job[k].phase = "updating" /\ job' = [job EXCEPT ![k] = Rest(k)]
    BY <1>5 DEF RecordCheck
  <2>2. r = job[k].reg /\ (job[k].missed \/ OnEarlierDay(job[k].at))
    BY <1>5, CheckExposes
  <2>3. job'[k].phase # job[k].phase
    BY <1>0, <2>1, RestType DEF TypeOK
  <2>. QED  BY <2>1, <2>2, <2>3
<1>. QED
  BY <1>1, <1>2, <1>3, <1>4, <1>5
  DEF Next, vars, Tick, BeginRefresh, FetchPage, StampPage, GiveUpRefresh, BeginRun, BeginCheck,
      Answer, FetchChanged, StampChanged, StampCheck, FailCheck, AbortRun

-----------------------------------------------------------------------------
(* The seconds that the checks of one recent job add up *)

\* They end where the last check has been recorded.
Counted(r) ==
    copy[r] # Absent =>
        /\ 0 <= copy[r].seconds
        /\ copy[r].seconds = 0 \/ copy[r].seconds <= copy[r].checked - copy[r].first

\* The next check starts from there or from later, and begins after it starts from.
OwnCheck(k) ==
    /\ job[k].phase # "off" =>
          \A r \in DOMAIN job[k].stats :
             copy[r].first <= job[k].stats[r] /\ copy[r].checked <= job[k].stats[r]
    /\ job[k].phase \notin {"off", "next"} => job[k].stats[job[k].reg] <= job[k].began

CInv == (\A r \in Registrations : Counted(r)) /\ \A k \in Runners : OwnCheck(k)

\* A step of a job that writes no copy and keeps what it has read, or part of it.
LEMMA ReadingCounts ==
    ASSUME IInv, CInv, NEW k \in Runners, NEW state, job' = [job EXCEPT ![k] = state], copy' = copy,
           state.phase # "off" =>
              /\ job[k].phase # "off"
              /\ \A r \in DOMAIN state.stats :
                    r \in DOMAIN job[k].stats /\ state.stats[r] = job[k].stats[r],
           state.phase \notin {"off", "next"} => state.stats[state.reg] <= state.began
    PROVE  CInv'
<1>1. job'[k] = state /\ \A l \in Runners : l # k => job'[l] = job[l]
  BY DEF IInv, TypeOK
<1>2. OwnCheck(k)'
  BY <1>1 DEF CInv, OwnCheck
<1>3. \A l \in Runners : l # k => OwnCheck(l)'
  BY <1>1 DEF CInv, OwnCheck
<1>4. \A r \in Registrations : Counted(r)'
  BY DEF CInv, Counted
<1>. QED  BY <1>2, <1>3, <1>4 DEF CInv

\* A save starts the seconds of a new copy and keeps those of an old one, and what
\* the jobs have read is of other copies or stays where the checks have ended.
LEMMA SaveCounts ==
    ASSUME IInv, CInv, NEW r \in Registrations, NEW revision \in Revisions, NEW stamp \in Times,
           stamp <= now, Save(r, revision, stamp), UNCHANGED <<offset, now, page>>,
           \A k \in Runners :
              /\ job'[k].phase = "off" <=> job[k].phase = "off"
              /\ job'[k].phase \in {"off", "next"} <=> job[k].phase \in {"off", "next"}
              /\ job[k].phase # "off" => job'[k].stats = job[k].stats
              /\ job[k].phase \notin {"off", "next"} =>
                    job'[k].reg = job[k].reg /\ job'[k].began = job[k].began
    PROVE  CInv'
<1>1. /\ copy' \in [Registrations -> CopyRow \cup {Absent}] /\ copy'[r] # Absent
      /\ copy[r] = Absent => copy'[r].seconds = 0
      /\ copy[r] # Absent =>
            /\ copy'[r].first <= copy[r].first /\ copy'[r].checked = copy[r].checked
            /\ copy'[r].seconds = copy[r].seconds
      /\ \A q \in Registrations : q # r => copy'[q] = copy[q]
  BY SaveKeeps
<1>2. TypeOK /\ copy'[r] \in CopyRow
  BY <1>1 DEF IInv
<1>3. Counted(r)'
  <2>1. CASE copy[r] = Absent
    BY <1>1, <2>1 DEF Counted
  <2>2. CASE copy[r] # Absent
    <3>1. /\ copy[r].first \in Int /\ copy'[r].first \in Int /\ copy[r].checked \in Int
          /\ copy[r].seconds \in Int
      BY <1>2, <2>2, CopyType, RowType
    <3>2. /\ 0 <= copy[r].seconds
          /\ copy[r].seconds = 0 \/ copy[r].seconds <= copy[r].checked - copy[r].first
      BY <2>2 DEF CInv, Counted
    <3>3. /\ 0 <= copy'[r].seconds
          /\ copy'[r].seconds = 0 \/ copy'[r].seconds <= copy'[r].checked - copy'[r].first
      BY <1>1, <2>2, <3>1, <3>2
    <3>. QED  BY <3>3 DEF Counted
  <2>. QED  BY <2>1, <2>2
<1>4. \A q \in Registrations : q # r => Counted(q)'
  BY <1>1 DEF CInv, Counted
<1>5. ASSUME NEW k \in Runners
      PROVE  OwnCheck(k)'
  <2>1. ASSUME job'[k].phase # "off", NEW q \in DOMAIN job'[k].stats
        PROVE  copy'[q].first <= job'[k].stats[q] /\ copy'[q].checked <= job'[k].stats[q]
    <3>1. job[k].phase # "off" /\ job'[k].stats = job[k].stats /\ q \in DOMAIN job[k].stats
      BY <2>1
    <3>2. job[k].stats \in Stats
      BY <1>2, <3>1, JobType DEF TypeOK
    <3>3. q \in Registrations /\ job[k].stats[q] \in Int
      BY <3>1, <3>2, StatsType, TimesAreNumbers
    <3>4. copy[q].first <= job[k].stats[q] /\ copy[q].checked <= job[k].stats[q]
      BY <3>1 DEF CInv, OwnCheck
    <3>5. CASE q # r
      BY <1>1, <3>1, <3>3, <3>4, <3>5
    <3>6. CASE q = r
      <4>1. copy[r] # Absent
        BY <3>1, <3>6 DEF IInv, JobSaw, StatsAreOld
      <4>2. copy[r].first \in Int /\ copy'[r].first \in Int
        BY <1>2, <4>1, CopyType, RowType
      <4>. QED  BY <1>1, <3>1, <3>3, <3>4, <3>6, <4>1, <4>2
    <3>. QED  BY <3>5, <3>6
  <2>2. job'[k].phase \notin {"off", "next"} => job'[k].stats[job'[k].reg] <= job'[k].began
    BY DEF CInv, OwnCheck
  <2>. QED  BY <2>1, <2>2 DEF OwnCheck
<1>. QED  BY <1>3, <1>4, <1>5 DEF CInv

\* What the record of a check writes.
LEMMA RecordWrites ==
    ASSUME IInv, NEW k \in Runners, RecordCheck(k), NEW r \in Registrations, r = job[k].reg
    PROVE  /\ copy'[r] # Absent /\ copy'[r].checked = job[k].stamp
           /\ copy'[r].seconds = copy[r].seconds + job[k].began - job[k].stats[r]
           /\ copy'[r].first = copy[r].first
           /\ \A q \in Registrations : q # r => copy'[q] = copy[q]
<1>0. TypeOK /\ JobSaw(k) /\ job[k] \in JobStates
  BY DEF IInv, TypeOK
<1>. DEFINE seconds == copy[r].seconds + job[k].began - job[k].stats[r]
<1>1. job[k].phase = "updating" /\ Recorded(r, job[k].stamp, seconds)
  BY DEF RecordCheck, Recorded
<1>2. /\ r \in DOMAIN job[k].stats /\ copy[r] # Absent
      /\ job[k].began \in Int /\ job[k].stats[r] \in Int
      /\ job[k].stamp \in Times /\ job[k].stamp <= now
  BY <1>0, <1>1, JobType, StatsType, TimesAreNumbers DEF JobSaw, StatsAreOld
<1>3. seconds \in Int
  <2>1. copy[r].seconds \in Int
    BY <1>0, <1>2, CopyType, RowType
  <2>. QED  BY <1>2, <2>1
<1>4. /\ copy'[r] # Absent /\ copy'[r].checked = job[k].stamp /\ copy'[r].seconds = seconds
      /\ copy'[r].first = copy[r].first
      /\ \A q \in Registrations : q # r => copy'[q] = copy[q]
  <2>. HIDE DEF seconds
  <2>. QED  BY <1>1, <1>2, <1>3, RecordKeeps
<1>. QED  BY <1>4

\* A check of the only job adds the time from where its last one has ended, or from
\* later, to its own beginning.
LEMMA RecordCounts ==
    ASSUME IInv, CInv, NEW k \in Runners, RecordCheck(k), \A l \in Runners : l = k
    PROVE  CInv'
<1>0. TypeOK /\ JobSaw(k) /\ job[k] \in JobStates
  BY DEF IInv, TypeOK
<1>. PICK r \in Registrations : r = job[k].reg
  BY <1>0, JobType DEF RecordCheck
<1>. DEFINE from == job[k].stats[r]
           began == job[k].began
           stamp == job[k].stamp
           seconds == copy[r].seconds + began - from
<1>1. job[k].phase = "updating" /\ job' = [job EXCEPT ![k] = Rest(k)]
  BY DEF RecordCheck
<1>2. /\ r \in DOMAIN job[k].stats /\ copy[r] # Absent
      /\ began \in Times /\ from \in Times /\ stamp \in Times /\ began <= stamp /\ stamp <= now
  BY <1>0, <1>1, JobType, StatsType DEF JobSaw, StatsAreOld
<1>3. /\ began \in Int /\ from \in Int /\ stamp \in Int
      /\ copy[r].seconds \in Int /\ copy[r].first \in Int /\ copy[r].checked \in Int
  BY <1>0, <1>2, CopyType, RowType, TimesAreNumbers
<1>5. /\ copy'[r] # Absent /\ copy'[r].checked = stamp /\ copy'[r].seconds = seconds
      /\ copy'[r].first = copy[r].first
      /\ \A q \in Registrations : q # r => copy'[q] = copy[q]
  BY RecordWrites
<1>6. /\ from <= began /\ copy[r].first <= from /\ copy[r].checked <= from
      /\ 0 <= copy[r].seconds
      /\ copy[r].seconds = 0 \/ copy[r].seconds <= copy[r].checked - copy[r].first
  BY <1>1, <1>2 DEF CInv, Counted, OwnCheck
<1>7. 0 <= seconds /\ seconds <= stamp - copy[r].first
  <2>. HIDE DEF began, from, stamp
  <2>. QED  BY <1>2, <1>3, <1>6
<1>8. Counted(r)'
  BY <1>5, <1>7 DEF Counted
<1>9. \A q \in Registrations : q # r => Counted(q)'
  BY <1>5 DEF CInv, Counted
<1>10. OwnCheck(k)'
  <2>1. job'[k] = Rest(k)
    BY <1>0, <1>1 DEF TypeOK
  <2>2. Rest(k).phase = "next" => r \notin DOMAIN Rest(k).stats
    BY DEF Rest, Off
  <2>3. job[k].stats \in Stats /\ DOMAIN job[k].stats \subseteq Registrations
    BY <1>0, <1>1, JobType, StatsType
  <2>4. Rest(k).phase \in {"off", "next"} /\
        (Rest(k).phase = "next" =>
            \A q \in DOMAIN Rest(k).stats :
               q \in DOMAIN job[k].stats /\ Rest(k).stats[q] = job[k].stats[q])
    BY <1>1, RestType
  <2>5. ASSUME Rest(k).phase = "next", NEW q \in DOMAIN Rest(k).stats
        PROVE  copy'[q].first <= Rest(k).stats[q] /\ copy'[q].checked <= Rest(k).stats[q]
    <3>1. q \in DOMAIN job[k].stats /\ Rest(k).stats[q] = job[k].stats[q] /\ q # r
      BY <2>2, <2>4, <2>5
    <3>2. copy'[q] = copy[q]
      BY <1>5, <2>3, <3>1
    <3>3. copy[q].first <= job[k].stats[q] /\ copy[q].checked <= job[k].stats[q]
      BY <1>1, <3>1 DEF CInv, OwnCheck
    <3>. QED  BY <3>1, <3>2, <3>3
  <2>. QED  BY <2>1, <2>4, <2>5 DEF OwnCheck
<1>. QED  BY <1>8, <1>9, <1>10 DEF CInv

\* The other steps of a job.
LEMMA RunnerCounts ==
    ASSUME IInv, CInv, NEW k \in Runners,
           \/ BeginRun(k) \/ Answer(k) \/ FetchChanged(k) \/ StampChanged(k) \/ SaveChanged(k)
           \/ StampCheck(k) \/ FailCheck(k) \/ AbortRun(k) \/ \E r \in Registrations : BeginCheck(k, r)
    PROVE  CInv'
<1>0. /\ TypeOK /\ Past /\ now \in Int /\ JobSaw(k) /\ OwnCheck(k) /\ job[k] \in JobStates
  BY TimesAreNumbers DEF IInv, TypeOK, CInv
<1>1. ASSUME NEW state, job' = [job EXCEPT ![k] = state]
      PROVE  job'[k] = state /\ \A l \in Runners : l # k => job'[l] = job[l]
  BY <1>0, <1>1 DEF TypeOK
<1>2. CASE BeginRun(k)
  <2>. DEFINE stats == [r \in Known |-> SyncedAt(copy[r])]
  <2>1. /\ job' = [job EXCEPT ![k] = [phase |-> "next", stats |-> stats]] /\ copy' = copy
    BY <1>2 DEF BeginRun
  <2>2. \A r \in Known : copy[r].first <= SyncedAt(copy[r]) /\ copy[r].checked <= SyncedAt(copy[r])
    <3> SUFFICES ASSUME NEW r \in Known
                 PROVE  copy[r].first <= SyncedAt(copy[r]) /\ copy[r].checked <= SyncedAt(copy[r])
      OBVIOUS
    <3>1. r \in Registrations /\ copy[r] \in CopyRow /\ copy[r].first <= copy[r].updated
      BY <1>0, CopyType DEF Known, Past
    <3>2. /\ copy[r].first \in Int /\ copy[r].updated \in Int /\ SyncedAt(copy[r]) \in Int
          /\ copy[r].updated <= SyncedAt(copy[r]) /\ copy[r].checked <= SyncedAt(copy[r])
      BY <3>1, RowType
    <3>. QED  BY <3>1, <3>2
  <2>3. job'[k] = [phase |-> "next", stats |-> stats] /\ \A l \in Runners : l # k => job'[l] = job[l]
    BY <1>1, <2>1
  <2>4. DOMAIN stats = Known /\ \A r \in Known : stats[r] = SyncedAt(copy[r])
    OBVIOUS
  <2>. HIDE DEF stats
  <2>5. OwnCheck(k)'
    BY <2>1, <2>2, <2>3, <2>4 DEF OwnCheck
  <2>6. \A l \in Runners : l # k => OwnCheck(l)'
    BY <2>1, <2>3 DEF CInv, OwnCheck
  <2>7. \A r \in Registrations : Counted(r)'
    BY <2>1 DEF CInv, Counted
  <2>. QED  BY <2>5, <2>6, <2>7 DEF CInv
<1>3. ASSUME NEW r \in Registrations, BeginCheck(k, r)
      PROVE  CInv'
  <2>1. /\ job' = [job EXCEPT ![k] = [phase |-> "asking", stats |-> job[k].stats, reg |-> r,
                                      began |-> now]]
        /\ copy' = copy /\ job[k].phase = "next" /\ r \in DOMAIN job[k].stats
    BY <1>3 DEF BeginCheck
  <2>2. job[k].stats[r] \in Int
    BY <1>0, <2>1, JobType, StatsType, TimesAreNumbers
  <2>3. copy[r].latest \in Int /\ job[k].stats[r] <= copy[r].latest /\ copy[r].latest <= now
    BY <1>0, <2>1, CopyType, TimesAreNumbers DEF JobSaw, StatsAreOld, Past
  <2>4. job[k].stats[r] <= now
    BY <1>0, <2>2, <2>3
  <2>. QED  BY <2>1, <2>4, ReadingCounts
<1>4. CASE Answer(k) \/ FetchChanged(k) \/ StampChanged(k) \/ StampCheck(k)
  <2>1. /\ job'[k].stats = job[k].stats /\ job'[k].reg = job[k].reg /\ job'[k].began = job[k].began
        /\ \A l \in Runners : l # k => job'[l] = job[l]
        /\ copy' = copy /\ job[k].phase \notin {"off", "next"}
    <3>1. CASE Answer(k) \/ StampChanged(k) \/ StampCheck(k)
      BY <1>0, <3>1 DEF Answer, StampChanged, StampCheck, TypeOK
    <3>2. CASE FetchChanged(k)
      <4>1. job[k].phase = "fetching" /\ copy' = copy
        BY <3>2 DEF FetchChanged
      <4>2. job[k] \in Waiting
        BY <1>0, <4>1, JobType
      <4>. DEFINE recording == [job[k] EXCEPT !.phase = "recording", !.missed = TRUE]
                 saving == [phase |-> "saving", stats |-> job[k].stats, reg |-> job[k].reg,
                            began |-> job[k].began, missed |-> FALSE, at |-> now,
                            revision |-> page[job[k].reg].revision]
      <4>3. \/ job' = [job EXCEPT ![k] = saving]
            \/ job' = [job EXCEPT ![k] = recording]
        BY <3>2 DEF FetchChanged
      <4>4. /\ recording.stats = job[k].stats /\ recording.reg = job[k].reg
            /\ recording.began = job[k].began
        BY <4>2 DEF Waiting
      <4>5. /\ saving.stats = job[k].stats /\ saving.reg = job[k].reg
            /\ saving.began = job[k].began
        OBVIOUS
      <4>. HIDE DEF recording, saving
      <4>. QED  BY <1>1, <4>1, <4>3, <4>4, <4>5
    <3>. QED  BY <1>4, <3>1, <3>2
  <2>2. OwnCheck(k)'
    BY <1>0, <2>1 DEF OwnCheck
  <2>3. \A l \in Runners : l # k => OwnCheck(l)'
    BY <2>1 DEF CInv, OwnCheck
  <2>4. \A r \in Registrations : Counted(r)'
    BY <2>1 DEF CInv, Counted
  <2>. QED  BY <2>2, <2>3, <2>4 DEF CInv
<1>5. CASE SaveChanged(k)
  <2>. DEFINE state == [phase |-> "recording", stats |-> job[k].stats, reg |-> job[k].reg,
                       began |-> job[k].began, missed |-> FALSE, at |-> job[k].at]
  <2>1. /\ job' = [job EXCEPT ![k] = state]
        /\ job[k].phase = "upserting" /\ Save(job[k].reg, job[k].revision, job[k].stamp)
        /\ UNCHANGED <<offset, now, page>>
    BY <1>5 DEF SaveChanged
  <2>2. /\ job[k].reg \in Registrations /\ job[k].revision \in Revisions
        /\ job[k].stamp \in Times /\ job[k].stamp <= now
    BY <1>0, <2>1, JobType DEF JobSaw
  <2>3. job'[k] = state /\ \A l \in Runners : l # k => job'[l] = job[l]
    BY <1>1, <2>1
  <2>. QED  BY <2>1, <2>2, <2>3, SaveCounts
<1>6. CASE FailCheck(k)
  <2>1. /\ job[k].phase \notin {"off", "next"} /\ job' = [job EXCEPT ![k] = Rest(k)] /\ copy' = copy
    BY <1>6 DEF FailCheck
  <2>. QED  BY <2>1, RestType, ReadingCounts
<1>7. CASE AbortRun(k)
  <2>1. job' = [job EXCEPT ![k] = Off] /\ copy' = copy /\ Off.phase = "off"
    BY <1>7 DEF AbortRun, Off
  <2>. QED  BY <2>1, ReadingCounts
<1>. QED  BY <1>2, <1>3, <1>4, <1>5, <1>6, <1>7

\* The invariant of the counts holds at first.
LEMMA InitCInv == Init => CInv
  BY DEF Init, Off, CInv, Counted, OwnCheck

\* Every step keeps it, with one job.
LEMMA NextCInv ==
    ASSUME IInv, CInv, [Next]_vars, \A k \in Runners : \A l \in Runners : l = k
    PROVE  CInv'
<1>1. ASSUME copy' = copy, job' = job
      PROVE  CInv'
  <2>1. \A k \in Runners : OwnCheck(k)'
    BY <1>1 DEF CInv, OwnCheck
  <2>2. \A r \in Registrations : Counted(r)'
    BY <1>1 DEF CInv, Counted
  <2>. QED  BY <2>1, <2>2 DEF CInv
<1>2. ASSUME NEW w \in Refreshers, SavePage(w)
      PROVE  CInv'
  <2>1. /\ task[w].phase = "upserting" /\ Save(task[w].reg, task[w].revision, task[w].stamp)
        /\ UNCHANGED <<offset, now, page, job>>
    BY <1>2 DEF SavePage
  <2>2. /\ task[w].reg \in Registrations /\ task[w].revision \in Revisions
        /\ task[w].stamp \in Times /\ task[w].stamp <= now
    BY <2>1, TaskType DEF IInv, TypeOK, TaskSaw
  <2>. QED  BY <2>1, <2>2, SaveCounts
<1>. QED
  BY <1>1, <1>2, RunnerCounts, RecordCounts
  DEF Next, vars, Tick, Modify, BeginRefresh, FetchPage, StampPage, GiveUpRefresh

-----------------------------------------------------------------------------
\* The invariant holds: what a job has read is never ahead of the copies, and what is
\* about to be saved was on the page (jobs.go:88-126, server.go:231-262).
THEOREM Invariance == Spec => []IInv
  BY InitIInv, NextIInv, PTL DEF Spec

\* The types hold: in particular a check is recorded only for a registration that
\* is stored, and the time stamps of a copy are never missing (jobs.go:47-87,
\* store.go:90-111, 178).
THEOREM TypeCorrect == Spec => []TypeOK
<1>1. IInv => TypeOK
  BY DEF IInv
<1>. QED  BY <1>1, Invariance, PTL

\* However item pages, background refreshes and recent jobs interleave, and however
\* late their statements come, a change is exposed to be lost to the later checks only
\* ahead of Taiwan's zone, across midnight, after an empty page, or after a list
\* without its number (server.go:245-265, jobs.go:47-87, bsmi.go:108-132).
THEOREM AlwaysLostOnlyAcrossMidnight == Spec => LostOnlyAcrossMidnight
<1>1. IInv /\ LostAreExposed' /\ [Next]_vars =>
         [\A r \in Registrations :
             /\ Lost(r)' => Exposed(r)'
             /\ ~Exposed(r) /\ Exposed(r)' =>
                   \/ page'[r] # page[r] /\ Day(now) < JobDay(now)
                   \/ \E w \in Refreshers :
                         /\ task[w].phase = "upserting"
                         /\ task[w].reg = r
                         /\ task'[w] = Idle
                         /\ OnEarlierDay(task[w].at)
                   \/ \E k \in Runners :
                         /\ job[k].phase \in {"upserting", "updating"}
                         /\ job[k].reg = r
                         /\ job'[k] # job[k]
                         /\ job[k].missed \/ OnEarlierDay(job[k].at)]_vars
  <2> SUFFICES ASSUME IInv, LostAreExposed', [Next]_vars, NEW r \in Registrations
               PROVE  /\ Lost(r)' => Exposed(r)'
                      /\ ~Exposed(r) /\ Exposed(r)' =>
                            \/ page'[r] # page[r] /\ Day(now) < JobDay(now)
                            \/ \E w \in Refreshers :
                                  /\ task[w].phase = "upserting"
                                  /\ task[w].reg = r
                                  /\ task'[w] = Idle
                                  /\ OnEarlierDay(task[w].at)
                            \/ \E k \in Runners :
                                  /\ job[k].phase \in {"upserting", "updating"}
                                  /\ job[k].reg = r
                                  /\ job'[k] # job[k]
                                  /\ job[k].missed \/ OnEarlierDay(job[k].at)
    OBVIOUS
  <2>1. Lost(r)' => Exposed(r)'
    BY DEF LostAreExposed
  <2>. QED  BY <2>1, StepExposes
<1>2. IInv => LostAreExposed
  BY LostIsExposed
<1>. QED  BY <1>1, <1>2, Invariance, PTL DEF Spec, LostOnlyAcrossMidnight

\* With one recent job the checks of a registration never add up to more than the
\* time since the earliest time stamp of its copy, whatever refreshes it meanwhile, however late its
\* statements come and wherever a run ends: the rate that freshness.go estimates is
\* over time that has really passed (jobs.go:56-62, store.go:85-110, freshness.go:110-119).
THEOREM OneJobCountsOnce ==
    ASSUME Cardinality(Runners) = 1
    PROVE  Spec => []ChecksCoverElapsedTime
<1>1. \A k \in Runners : \A l \in Runners : l = k
  <2>1. IsFiniteSet(Runners)
    BY SyncAssumption DEF SyncAssumption
  <2>2. PICK k : Runners = {k}
    BY <2>1, FS_Singleton
  <2>. QED  BY <2>2
<1>2. IInv /\ CInv => ChecksCoverElapsedTime
  <2> SUFFICES ASSUME IInv, CInv PROVE ChecksCoverElapsedTime
    OBVIOUS
  <2>1. ASSUME NEW r \in Registrations, copy[r] # Absent
        PROVE  copy[r].seconds \in 0..(now - copy[r].first)
    <3>1. copy[r] \in CopyRow /\ now \in Int
      BY <2>1, CopyType, TimesAreNumbers DEF IInv, TypeOK
    <3>2. /\ copy[r].seconds \in Int /\ copy[r].first \in Int /\ copy[r].updated \in Int
          /\ copy[r].checked \in Int /\ copy[r].latest \in Int
      BY <3>1, RowType
    <3>3. /\ copy[r].first <= copy[r].updated /\ copy[r].updated <= copy[r].latest
          /\ copy[r].checked <= copy[r].latest /\ copy[r].latest <= now
      BY <2>1 DEF IInv, Past
    <3>4. /\ 0 <= copy[r].seconds
          /\ copy[r].seconds = 0 \/ copy[r].seconds <= copy[r].checked - copy[r].first
      BY <2>1 DEF CInv, Counted
    <3>. QED  BY <3>1, <3>2, <3>3, <3>4
  <2>2. (Cardinality(Runners) * (Cardinality(Runners) + 1)) \div 2 = 1
    OBVIOUS
  <2>3. ASSUME NEW r \in Registrations, copy[r] # Absent
        PROVE  1 * (now - copy[r].first) = now - copy[r].first
    <3>1. copy[r].first \in Int /\ now \in Int
      BY <2>3, CopyType, RowType, TimesAreNumbers DEF IInv, TypeOK
    <3>. QED  BY <3>1
  <2>. QED  BY <2>1, <2>2, <2>3 DEF ChecksCoverElapsedTime
<1>3. IInv /\ CInv /\ [Next]_vars => CInv'
  BY <1>1, NextCInv
<1>. QED  BY <1>2, <1>3, InitCInv, Invariance, PTL DEF Spec
=============================================================================
