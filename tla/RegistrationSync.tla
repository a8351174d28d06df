-------------------------- MODULE RegistrationSync --------------------------
(***************************************************************************)
(* How the local copy of a registration follows its page at BSMI.          *)
(*                                                                         *)
(* Two kinds of activity write the copy:                                   *)
(*   refreshers  an item page of an unknown registration, the background   *)
(*               refresh of a copy older than a day (internal/web/         *)
(*               server.go), an e-commerce job that met an unknown         *)
(*               registration (internal/collector/jobs.go, ec): read the   *)
(*               copy, fetch the page, save it;                            *)
(*   runners     the recent job, started by the daemon or by hand: read    *)
(*               when every copy was last synchronized, then for each ask  *)
(*               BSMI whether a certificate was modified since, fetch and  *)
(*               save the page if so, and record the check.                *)
(*                                                                         *)
(* Each request, each time stamp and each statement is a step of its own,  *)
(* and time passes between any two: a statement carries the time stamp     *)
(* taken before it, and may wait for a session of the pool, for the lock   *)
(* of the row or for another process that writes the file, so that an      *)
(* older time stamp may be written over a later one.  BSMI answers by the  *)
(* day.  A page is its revision; what saving it does to the certificates   *)
(* is the subject of Catalog.                                              *)
(***************************************************************************)
EXTENDS Integers, FiniteSets

CONSTANTS
    Registrations, \* registration numbers
    Refreshers,    \* goroutines and processes that refresh one registration
    Runners,       \* processes that run the recent job
    DayLength,     \* ticks in a day
    RefreshAge,    \* ticks after which an item page refreshes a copy (a day)
    Offsets,       \* ticks by which j.Location may be ahead of Taiwan
    Homonyms,      \* whether a certificate of another registration type with
                   \* the same digits may answer a query (it drops the type)
    Uncounted,     \* whether BSMI may list certificates without their number
    MaxClock,      \* bound on the clock
    MaxRevision,   \* bound on the revisions of a page
    Absent         \* the registration has not been stored

ASSUME SyncAssumption ==
    /\ IsFiniteSet(Runners)
    /\ DayLength \in Nat \ {0}
    /\ RefreshAge \in Nat
    /\ Offsets \subseteq Int
    /\ Homonyms \in BOOLEAN
    /\ Uncounted \in BOOLEAN
    /\ MaxClock \in Nat
    /\ MaxRevision \in Nat

VARIABLES
    offset, \* the zone the jobs run in (TZ): ticks ahead of Taiwan
    now,   \* the clock
    page,  \* page[r]: the revision of the page at BSMI, and when it was modified
    copy,  \* copy[r]: the stored registration, or Absent
    task,  \* task[w]: what refresher w is doing
    job    \* job[k]: what runner k is doing

vars == <<offset, now, page, copy, task, job>>

Times == 0..MaxClock
Revisions == 0..MaxRevision
Never == -DayLength  \* checked_at of a copy never checked: NULL, the zero time

\* Days as BSMI dates its modifications, and as the job dates its queries.
Day(t) == t \div DayLength
JobDay(t) == (t + offset) \div DayLength

Earlier(s, t) == IF s < t THEN s ELSE t
Later(s, t) == IF s < t THEN t ELSE s

\* first and latest are history, for the properties: the earliest updated_at and
\* the latest time stamp that the row has had.
Stored(revision, stamp) ==
    [revision |-> revision, updated |-> stamp, checked |-> Never, seconds |-> 0,
     first |-> stamp, latest |-> stamp]

\* Mutant of SyncedAt: only the last refresh.
UpdatedAt(c) == c.updated

\* The later of the last refresh and the last check.
SyncedAt(c) == Later(c.checked, c.updated)

Idle == [phase |-> "idle"]
Off == [phase |-> "off"]

Init ==
    /\ offset \in Offsets
    /\ now = 0
    /\ page = [r \in Registrations |-> [revision |-> 0, modified |-> 0]]
    /\ copy = [r \in Registrations |-> Absent]
    /\ task = [w \in Refreshers |-> Idle]
    /\ job = [k \in Runners |-> Off]

-----------------------------------------------------------------------------
(* The world *)

Tick == now < MaxClock /\ now' = now + 1 /\ UNCHANGED <<offset, page, copy, task, job>>

\* BSMI changes a certificate of r and dates the change.
Modify(r) ==
    /\ page[r].revision < MaxRevision
    /\ page' = [page EXCEPT ![r] = [revision |-> @.revision + 1, modified |-> now]]
    /\ UNCHANGED <<offset, now, copy, task, job>>

-----------------------------------------------------------------------------
(* Refreshing *)

\* The statements of SaveRegistration, as far as the registration row goes: an
\* insert starts the statistics, an update keeps them.
Save(r, revision, stamp) ==
    LET c == copy[r] IN
    copy' = [copy EXCEPT ![r] =
                IF c = Absent THEN Stored(revision, stamp)
                ELSE [c EXCEPT !.revision = revision, !.updated = stamp,
                               !.first = Earlier(c.first, stamp),
                               !.latest = Later(c.latest, stamp)]]

\* The copy is missing, or too old.
NeedsRefresh(r) == copy[r] # Absent => now - copy[r].updated > RefreshAge

BeginRefresh(w, r) ==
    /\ task[w] = Idle
    /\ NeedsRefresh(r)
    /\ task' = [task EXCEPT ![w] = [phase |-> "fetching", reg |-> r]]
    /\ UNCHANGED <<offset, now, page, copy, job>>

FetchPage(w) ==
    /\ task[w].phase = "fetching"
    /\ LET r == task[w].reg IN
       task' = [task EXCEPT ![w] = [phase |-> "saving", reg |-> r,
                                    revision |-> page[r].revision, at |-> now]]
    /\ UNCHANGED <<offset, now, page, copy, job>>

\* SaveRegistration begins: now := s.now().
StampPage(w) ==
    /\ task[w].phase = "saving"
    /\ LET t == task[w] IN
       task' = [task EXCEPT ![w] = [phase |-> "upserting", reg |-> t.reg, revision |-> t.revision,
                                    at |-> t.at, stamp |-> now]]
    /\ UNCHANGED <<offset, now, page, copy, job>>

SavePage(w) ==
    /\ task[w].phase = "upserting"
    /\ Save(task[w].reg, task[w].revision, task[w].stamp)
    /\ task' = [task EXCEPT ![w] = Idle]
    /\ UNCHANGED <<offset, now, page, job>>

\* An empty page (nothing to save), a failed request, a failed transaction, a
\* cancelled context.
GiveUpRefresh(w) ==
    /\ task[w] # Idle
    /\ task' = [task EXCEPT ![w] = Idle]
    /\ UNCHANGED <<offset, now, page, copy, job>>

-----------------------------------------------------------------------------
(* The recent job *)

Known == {r \in Registrations : copy[r] # Absent}

\* RefreshStats.  The order and the budget of refreshOrder are any here.
BeginRun(k) ==
    /\ job[k] = Off
    /\ Known # {}
    /\ job' = [job EXCEPT ![k] = [phase |-> "next",
                                  stats |-> [r \in Known |-> SyncedAt(copy[r])]]]
    /\ UNCHANGED <<offset, now, page, copy, task>>

\* now := time.Now(), and the query leaves for BSMI.
BeginCheck(k, r) ==
    /\ job[k].phase = "next"
    /\ r \in DOMAIN job[k].stats
    /\ job' = [job EXCEPT ![k] = [phase |-> "asking", stats |-> @.stats, reg |-> r,
                                  began |-> now]]
    /\ UNCHANGED <<offset, now, page, copy, task>>

\* Mutant of Modified: the query starts on the day after.
ModifiedAfter(r, from, to) == Day(page[r].modified) \in (JobDay(from) + 1)..JobDay(to)

\* HasRecentChanges: whether the page was modified on a day of the query, the
\* first and the last included.
Modified(r, from, to) == Day(page[r].modified) \in JobDay(from)..JobDay(to)

\* A page with their number says whether there are any.  Without it a page that
\* lists fewer than seven counts as one without changes.
Answer(k) ==
    /\ job[k].phase = "asking"
    /\ LET r == job[k].reg
           hit == Modified(r, job[k].stats[r], job[k].began)
       IN \E changed \in BOOLEAN :
             /\ hit => changed \/ Uncounted
             /\ changed => hit \/ Homonyms
             /\ job' = [job EXCEPT ![k] =
                           [phase |-> IF changed THEN "fetching" ELSE "recording",
                            stats |-> @.stats, reg |-> r, began |-> @.began,
                            missed |-> hit /\ ~changed, at |-> @.began]]
    /\ UNCHANGED <<offset, now, page, copy, task>>

\* FetchRegistration inside refresh; an empty page has nothing to save.
FetchChanged(k) ==
    /\ job[k].phase = "fetching"
    /\ \/ job' = [job EXCEPT ![k] = [phase |-> "saving", stats |-> @.stats, reg |-> @.reg,
                                     began |-> @.began, missed |-> FALSE,
                                     at |-> now, revision |-> page[job[k].reg].revision]]
       \/ job' = [job EXCEPT ![k].phase = "recording", ![k].missed = TRUE]
    /\ UNCHANGED <<offset, now, page, copy, task>>

\* SaveRegistration begins.
StampChanged(k) ==
    /\ job[k].phase = "saving"
    /\ job' = [job EXCEPT ![k] = [phase |-> "upserting", stats |-> @.stats, reg |-> @.reg,
                                  began |-> @.began, missed |-> FALSE,
                                  at |-> @.at, revision |-> @.revision, stamp |-> now]]
    /\ UNCHANGED <<offset, now, page, copy, task>>

SaveChanged(k) ==
    /\ job[k].phase = "upserting"
    /\ Save(job[k].reg, job[k].revision, job[k].stamp)
    /\ job' = [job EXCEPT ![k] = [phase |-> "recording", stats |-> @.stats, reg |-> @.reg,
                                  began |-> @.began, missed |-> FALSE,
                                  at |-> @.at]]
    /\ UNCHANGED <<offset, now, page, task>>

\* The registrations left after the one being checked; none left ends the run.
Rest(k) ==
    LET left == DOMAIN job[k].stats \ {job[k].reg} IN
    IF left = {} THEN Off
    ELSE [phase |-> "next", stats |-> [r \in left |-> job[k].stats[r]]]

\* RecordCheck begins: s.now() is an argument of its statement.
StampCheck(k) ==
    /\ job[k].phase = "recording"
    /\ job' = [job EXCEPT ![k] = [phase |-> "updating", stats |-> @.stats, reg |-> @.reg,
                                  began |-> @.began, missed |-> @.missed,
                                  at |-> @.at, stamp |-> now]]
    /\ UNCHANGED <<offset, now, page, copy, task>>

RecordCheck(k) ==
    /\ job[k].phase = "updating"
    /\ LET r == job[k].reg
           c == copy[r]
       IN copy' = [copy EXCEPT ![r] =
                      [c EXCEPT !.checked = job[k].stamp, !.latest = Later(c.latest, job[k].stamp),
                                !.seconds = c.seconds + job[k].began - job[k].stats[r]]]
    /\ job' = [job EXCEPT ![k] = Rest(k)]
    /\ UNCHANGED <<offset, now, page, task>>

\* A step of the check fails: the check is not recorded and the run goes on.
FailCheck(k) ==
    /\ job[k].phase \notin {"off", "next"}
    /\ job' = [job EXCEPT ![k] = Rest(k)]
    /\ UNCHANGED <<offset, now, page, copy, task>>

\* BSMI limits the rate, or the process is stopped.
AbortRun(k) ==
    /\ job[k] # Off
    /\ job' = [job EXCEPT ![k] = Off]
    /\ UNCHANGED <<offset, now, page, copy, task>>

-----------------------------------------------------------------------------
Next ==
    \/ Tick
    \/ \E r \in Registrations : Modify(r)
    \/ \E w \in Refreshers :
          \/ \E r \in Registrations : BeginRefresh(w, r)
          \/ FetchPage(w)
          \/ StampPage(w)
          \/ SavePage(w)
          \/ GiveUpRefresh(w)
    \/ \E k \in Runners :
          \/ BeginRun(k)
          \/ \E r \in Registrations : BeginCheck(k, r)
          \/ Answer(k)
          \/ FetchChanged(k)
          \/ StampChanged(k)
          \/ SaveChanged(k)
          \/ StampCheck(k)
          \/ RecordCheck(k)
          \/ FailCheck(k)
          \/ AbortRun(k)

Spec == Init /\ [][Next]_vars
-----------------------------------------------------------------------------
CopyRow == [revision: Revisions, updated: Times, checked: Times \cup {Never}, seconds: Int,
            first: Times, latest: Times]

ASSUME AbsentAssumption == Absent \notin CopyRow

Stats == UNION {[S -> Times] : S \in SUBSET Registrations}

TaskStates ==
    {Idle}
    \cup [phase: {"fetching"}, reg: Registrations]
    \cup [phase: {"saving"}, reg: Registrations, revision: Revisions, at: Times]
    \cup [phase: {"upserting"}, reg: Registrations, revision: Revisions, at: Times, stamp: Times]

JobStates ==
    {Off}
    \cup [phase: {"next"}, stats: Stats]
    \cup [phase: {"asking"}, stats: Stats, reg: Registrations, began: Times]
    \cup [phase: {"fetching", "recording"}, stats: Stats, reg: Registrations, began: Times,
          missed: BOOLEAN, at: Times]
    \cup [phase: {"saving"}, stats: Stats, reg: Registrations, began: Times,
          missed: {FALSE}, at: Times, revision: Revisions]
    \cup [phase: {"upserting"}, stats: Stats, reg: Registrations, began: Times,
          missed: {FALSE}, at: Times, revision: Revisions, stamp: Times]
    \cup [phase: {"updating"}, stats: Stats, reg: Registrations, began: Times,
          missed: BOOLEAN, at: Times, stamp: Times]

TypeOK ==
    /\ offset \in Offsets
    /\ now \in Times
    /\ page \in [Registrations -> [revision: Revisions, modified: Times]]
    /\ copy \in [Registrations -> CopyRow \cup {Absent}]
    /\ task \in [Refreshers -> TaskStates]
    /\ job \in [Runners -> JobStates]

\* The copy of r is behind its page, and the modification is dated on a day before
\* time t in the zone of the jobs: a check that asks from t on does not find out.
HiddenFrom(r, t) ==
    copy[r] # Absent /\ copy[r].revision # page[r].revision /\ Day(page[r].modified) < JobDay(t)

\* The next check, which asks from the last synchronization on, will not find out;
\* nor one that asks from the latest time stamp the copy has had, as a job that has
\* read it before it was put back.
Lost(r) == copy[r] # Absent /\ HiddenFrom(r, SyncedAt(copy[r]))
Exposed(r) == copy[r] # Absent /\ HiddenFrom(r, copy[r].latest)

\* What is written now follows an answer of time t, which was a day earlier.
OnEarlierDay(t) == Day(t) < JobDay(now) \/ JobDay(t) < JobDay(now)

\* A modification is never lost to the checks but after a step that has exposed it,
\* and there are four such steps: a change made at an hour at which the zone of the
\* job is already a day ahead; a page, or a check, that is written on a later day, in
\* the zone of the job, than its answer was given on, there or in Taiwan (store.go:95-110,
\* 172-198, bsmi.go:108-113, jobs.go:57); the check of a registration whose page
\* was empty although BSMI had just reported it as modified (jobs.go:83-85); and one
\* for which BSMI has listed fewer than seven certificates without their number
\* (bsmi.go:126-132).  So with Taiwan's zone, and numbered lists and no empty page,
\* nothing is lost within a day by any order of item pages, background refreshes and
\* recent jobs: neither by stale pages saved late nor by time stamps that go back.
LostOnlyAcrossMidnight ==
    [][\A r \in Registrations :
          /\ Lost(r)' => Exposed(r)'
          /\ ~Exposed(r) /\ Exposed(r)' =>
                \/ page'[r] # page[r] /\ Day(now) < JobDay(now)
                \/ \E w \in Refreshers :
                      /\ task[w].phase = "upserting"
                      /\ task[w].reg = r
                      /\ task'[w] = Idle
                      /\ OnEarlierDay(task[w].at)
                \/ \E k \in Runners :
                      /\ job[k].phase \in {"upserting", "updating"}
                      /\ job[k].reg = r
                      /\ job'[k] # job[k]
                      /\ job[k].missed \/ OnEarlierDay(job[k].at)]_vars

\* One recent job counts no moment of a registration twice, nor one before the earliest
\* time stamp of its copy, whatever others save in between and however late (jobs.go:56-62,
\* store.go:90-110): freshness.go estimates the rate over time that has really passed.
\* Of n jobs at the same time (the daemon's, and collect recent) each counts for
\* itself, and once more for each other whose check, written late, has put checked_at
\* back before its own: n + (n - 1) + ... + 1 times in all.
ChecksCoverElapsedTime ==
    LET n == Cardinality(Runners)
    IN \A r \in Registrations :
          copy[r] # Absent => copy[r].seconds \in 0..((n * (n + 1)) \div 2) * (now - copy[r].first)

\* jobs.go:47-48: the recent job "refreshes those with certificates modified
\* since they were last synchronized": a copy that is behind its page is found
\* so by its next check.
EveryChangeIsFound == \A r \in Registrations : ~Lost(r)
=============================================================================
