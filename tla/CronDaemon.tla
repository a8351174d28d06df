----------------------------- MODULE CronDaemon -----------------------------
(***************************************************************************)
(* The cron daemon: Daemon in internal/collector/jobs.go, with Sleep of    *)
(* http.go and the part of main.go that starts it and closes the database. *)
(*                                                                         *)
(* The loop of the daemon, the goroutines that run the jobs, the signal    *)
(* handler and the clock are interleaved.  The loop and the goroutines     *)
(* share the atomic flag `running` and the channel `done` of capacity one. *)
(* Time is a cyclic clock of one day: a schedule repeats, so does the      *)
(* state.  What a job does is left out; it ends, sooner or later.          *)
(***************************************************************************)
EXTENDS Integers

CONSTANTS
    Workers,     \* goroutines of jobs
    MinuteTicks, \* clock ticks in a minute
    DayTicks,    \* clock ticks in a day
    Schedule,    \* the minute marks at which a job is due
    MaxLag       \* bound: ticks by which the loop may run behind its timer

ASSUME DaemonAssumption ==
    /\ MinuteTicks \in Nat \ {0}
    /\ DayTicks \in Nat \ {0}
    /\ DayTicks % MinuteTicks = 0
    /\ MaxLag \in Nat

VARIABLES
    clock,     \* the time of day
    due,       \* ticks until the timer of the loop fires; negative when late
    next,      \* the minute mark the loop sleeps for
    pc,        \* where the loop is
    running,   \* the atomic flag
    done,      \* how many notifications are in the channel
    worker,    \* worker[g]: where goroutine g is
    cancelled  \* the context of the process is cancelled

loop == <<clock, due, next>>
vars == <<loop, pc, running, done, worker, cancelled>>

\* now.Truncate(time.Minute), as a distance from now.
SinceMinute == clock % MinuteTicks

Init ==
    /\ clock \in 0..(DayTicks - 1)
    /\ SinceMinute <= MaxLag
    /\ due = -SinceMinute
    /\ next = clock - SinceMinute
    /\ pc = "compute"
    /\ running = FALSE
    /\ done = 0
    /\ worker = [g \in Workers |-> "none"]
    /\ cancelled = FALSE

-----------------------------------------------------------------------------
(* The clock, the signal *)

Tick ==
    /\ pc \notin {"returned", "closed"}
    /\ due > -MaxLag
    /\ clock' = (clock + 1) % DayTicks
    /\ due' = due - 1
    /\ UNCHANGED <<next, pc, running, done, worker, cancelled>>

\* SIGINT or SIGTERM.
Cancel ==
    /\ ~cancelled
    /\ cancelled' = TRUE
    /\ UNCHANGED <<loop, pc, running, done, worker>>

-----------------------------------------------------------------------------
(* The loop *)

\* Mutant of Compute: a minute from now.
ComputeFromNow ==
    /\ pc = "compute"
    /\ due' = MinuteTicks
    /\ next' = (clock + MinuteTicks) % DayTicks
    /\ pc' = "sleeping"
    /\ UNCHANGED <<clock, running, done, worker, cancelled>>

\* now.Truncate(time.Minute).Add(time.Minute), and the timer is set.
Compute ==
    /\ pc = "compute"
    /\ due' = MinuteTicks - SinceMinute
    /\ next' = ((clock - SinceMinute) + MinuteTicks) % DayTicks
    /\ pc' = "sleeping"
    /\ UNCHANGED <<clock, running, done, worker, cancelled>>

\* Sleep: select takes either case when both are ready.
TimerFires ==
    /\ pc = "sleeping"
    /\ due <= 0
    /\ pc' = "awake"
    /\ UNCHANGED <<loop, running, done, worker, cancelled>>

SleepCancelled ==
    /\ pc = "sleeping"
    /\ cancelled
    /\ pc' = "stopping"
    /\ UNCHANGED <<loop, running, done, worker, cancelled>>

\* next.In(j.Location): the marks of a day are those of the local clock.  A change to
\* or from summer time, which repeats some marks or leaves them out, is not modelled.
NothingDue ==
    /\ pc = "awake"
    /\ next \notin Schedule
    /\ pc' = "compute"
    /\ UNCHANGED <<loop, running, done, worker, cancelled>>

\* CompareAndSwap fails: the job is skipped, not queued.
Skip ==
    /\ pc = "awake"
    /\ next \in Schedule
    /\ running
    /\ pc' = "compute"
    /\ UNCHANGED <<loop, running, done, worker, cancelled>>

\* CompareAndSwap succeeds.
Claim ==
    /\ pc = "awake"
    /\ next \in Schedule
    /\ ~running
    /\ running' = TRUE
    /\ pc' = "draining"
    /\ UNCHANGED <<loop, done, worker, cancelled>>

\* Mutant of Drain: the channel is not drained.
DrainNothing ==
    /\ pc = "draining"
    /\ pc' = "starting"
    /\ UNCHANGED <<loop, running, done, worker, cancelled>>

\* Receive the notification of the previous job, if it is still there.
Drain ==
    /\ pc = "draining"
    /\ done' = 0
    /\ pc' = "starting"
    /\ UNCHANGED <<loop, running, worker, cancelled>>

Start(g) ==
    /\ pc = "starting"
    /\ worker[g] = "none"
    /\ worker' = [worker EXCEPT ![g] = "working"]
    /\ pc' = "compute"
    /\ UNCHANGED <<loop, running, done, cancelled>>

\* Mutant of Stop: return without waiting.
StopAtOnce ==
    /\ pc = "stopping"
    /\ pc' = "returned"
    /\ UNCHANGED <<loop, running, done, worker, cancelled>>

\* running.Load(): wait for the job, or return.
Stop ==
    /\ pc = "stopping"
    /\ pc' = IF running THEN "waiting" ELSE "returned"
    /\ UNCHANGED <<loop, running, done, worker, cancelled>>

\* <-done
Await ==
    /\ pc = "waiting"
    /\ done > 0
    /\ done' = done - 1
    /\ pc' = "returned"
    /\ UNCHANGED <<loop, running, worker, cancelled>>

\* The deferred calls of main: the database is closed, the process exits.
CloseDatabase ==
    /\ pc = "returned"
    /\ pc' = "closed"
    /\ UNCHANGED <<loop, running, done, worker, cancelled>>

-----------------------------------------------------------------------------
(* The goroutine of a job *)

\* Mutant of JobEnds: the flag is stored before the notification.
JobEndsReleasing(g) ==
    /\ pc # "closed"
    /\ worker[g] = "working"
    /\ running' = FALSE
    /\ worker' = [worker EXCEPT ![g] = "notifying"]
    /\ UNCHANGED <<loop, pc, done, cancelled>>

\* Mutant of JobEnds: the notification is missing.
JobEndsSilently(g) ==
    /\ pc # "closed"
    /\ worker[g] = "working"
    /\ worker' = [worker EXCEPT ![g] = "releasing"]
    /\ UNCHANGED <<loop, pc, running, done, cancelled>>

\* Run returns, at its end or because the context is cancelled.
JobEnds(g) ==
    /\ pc # "closed"
    /\ worker[g] = "working"
    /\ worker' = [worker EXCEPT ![g] = "notifying"]
    /\ UNCHANGED <<loop, pc, running, done, cancelled>>

\* done <- struct{}{}
Notify(g) ==
    /\ pc # "closed"
    /\ worker[g] = "notifying"
    /\ done = 0
    /\ done' = done + 1
    /\ worker' = [worker EXCEPT ![g] = "releasing"]
    /\ UNCHANGED <<loop, pc, running, cancelled>>

\* Mutant of Release: the flag is kept.
ReleaseNothing(g) ==
    /\ pc # "closed"
    /\ worker[g] = "releasing"
    /\ worker' = [worker EXCEPT ![g] = "none"]
    /\ UNCHANGED <<loop, pc, running, done, cancelled>>

\* running.Store(false)
Release(g) ==
    /\ pc # "closed"
    /\ worker[g] = "releasing"
    /\ running' = FALSE
    /\ worker' = [worker EXCEPT ![g] = "none"]
    /\ UNCHANGED <<loop, pc, done, cancelled>>

-----------------------------------------------------------------------------
Loop ==
    \/ Compute \/ TimerFires \/ SleepCancelled \/ NothingDue \/ Skip \/ Claim
    \/ Drain \/ (\E g \in Workers : Start(g)) \/ Stop \/ Await \/ CloseDatabase

Job(g) == JobEnds(g) \/ Notify(g) \/ Release(g)

Next == Tick \/ Cancel \/ Loop \/ \E g \in Workers : Job(g)

\* The clock runs, the scheduler runs every goroutine that can run, and a job
\* ends: its requests time out after two minutes (http.go:64) and its loops
\* are bounded.  Sleep, late, finds both the timer and the cancellation ready;
\* select draws one at random, so it does not draw the timer for ever: strong
\* fairness.  Nobody has to send a signal.
Fairness ==
    /\ WF_vars(Tick)
    /\ WF_vars(Loop)
    /\ SF_vars(SleepCancelled)
    /\ \A g \in Workers : WF_vars(Job(g))

Spec == Init /\ [][Next]_vars /\ Fairness
-----------------------------------------------------------------------------
TypeOK ==
    /\ clock \in 0..(DayTicks - 1)
    /\ due \in -MaxLag..MinuteTicks
    /\ next \in 0..(DayTicks - 1)
    /\ pc \in {"compute", "sleeping", "awake", "draining", "starting",
               "stopping", "waiting", "returned", "closed"}
    /\ running \in BOOLEAN
    /\ done \in 0..1
    /\ worker \in [Workers -> {"none", "working", "notifying", "releasing"}]
    /\ cancelled \in BOOLEAN

\* When Daemon has returned, and main closes the database, no job is at work
\* (jobs.go:130-135, main.go:70): the notification the loop waited for is that
\* of the running job, never that of an earlier one.
QuietAfterReturn ==
    pc \in {"returned", "closed"} => \A g \in Workers : worker[g] # "working"

\* A goroutine that reports its end always finds room in the channel
\* (jobs.go:148-160): otherwise it would keep `running` set for ever, and every
\* later job would be skipped.
NotifyNeverBlocks ==
    \A g \in Workers : worker[g] = "notifying" => done = 0

\* Two jobs never overlap, the one reporting its end and the one being started
\* included (jobs.go:144-147, 160).
JobsNeverOverlap ==
    \A g, h \in Workers :
        worker[g] # "none" /\ (worker[h] # "none" \/ pc \in {"draining", "starting"})
            => g = h /\ pc \notin {"draining", "starting"}

\* While the loop lags less than a minute, consecutive wake-ups are for
\* consecutive minutes (jobs.go:128-141).  In a zone whose days all have the same
\* length, so that a mark of the clock is one of the schedule (jobs.go:136), no
\* entry of the schedule is then passed over or met twice.
EveryMinuteOnce ==
    [][pc = "compute" /\ pc' = "sleeping" => next' = (next + MinuteTicks) % DayTicks]_vars

\* Once the signal came, Daemon returns and the database is closed, whatever
\* the loop and the job were doing.
CancelEndsDaemon == cancelled ~> (pc = "closed")

\* Until the signal comes jobs go on being started: a finished job never
\* leaves the flag behind.
JobsKeepRunning == <>cancelled \/ []<>(\E g \in Workers : worker[g] = "working")
=============================================================================
