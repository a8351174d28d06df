-------------------------- MODULE CronDaemonProofs --------------------------
(***************************************************************************)
(* The daemon is safe for any number of goroutines, any clock and any      *)
(* schedule.                                                               *)
(*                                                                         *)
(* None of the safety properties is inductive.  They rest on who holds the *)
(* flag `running` - the loop from Claim to Start, then the goroutine it    *)
(* started, down to its Release - and on the channel being empty from      *)
(* Drain to the notification of that goroutine: Handover.                  *)
(*                                                                         *)
(* That no minute is skipped rests on Aligned: the timer and the clock     *)
(* agree on the mark the next wake-up is for.                              *)
(***************************************************************************)
EXTENDS CronDaemon, TLAPS

\* The flag has one holder: the loop while it starts a job, or one goroutine.
OneHolder ==
    /\ \A g \in Workers : worker[g] # "none" =>
          /\ running
          /\ pc \notin {"draining", "starting"}
          /\ \A h \in Workers : worker[h] # "none" => g = h
    /\ pc \in {"draining", "starting"} => running

\* From Drain to Notify the channel is empty.
NotYetNotified ==
    /\ pc = "starting" => done = 0
    /\ \A g \in Workers : worker[g] \in {"working", "notifying"} => done = 0

Handover == OneHolder /\ NotYetNotified /\ QuietAfterReturn

IInv == TypeOK /\ Handover

-----------------------------------------------------------------------------
\* What % gives is in its range, and below what it is given.
LEMMA ModRange ==
    ASSUME NEW a \in Int, NEW m \in Nat \ {0}
    PROVE  a % m \in 0..(m - 1)
OBVIOUS

\* Rounding down to a multiple.
LEMMA ModBelow ==
    ASSUME NEW a \in Nat, NEW m \in Nat \ {0}
    PROVE  a - (a % m) \in 0..a
<1>1. a % m \in 0..(m - 1) BY ModRange
<1>2. a = m * (a \div m) + (a % m) OBVIOUS
<1>3. a \div m \in Nat OBVIOUS
<1>4. m * (a \div m) \in Nat BY <1>3
<1> QED BY <1>1, <1>2, <1>4

-----------------------------------------------------------------------------
\* The invariant holds at first.
LEMMA InitiallySafe == Init => IInv
<1> SUFFICES ASSUME Init PROVE IInv OBVIOUS
<1> USE DaemonAssumption
<1>1. clock \in Nat /\ clock % MinuteTicks \in 0..(MinuteTicks - 1)
    BY ModRange DEF Init
<1>2. clock - (clock % MinuteTicks) \in 0..clock BY <1>1, ModBelow
<1>3. clock \in 0..(DayTicks - 1) /\ next \in 0..(DayTicks - 1)
    BY <1>1, <1>2 DEF Init, SinceMinute
<1>4. due \in -MaxLag..MinuteTicks BY <1>1 DEF Init, SinceMinute
<1>5. TypeOK
  <2>1. running \in BOOLEAN /\ cancelled \in BOOLEAN BY Zenon DEF Init
  <2> QED BY <1>3, <1>4, <2>1 DEF Init, TypeOK
<1>6. Handover BY DEF Init, Handover, OneHolder, NotYetNotified, QuietAfterReturn
<1> QED BY <1>5, <1>6 DEF IInv

\* Every step keeps the types.
LEMMA TypeStep == TypeOK /\ Handover /\ [Next]_vars => TypeOK'
<1> SUFFICES ASSUME TypeOK, Handover, [Next]_vars PROVE TypeOK' OBVIOUS
<1> USE DaemonAssumption DEF TypeOK, loop
<1>1. CASE Tick
  <2>1. clock' \in 0..(DayTicks - 1) BY <1>1, ModRange DEF Tick
  <2>2. due' \in -MaxLag..MinuteTicks BY <1>1 DEF Tick
  <2> QED BY <1>1, <2>1, <2>2 DEF Tick
<1>2. CASE Cancel BY <1>2 DEF Cancel
<1>3. CASE Compute
  <2>1. SinceMinute \in 0..(MinuteTicks - 1) BY ModRange DEF SinceMinute
  <2>2. next' \in 0..(DayTicks - 1) BY <1>3, <2>1, ModRange DEF Compute
  <2>3. due' \in -MaxLag..MinuteTicks BY <1>3, <2>1 DEF Compute
  <2> QED BY <1>3, <2>2, <2>3 DEF Compute
<1>4. CASE TimerFires \/ SleepCancelled \/ NothingDue \/ Skip \/ Claim \/ Drain
  <2> USE <1>4 DEF TimerFires, SleepCancelled, NothingDue, Skip, Claim, Drain
  <2>1. running' \in BOOLEAN /\ cancelled' \in BOOLEAN
    <3>1. running' \in {running, TRUE} /\ cancelled' = cancelled BY Zenon
    <3> QED BY <3>1, Zenon
  <2> QED BY <2>1
<1>5. CASE Stop \/ Await \/ CloseDatabase
    BY <1>5 DEF Stop, Await, CloseDatabase
<1>6. ASSUME NEW g \in Workers, Start(g) PROVE TypeOK' BY <1>6 DEF Start
<1>7. ASSUME NEW g \in Workers, Job(g) PROVE TypeOK'
  <2> USE <1>7 DEF Job, JobEnds, Notify, Release
  <2>1. running' \in BOOLEAN /\ cancelled' \in BOOLEAN
    <3>1. running' \in {running, FALSE} /\ cancelled' = cancelled BY Zenon
    <3> QED BY <3>1, Zenon
  <2> QED BY <2>1
<1>8. CASE UNCHANGED vars BY <1>8 DEF vars
<1> QED BY <1>1, <1>2, <1>3, <1>4, <1>5, <1>6, <1>7, <1>8 DEF Next, Loop

\* Every step keeps the handover.
LEMMA HandoverStep == TypeOK /\ Handover /\ [Next]_vars => Handover'
<1> SUFFICES ASSUME TypeOK, Handover, [Next]_vars PROVE Handover' OBVIOUS
<1> USE DEF TypeOK, loop, Handover, OneHolder, NotYetNotified, QuietAfterReturn
<1>1. CASE Tick \/ Cancel \/ Compute BY <1>1 DEF Tick, Cancel, Compute
<1>2. CASE TimerFires \/ SleepCancelled \/ NothingDue \/ Skip
    BY <1>2 DEF TimerFires, SleepCancelled, NothingDue, Skip
<1>3. CASE Claim BY <1>3 DEF Claim
<1>4. CASE Drain BY <1>4 DEF Drain
<1>5. ASSUME NEW g \in Workers, Start(g) PROVE Handover' BY <1>5 DEF Start
<1>6. CASE Stop BY <1>6 DEF Stop
<1>7. CASE Await BY <1>7 DEF Await
<1>8. CASE CloseDatabase BY <1>8 DEF CloseDatabase
<1>9. ASSUME NEW g \in Workers, Job(g) PROVE Handover'
  <2>1. CASE JobEnds(g) BY <2>1 DEF JobEnds
  <2>2. CASE Notify(g) BY <2>2 DEF Notify
  <2>3. CASE Release(g) BY <2>3 DEF Release
  <2> QED BY <1>9, <2>1, <2>2, <2>3 DEF Job
<1>10. CASE UNCHANGED vars BY <1>10 DEF vars
<1> QED
    BY <1>1, <1>2, <1>3, <1>4, <1>5, <1>6, <1>7, <1>8, <1>9, <1>10 DEF Next, Loop

\* The flag and the channel are handed over in order, whatever the loop, the
\* goroutines and the signal do (jobs.go:120-163).
THEOREM Invariance == Spec => []IInv
<1>1. IInv /\ [Next]_vars => IInv' BY TypeStep, HandoverStep DEF IInv
<1> QED BY InitiallySafe, <1>1, PTL DEF Spec

-----------------------------------------------------------------------------
\* Every variable keeps its type: in particular the channel never holds more
\* than its one notification.
THEOREM TypeCorrect == Spec => []TypeOK
<1>1. IInv => TypeOK BY DEF IInv
<1> QED BY Invariance, <1>1, PTL

\* When Daemon has returned no job is at work (jobs.go:130-135).
THEOREM AlwaysQuietAfterReturn == Spec => []QuietAfterReturn
<1>1. IInv => QuietAfterReturn BY DEF IInv, Handover
<1> QED BY Invariance, <1>1, PTL

\* A goroutine that reports its end finds room in the channel
\* (jobs.go:148-160).
THEOREM NotifyNeverBlocked == Spec => []NotifyNeverBlocks
<1>1. IInv => NotifyNeverBlocks
    BY DEF IInv, Handover, NotYetNotified, NotifyNeverBlocks
<1> QED BY Invariance, <1>1, PTL

\* Two jobs never overlap (jobs.go:144-160).
THEOREM NoJobsOverlap == Spec => []JobsNeverOverlap
<1>1. IInv => JobsNeverOverlap
    BY DEF IInv, Handover, OneHolder, JobsNeverOverlap
<1> QED BY Invariance, <1>1, PTL

-----------------------------------------------------------------------------
(* The minutes *)

\* A time at which a minute begins.
Mark(t) == \E q \in Nat : t = MinuteTicks * q

\* The clock and the timer agree on the mark the loop sleeps for, which may be
\* tomorrow's first; and the loop leaves its sleep when the timer fires.
Aligned ==
    /\ Mark(next)
    /\ clock = IF due <= next THEN next - due ELSE (next - due) + DayTicks
    /\ pc \in {"compute", "awake", "draining", "starting"} => due <= 0

\* Two multiples are apart by the modulus.
LEMMA Multiples ==
    ASSUME NEW m \in Nat \ {0}, NEW p \in Nat, NEW q \in Nat, p < q
    PROVE  m * p + m <= m * q
<1>1. PICK d \in Nat : q = p + 1 + d
  <2>1. q - p - 1 \in Nat /\ q = p + 1 + (q - p - 1) OBVIOUS
  <2> QED BY <2>1
<1>2. m * q = m * p + m + m * d BY <1>1
<1>3. m * d \in Nat /\ m * p \in Nat OBVIOUS
<1> QED BY <1>2, <1>3

\* The mark of a minute that has begun is what % takes away.
LEMMA ModOfMark ==
    ASSUME NEW t \in Nat, Mark(t), NEW r \in 0..(MinuteTicks - 1)
    PROVE  (t + r) % MinuteTicks = r
<1> DEFINE s == (t + r) % MinuteTicks
<1> USE DaemonAssumption
<1>1. PICK q \in Nat : t = MinuteTicks * q BY DEF Mark
<1>2. s \in 0..(MinuteTicks - 1) BY ModRange
<1>3. PICK p \in Nat : t + r = MinuteTicks * p + s
  <2>1. t + r = MinuteTicks * ((t + r) \div MinuteTicks) + s OBVIOUS
  <2>2. (t + r) \div MinuteTicks \in Nat OBVIOUS
  <2> QED BY <2>1, <2>2
<1>4. MinuteTicks * p \in Nat /\ MinuteTicks * q \in Nat OBVIOUS
<1> HIDE DEF s
<1>5. ~(p < q)
  <2>1. SUFFICES ASSUME p < q PROVE FALSE OBVIOUS
  <2>2. MinuteTicks * p + MinuteTicks <= MinuteTicks * q BY <2>1, Multiples
  <2> QED BY <1>1, <1>2, <1>3, <1>4, <2>2
<1>6. ~(q < p)
  <2>1. SUFFICES ASSUME q < p PROVE FALSE OBVIOUS
  <2>2. MinuteTicks * q + MinuteTicks <= MinuteTicks * p BY <2>1, Multiples
  <2> QED BY <1>1, <1>2, <1>3, <1>4, <2>2
<1>7. p = q BY <1>5, <1>6
<1>8. s = r BY <1>1, <1>2, <1>3, <1>4, <1>7
<1> QED BY <1>8 DEF s

\* The next mark of the day is within it, or is its end.
LEMMA MarkWithinDay ==
    ASSUME NEW t \in Nat, Mark(t), t < DayTicks
    PROVE  Mark(t + MinuteTicks) /\ t + MinuteTicks <= DayTicks
<1> USE DaemonAssumption
<1>1. PICK q \in Nat : t = MinuteTicks * q BY DEF Mark
<1>2. t + MinuteTicks = MinuteTicks * (q + 1) BY <1>1
<1>3. Mark(t + MinuteTicks) BY <1>2 DEF Mark
<1>4. PICK d \in Nat : DayTicks = MinuteTicks * d
  <2>1. DayTicks = MinuteTicks * (DayTicks \div MinuteTicks) + (DayTicks % MinuteTicks) OBVIOUS
  <2>2. DayTicks \div MinuteTicks \in Nat OBVIOUS
  <2>3. MinuteTicks * (DayTicks \div MinuteTicks) \in Nat BY <2>2
  <2> QED BY <2>1, <2>2, <2>3
<1>5. q < d
  <2>1. CASE d < q
    <3>1. MinuteTicks * d + MinuteTicks <= MinuteTicks * q BY <2>1, Multiples
    <3> QED BY <1>1, <1>4, <3>1
  <2>2. d # q BY <1>1, <1>4
  <2> QED BY <2>1, <2>2
<1>6. MinuteTicks * q + MinuteTicks <= MinuteTicks * d BY <1>5, Multiples
<1> QED BY <1>1, <1>3, <1>4, <1>6

\* A time of the day is its own remainder.
LEMMA ModIsSmall ==
    ASSUME NEW t \in Nat, t < DayTicks
    PROVE  t % DayTicks = t /\ DayTicks % DayTicks = 0
BY DaemonAssumption

\* The timer is aligned at first.
LEMMA InitiallyAligned == Init => Aligned
<1> SUFFICES ASSUME Init PROVE Aligned OBVIOUS
<1> USE DaemonAssumption
<1>1. clock \in Nat /\ SinceMinute \in 0..(MinuteTicks - 1) BY ModRange DEF Init, SinceMinute
<1>2. clock - SinceMinute \in 0..clock BY <1>1, ModBelow DEF SinceMinute
<1>3. Mark(clock - SinceMinute)
  <2>1. clock = MinuteTicks * (clock \div MinuteTicks) + SinceMinute BY <1>1 DEF SinceMinute
  <2>2. clock \div MinuteTicks \in Nat BY <1>1
  <2>3. MinuteTicks * (clock \div MinuteTicks) \in Nat BY <2>2
  <2>4. clock - SinceMinute = MinuteTicks * (clock \div MinuteTicks) BY <1>1, <2>1, <2>3
  <2> QED BY <2>2, <2>4 DEF Mark
<1>4. next = clock - SinceMinute /\ due = -SinceMinute BY DEF Init
<1>5. due <= 0 /\ 0 <= next /\ clock = next - due BY <1>1, <1>2, <1>4
<1> QED BY <1>1, <1>2, <1>3, <1>4, <1>5 DEF Aligned

\* A loop that is less than a minute late sleeps for the minute after the last.
LEMMA ComputesNext ==
    ASSUME MaxLag < MinuteTicks, TypeOK, Aligned, Compute
    PROVE  next' = (next + MinuteTicks) % DayTicks /\ Aligned'
<1> USE DaemonAssumption
<1>1. /\ next \in Nat /\ next < DayTicks /\ Mark(next) /\ due \in Int /\ due <= 0
      /\ -due \in 0..(MinuteTicks - 1) /\ clock = next + (-due)
    BY DEF TypeOK, Aligned, Compute
<1>2. SinceMinute = -due BY <1>1, ModOfMark DEF SinceMinute
<1>3. /\ due' = MinuteTicks + due /\ next' = (next + MinuteTicks) % DayTicks
      /\ clock' = clock /\ pc' = "sleeping"
    BY <1>1, <1>2 DEF Compute
<1>4. Mark(next + MinuteTicks) /\ next + MinuteTicks <= DayTicks BY <1>1, MarkWithinDay
<1>5. CASE next + MinuteTicks < DayTicks
  <2>1. next' = next + MinuteTicks BY <1>1, <1>3, <1>5, ModIsSmall
  <2>2. Mark(next)' BY <1>4, <2>1 DEF Mark
  <2>3. due' <= next' /\ clock' = next' - due' BY <1>1, <1>3, <2>1
  <2> QED BY <1>3, <2>2, <2>3 DEF Aligned
<1>6. CASE next + MinuteTicks = DayTicks
  <2>1. next' = 0 BY <1>1, <1>3, <1>6, ModIsSmall
  <2>2. MinuteTicks * 0 = 0 OBVIOUS
  <2>3. Mark(next)' BY <2>1, <2>2 DEF Mark
  <2>4. ~(due' <= next') /\ clock' = (next' - due') + DayTicks BY <1>1, <1>3, <1>6, <2>1
  <2> QED BY <1>3, <2>3, <2>4 DEF Aligned
<1> QED BY <1>1, <1>3, <1>4, <1>5, <1>6

\* Every step keeps it aligned, within the lag.
LEMMA AlignedStep ==
    ASSUME MaxLag < MinuteTicks
    PROVE  TypeOK /\ Aligned /\ [Next]_vars => Aligned'
<1> SUFFICES ASSUME TypeOK, Aligned, [Next]_vars PROVE Aligned' OBVIOUS
<1> USE DaemonAssumption
<1>1. CASE Tick
  <2>1. /\ next \in Nat /\ next < DayTicks /\ Mark(next) /\ due \in Int /\ -MaxLag < due
        /\ due' = due - 1 /\ clock' = (clock + 1) % DayTicks /\ next' = next /\ pc' = pc
        /\ clock \in Nat /\ clock < DayTicks
      BY <1>1 DEF Tick, TypeOK, Aligned
  <2>2. next + MinuteTicks <= DayTicks BY <2>1, MarkWithinDay
  <2>3. Mark(next)' BY <2>1 DEF Mark
  <2>4. pc' \in {"compute", "awake", "draining", "starting"} => due' <= 0
      BY <2>1 DEF Aligned
  <2>5. CASE due <= next
    <3>1. clock = next - due BY <2>5 DEF Aligned
    <3>2. clock + 1 < DayTicks /\ clock + 1 \in Nat BY <2>1, <2>2, <3>1
    <3>3. clock' = clock + 1 BY <2>1, <3>2, ModIsSmall
    <3>4. due' <= next' /\ clock' = next' - due' BY <2>1, <2>5, <3>1, <3>3
    <3> QED BY <2>3, <2>4, <3>4 DEF Aligned
  <2>6. CASE next + 1 < due
    <3>1. clock = (next - due) + DayTicks BY <2>1, <2>6 DEF Aligned
    <3>2. clock + 1 < DayTicks /\ clock + 1 \in Nat BY <2>1, <2>6, <3>1
    <3>3. clock' = clock + 1 BY <2>1, <3>2, ModIsSmall
    <3>4. ~(due' <= next') /\ clock' = (next' - due') + DayTicks BY <2>1, <2>6, <3>1, <3>3
    <3> QED BY <2>3, <2>4, <3>4 DEF Aligned
  <2>7. CASE due = next + 1
    <3>1. clock = (next - due) + DayTicks BY <2>1, <2>7 DEF Aligned
    <3>2. clock + 1 = DayTicks BY <2>1, <2>7, <3>1
    <3>3. clock' = 0 BY <2>1, <3>2, ModIsSmall
    <3>4. due' <= next' /\ clock' = next' - due' BY <2>1, <2>7, <3>3
    <3> QED BY <2>3, <2>4, <3>4 DEF Aligned
  <2> QED BY <2>1, <2>5, <2>6, <2>7
<1>2. CASE Compute BY <1>2, ComputesNext
<1>3. ASSUME UNCHANGED loop,
             pc' \in {"compute", "awake", "draining", "starting"} =>
                pc \in {"compute", "awake", "draining", "starting"} \/ due <= 0
      PROVE  Aligned'
  <2>1. next' = next /\ clock' = clock /\ due' = due BY <1>3 DEF loop
  <2>2. Mark(next)' BY <2>1 DEF Aligned, Mark
  <2> QED BY <1>3, <2>1, <2>2 DEF Aligned
<1>4. CASE Cancel BY <1>3, <1>4 DEF Cancel
<1>5. CASE TimerFires \/ SleepCancelled \/ NothingDue \/ Skip \/ Claim \/ Drain
    BY <1>3, <1>5 DEF TimerFires, SleepCancelled, NothingDue, Skip, Claim, Drain
<1>6. CASE Stop \/ Await \/ CloseDatabase BY <1>3, <1>6 DEF Stop, Await, CloseDatabase
<1>7. ASSUME NEW g \in Workers, Start(g) PROVE Aligned' BY <1>3, <1>7 DEF Start
<1>8. ASSUME NEW g \in Workers, Job(g) PROVE Aligned'
    BY <1>3, <1>8 DEF Job, JobEnds, Notify, Release
<1>9. CASE UNCHANGED vars BY <1>3, <1>9 DEF vars
<1> QED BY <1>1, <1>2, <1>4, <1>5, <1>6, <1>7, <1>8, <1>9 DEF Next, Loop

\* A daemon that is never a whole minute late wakes for one minute after the other,
\* over midnight too: no entry of the schedule is passed over or met twice, for any
\* length of the minute and of the day (jobs.go:128-141).
THEOREM EveryMinuteIsMetOnce ==
    ASSUME MaxLag < MinuteTicks
    PROVE  Spec => EveryMinuteOnce
<1>1. Init => Aligned BY InitiallyAligned
<1>2. TypeOK /\ Aligned /\ [Next]_vars => Aligned' BY AlignedStep
<1>3. TypeOK /\ Aligned /\ [Next]_vars =>
         [pc = "compute" /\ pc' = "sleeping" => next' = (next + MinuteTicks) % DayTicks]_vars
  <2> SUFFICES ASSUME TypeOK, Aligned, Next, pc = "compute", pc' = "sleeping"
               PROVE  next' = (next + MinuteTicks) % DayTicks
      OBVIOUS
  <2>1. Compute
      BY DEF Next, Loop, Job, Tick, Cancel, Compute, TimerFires, SleepCancelled, NothingDue,
             Skip, Claim, Drain, Start, Stop, Await, CloseDatabase, JobEnds, Notify, Release
  <2> QED BY <2>1, ComputesNext
<1> QED BY <1>1, <1>2, <1>3, TypeCorrect, PTL DEF Spec, EveryMinuteOnce
=============================================================================
