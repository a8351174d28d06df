------------------------------- MODULE Migrate -------------------------------
(***************************************************************************)
(* bsmiweb migrate (internal/db/migrate.go) and the gate of the services   *)
(* (CheckVersion in db.go), with what they use of golang-migrate.          *)
(*                                                                         *)
(* What the database went through is `level`, the number of migrations     *)
(* executed to their end, and `partial`, the number of statements executed *)
(* of the next one; what it says of itself is the row of schema_migrations *)
(* and Prisma's history.  The first is the truth, the program sees the     *)
(* second and the tables, columns, indexes and foreign key that are there. *)
(*                                                                         *)
(* Any number of runs of the command overlap, die between two statements   *)
(* or fail, and are repeated.  Only MySQL has the lock GET_LOCK; its DDL   *)
(* is not transactional, and its server may go on with a statement of a    *)
(* client that is dead.  SQLite executes a migration in one transaction.   *)
(***************************************************************************)
EXTENDS Integers, Sequences

CONSTANTS
    Driver,     \* "mysql" or "sqlite"
    Migrators,  \* processes that run bsmiweb migrate
    Services,   \* processes that run serve, cron or an import
    Databases,  \* the databases the program may meet
    NoOne       \* nobody holds the lock

Version == 4
LegacyNames == 1..3

\* Statements[k]: the steps in which migration k takes effect.
Statements == IF Driver = "mysql" THEN <<4, 14, 1, 1>> ELSE <<1, 1, 1, 1>>

\* Migrations that change nothing, and fail at nothing, when executed again.
Repeatable == IF Driver = "mysql" THEN {3} ELSE {2, 3}

\* The parts of the schema that validateLegacy looks at, each with the statement
\* of migration 1 that creates it on MySQL, and those of migration 2 that drop it
\* and that bring it back under its new name.
Parts == {"registration", "certificate", "authorization", "registrationColumns",
          "certificateColumns", "authorizationColumns", "registrationIndex",
          "certificateIndex", "authorizeeIndex", "foreignKey"}
Touched == [registration         |-> <<1, 2, 2>>,
            certificate          |-> <<2, 3, 3>>,
            authorization        |-> <<3, 4, 4>>,
            registrationColumns  |-> <<1, 5, 5>>,
            certificateColumns   |-> <<2, 6, 6>>,
            authorizationColumns |-> <<3, 7, 7>>,
            registrationIndex    |-> <<2, 8, 9>>,
            certificateIndex     |-> <<3, 10, 11>>,
            authorizeeIndex      |-> <<3, 12, 13>>,
            foreignKey           |-> <<4, 1, 14>>]

\* A row of _prisma_migrations: name 0 is unknown to the program.
PrismaRows == [name : 0..3, checksum : BOOLEAN, finished : BOOLEAN, rolledBack : BOOLEAN]

\* prismaVersion: rows rolled back do not count, any other must be finished, known,
\* unchanged and recorded once, and together they must have no gap.
Considered(history) == {i \in DOMAIN history : ~history[i].rolledBack}
Completed(history) == {history[i].name : i \in Considered(history)}
HistoryAccepted(history) ==
    /\ \A i \in Considered(history) :
          history[i].finished /\ history[i].checksum /\ history[i].name \in LegacyNames
    /\ \A i, j \in Considered(history) : history[i].name = history[j].name => i = j
    /\ \E v \in 0..3 : Completed(history) = 1..v
PrismaVersion(history) == CHOOSE v \in 0..3 : Completed(history) = 1..v

\* A database holds what its history and its row say of the cleanup, migration 3,
\* which leaves no trace in the schema; a database of a newer release is complete.
\* A SQLite database without the row has the names of migration 2 already, which
\* leaves nothing of it to do (sqlite/000002_rename_to_snake_case.up.sql).
ASSUME DatabasesAssumption ==
    \A d \in Databases :
        /\ d.level \in 0..(Version + 1) /\ d.partial \in Nat
        /\ d.level < Version => d.partial < Statements[d.level + 1]
        /\ d.level >= Version => d.partial = 0
        /\ d.drift \in SUBSET Parts /\ d.history \in Seq(PrismaRows)
        /\ d.level = 0 /\ d.partial = 0 => d.drift = {}
        /\ d.level = Version + 1 => d.drift = {}
        /\ d.level = 2 /\ HistoryAccepted(d.history) => Completed(d.history) # 1..3
        /\ Driver = "sqlite" => d.level # 1

ASSUME DriverAssumption == Driver \in {"mysql", "sqlite"}
ASSUME NoOneAssumption == NoOne \notin Migrators

VARIABLES
    level, partial, \* what was executed
    drift,          \* parts of the schema changed by hand
    history,        \* Prisma's history
    hasTable,       \* schema_migrations exists
    version, dirty, \* its row; version 0 without one
    lock,           \* who holds GET_LOCK
    pc,             \* pc[p]: where the run p of the command is
    data,           \* data[p]: p found tables of the application
    adopt,          \* adopt[p]: the version p adopts, or 0
    target,         \* target[p]: the migration p is at
    done,           \* done[p]: how many of its statements p executed
    service         \* service[s]: "down" or "up"

schema == <<level, partial>>
inherited == <<drift, history>>
row == <<hasTable, version, dirty>>
plan == <<data, adopt, target, done>>
vars == <<schema, inherited, row, lock, pc, plan, service>>

Clean(v) == version = v /\ ~dirty
Ended == {"idle", "ok", "failed", "crashed"}
Live == {"locking", "listing", "reading", "deciding", "opening", "forcing",
         "starting", "marking", "executing", "cleaning"}

Init ==
    /\ \E d \in Databases :
          /\ level = d.level /\ partial = d.partial
          /\ drift = d.drift /\ history = d.history
          /\ version = IF d.level > Version THEN d.level ELSE 0
          /\ hasTable \in BOOLEAN /\ (hasTable <=> d.level > Version)
    /\ dirty = FALSE
    /\ lock = NoOne
    /\ pc = [p \in Migrators |-> "idle"]
    /\ data = [p \in Migrators |-> FALSE]
    /\ adopt = [p \in Migrators |-> 0]
    /\ target = [p \in Migrators |-> 0]
    /\ done = [p \in Migrators |-> 0]
    /\ service = [s \in Services |-> "down"]

Goto(p, label) == pc' = [pc EXCEPT ![p] = label]

\* The deferred calls: the lock is released with the session.
Return(p, outcome) ==
    /\ Goto(p, outcome)
    /\ lock' = IF lock = p THEN NoOne ELSE lock
    /\ data' = [data EXCEPT ![p] = FALSE]
    /\ adopt' = [adopt EXCEPT ![p] = 0]
    /\ target' = [target EXCEPT ![p] = 0]
    /\ done' = [done EXCEPT ![p] = 0]
    /\ UNCHANGED <<schema, inherited, service>>

End(p, outcome) == Return(p, outcome) /\ UNCHANGED row

-----------------------------------------------------------------------------
(* The lock *)

Begin(p) ==
    /\ pc[p] \in Ended
    /\ Goto(p, IF Driver = "mysql" THEN "locking" ELSE "listing")
    /\ UNCHANGED <<schema, inherited, row, lock, plan, service>>

\* Mutant of AcquireLock: the result of GET_LOCK is not looked at.
AcquireUnchecked(p) ==
    /\ pc[p] = "locking"
    /\ lock' = IF lock = NoOne THEN p ELSE lock
    /\ Goto(p, "listing")
    /\ UNCHANGED <<schema, inherited, row, plan, service>>

\* GET_LOCK
AcquireLock(p) ==
    /\ pc[p] = "locking"
    /\ lock = NoOne
    /\ lock' = p
    /\ Goto(p, "listing")
    /\ UNCHANGED <<schema, inherited, row, plan, service>>

\* Mutant of LockTimesOut: GET_LOCK waits for ever.
LockNeverTimesOut(p) == FALSE /\ End(p, "failed")

\* locked != 1, after thirty seconds.
LockTimesOut(p) ==
    /\ pc[p] = "locking"
    /\ lock # NoOne
    /\ End(p, "failed")

-----------------------------------------------------------------------------
(* What the database is *)

\* tables
ListTables(p) ==
    /\ pc[p] = "listing"
    /\ data' = [data EXCEPT ![p] = level > 0 \/ partial > 0]
    /\ Goto(p, IF hasTable THEN "reading" ELSE "deciding")
    /\ UNCHANGED <<schema, inherited, row, lock, adopt, target, done, service>>

\* Mutant of ReadVersion: a dirty row is taken for none.
ReadCleanVersion(p) ==
    /\ pc[p] = "reading"
    /\ dirty \/ version \in 0..Version
    /\ Goto(p, IF dirty \/ version = 0 THEN "deciding" ELSE "opening")
    /\ UNCHANGED <<schema, inherited, row, lock, plan, service>>

\* The row is good, or there is none.
ReadVersion(p) ==
    /\ pc[p] = "reading"
    /\ ~dirty
    /\ version \in 0..Version
    /\ Goto(p, IF version = 0 THEN "deciding" ELSE "opening")
    /\ UNCHANGED <<schema, inherited, row, lock, plan, service>>

\* A dirty or an unsupported version.
RefuseVersion(p) ==
    /\ pc[p] = "reading"
    /\ dirty \/ version > Version
    /\ End(p, "failed")

\* How validateLegacy sees a part: under its "old" name (PascalCase), its "new"
\* one (snake_case), not at all, or as something "other" than it expects.  The
\* columns of migration 4 are such.
Style(part) ==
    LET created == Touched[part][1]
        dropped == Touched[part][2]
        renamed == Touched[part][3] IN
    IF part \in drift \/ (part = "registrationColumns" /\ level >= 4) THEN "other"
    ELSE IF level = 0 THEN IF partial >= created THEN "old" ELSE "none"
    ELSE IF level > 1 \/ Driver = "sqlite" \/ partial >= renamed THEN "new"
    ELSE IF partial >= dropped THEN "none" ELSE "old"

\* Mutant of Verified: validateConstraints is not called.
VerifiedTables(v) ==
    \A part \in Parts \ {"registrationIndex", "certificateIndex", "authorizeeIndex", "foreignKey"} :
        Style(part) = IF v = 1 THEN "old" ELSE "new"

\* validateLegacy, validateConstraints: the schema is that of Prisma's version v.
Verified(v) == \A part \in Parts : Style(part) = IF v = 1 THEN "old" ELSE "new"

AdoptedVersion(p) ==
    IF Driver = "mysql" THEN PrismaVersion(history) ELSE IF data[p] THEN 2 ELSE 0

\* SQLite: no history of Prisma (the code refuses a table of it without rows too).
Adoptable(p) ==
    /\ IF Driver = "mysql" THEN HistoryAccepted(history) ELSE history = <<>>
    /\ data[p] <=> AdoptedVersion(p) > 0
    /\ data[p] => Verified(AdoptedVersion(p))

Adopt(p) ==
    /\ pc[p] = "deciding"
    /\ Adoptable(p)
    /\ adopt' = [adopt EXCEPT ![p] = AdoptedVersion(p)]
    /\ Goto(p, "opening")
    /\ UNCHANGED <<schema, inherited, row, lock, data, target, done, service>>

RefuseDatabase(p) ==
    /\ pc[p] = "deciding"
    /\ ~Adoptable(p)
    /\ End(p, "failed")

-----------------------------------------------------------------------------
(* golang-migrate *)

\* WithConnection, WithInstance: CREATE TABLE IF NOT EXISTS schema_migrations.
OpenDriver(p) ==
    /\ pc[p] = "opening"
    /\ hasTable' = TRUE
    /\ Goto(p, IF adopt[p] > 0 THEN "forcing" ELSE "starting")
    /\ UNCHANGED <<schema, inherited, version, dirty, lock, plan, service>>

\* SetVersion replaces the row in one transaction.
SetVersion(v, d) == version' = v /\ dirty' = d /\ hasTable' = hasTable

ForceVersion(p) ==
    /\ pc[p] = "forcing"
    /\ SetVersion(adopt[p], FALSE)
    /\ Goto(p, "starting")
    /\ UNCHANGED <<schema, inherited, lock, plan, service>>

\* Up reads the row: there is something to do.
Up(p) ==
    /\ pc[p] = "starting"
    /\ ~dirty
    /\ version < Version
    /\ target' = [target EXCEPT ![p] = version + 1]
    /\ Goto(p, "marking")
    /\ UNCHANGED <<schema, inherited, row, lock, data, adopt, done, service>>

\* ErrDirty
UpRefused(p) == pc[p] = "starting" /\ dirty /\ End(p, "failed")

\* ErrNoChange is a success.
NoChange(p) == pc[p] = "starting" /\ Clean(Version) /\ End(p, "ok")

MarkDirty(p) ==
    /\ pc[p] = "marking"
    /\ SetVersion(target[p], TRUE)
    /\ done' = [done EXCEPT ![p] = 0]
    /\ Goto(p, "executing")
    /\ UNCHANGED <<schema, inherited, lock, data, adopt, target, service>>

\* The next statement finds the schema as its migration expects it.
Fits(p) == level = target[p] - 1 /\ partial = done[p]

\* It finds the migration executed already, and does no harm.
Reruns(p) == level >= target[p] /\ target[p] \in Repeatable

\* A statement of the migration.  The server may execute it for a dead client.
Execute(p) ==
    /\ pc[p] \in {"executing", "orphaned"}
    /\ done[p] < Statements[target[p]]
    /\ Fits(p) \/ Reruns(p)
    /\ LET last == done[p] + 1 = Statements[target[p]] IN
         /\ level' = IF Fits(p) /\ last THEN target[p] ELSE level
         /\ partial' = IF ~Fits(p) THEN partial ELSE IF last THEN 0 ELSE partial + 1
         /\ pc' = [pc EXCEPT ![p] = IF last /\ @ = "executing" THEN "cleaning" ELSE @]
    /\ done' = [done EXCEPT ![p] = @ + 1]
    /\ UNCHANGED <<inherited, row, lock, data, adopt, target, service>>

\* A table or a column is there already: Up fails, the row stays dirty.
StatementRefused(p) ==
    /\ pc[p] = "executing"
    /\ ~Fits(p) /\ ~Reruns(p)
    /\ End(p, "failed")

\* On to the next migration.
MarkClean(p) ==
    /\ pc[p] = "cleaning"
    /\ SetVersion(target[p], FALSE)
    /\ target[p] < Version
    /\ target' = [target EXCEPT ![p] = @ + 1]
    /\ Goto(p, "marking")
    /\ UNCHANGED <<schema, inherited, lock, data, adopt, done, service>>

\* The last one: Up returns.
MarkCurrent(p) ==
    /\ pc[p] = "cleaning"
    /\ SetVersion(target[p], FALSE)
    /\ target[p] = Version
    /\ Return(p, "ok")

-----------------------------------------------------------------------------
(* Failures *)

\* Mutant of Fail: the error of Up is lost.
FailSilently(p) ==
    /\ pc[p] \in Live
    /\ End(p, IF pc[p] \in {"starting", "marking", "executing", "cleaning"} THEN "ok" ELSE "failed")

\* A query or a statement fails, or the context was cancelled.
Fail(p) ==
    /\ pc[p] \in Live
    /\ End(p, "failed")

\* The process dies.  A MySQL session that is executing goes on without it.
Crash(p) ==
    /\ pc[p] \in Live
    /\ IF Driver = "mysql" /\ pc[p] = "executing"
         THEN /\ Goto(p, "orphaned")
              /\ UNCHANGED <<schema, inherited, row, lock, plan, service>>
         ELSE End(p, "crashed")

\* The server gives up the session of a dead client.
SessionEnds(p) == pc[p] = "orphaned" /\ End(p, "crashed")

\* The operator, with no run at work, completes or undoes the migration that was
\* interrupted and records where the schema is.
Repair ==
    /\ dirty
    /\ \A p \in Migrators : pc[p] \in Ended
    /\ level' \in {level, IF partial > 0 THEN level + 1 ELSE level}
    /\ partial' = 0
    /\ SetVersion(level', FALSE)
    /\ UNCHANGED <<inherited, lock, pc, plan, service>>

-----------------------------------------------------------------------------
(* The services *)

\* Mutant of StartService: dirty is not looked at.
StartUnlessOld(s) ==
    /\ service[s] = "down"
    /\ version = Version
    /\ service' = [service EXCEPT ![s] = "up"]
    /\ UNCHANGED <<schema, inherited, row, lock, pc, plan>>

\* CheckVersion lets the service start.
StartService(s) ==
    /\ service[s] = "down"
    /\ Clean(Version)
    /\ service' = [service EXCEPT ![s] = "up"]
    /\ UNCHANGED <<schema, inherited, row, lock, pc, plan>>

StopService(s) ==
    /\ service[s] = "up"
    /\ service' = [service EXCEPT ![s] = "down"]
    /\ UNCHANGED <<schema, inherited, row, lock, pc, plan>>

-----------------------------------------------------------------------------
Inspect(p) ==
    \/ ListTables(p) \/ ReadVersion(p) \/ RefuseVersion(p)
    \/ Adopt(p) \/ RefuseDatabase(p)

Upgrade(p) ==
    \/ OpenDriver(p) \/ ForceVersion(p) \/ Up(p) \/ UpRefused(p) \/ NoChange(p)
    \/ MarkDirty(p) \/ StatementRefused(p) \/ MarkClean(p) \/ MarkCurrent(p)

Step(p) ==
    \/ AcquireLock(p) \/ LockTimesOut(p)
    \/ Inspect(p) \/ Upgrade(p)
    \/ pc[p] = "executing" /\ Execute(p)

Run(p) ==
    \/ Begin(p) \/ Step(p)
    \/ pc[p] = "orphaned" /\ Execute(p)
    \/ Fail(p) \/ Crash(p) \/ SessionEnds(p)

Serve(s) == StartService(s) \/ StopService(s)

Next == (\E p \in Migrators : Run(p)) \/ Repair \/ (\E s \in Services : Serve(s))

\* A live run goes on, or is told that the lock is taken.  Nothing is assumed of
\* the operator, of the services or of the session of a dead client.
Fairness == \A p \in Migrators : WF_vars(Step(p))

Spec == Init /\ [][Next]_vars /\ Fairness

-----------------------------------------------------------------------------
(* Properties *)

\* Every variable has its type.
TypeOK ==
    /\ level \in 0..(Version + 1)
    /\ partial \in Nat
    /\ drift \in SUBSET Parts
    /\ history \in Seq(PrismaRows)
    /\ hasTable \in BOOLEAN
    /\ version \in 0..(Version + 1)
    /\ dirty \in BOOLEAN
    /\ lock \in Migrators \cup {NoOne}
    /\ pc \in [Migrators -> Live \cup Ended \cup {"orphaned"}]
    /\ data \in [Migrators -> BOOLEAN]
    /\ adopt \in [Migrators -> 0..3]
    /\ target \in [Migrators -> 0..Version]
    /\ done \in [Migrators -> Nat]
    /\ service \in [Services -> {"down", "up"}]

\* Nothing pending is marked as applied (migrate.go:29-30): a clean version is
\* one whose migrations were all executed, on a schema that is as they left it.
MarkedIsApplied ==
    version > 0 /\ ~dirty => level >= version /\ drift = {}

\* serve, cron and the imports (main.go:80) run on the complete schema only.
ServiceHasFullSchema ==
    \A s \in Services : service[s] = "up" => level >= Version /\ partial = 0

\* Only pending migrations execute (README.md:132), each from its first statement:
\* the exception is the cleanup, when Prisma executed it and recorded it as rolled
\* back.  Crashed runs and the sessions they leave behind are included.
OnlyPendingExecute ==
    \A p \in Migrators :
        pc[p] \in {"executing", "orphaned"} /\ done[p] < Statements[target[p]] =>
            Fits(p) \/ (level = target[p] /\ partial = 0 /\ target[p] \in Repeatable)

\* A dirty version is never forced clean (README.md:142-144): only the run that
\* marked it, once it has executed the migration, or the operator clears it.
ClearsDirty ==
    \/ \E p \in Migrators : pc[p] = "cleaning" /\ target[p] = version /\ level >= version
    \/ \A p \in Migrators : pc[p] \in Ended
DirtyIsNeverCleared == [][dirty /\ row' # row => ClearsDirty]_vars

\* When migrate reports success (main.go:73-78), the database stays at the current
\* version until the next run, whatever other runs do.
SuccessMeansCurrent ==
    \A p \in Migrators : pc[p] = "ok" => Clean(Version) /\ level = Version

\* A run that waits for the lock ends, even if the session that holds it never
\* does.
MigrationEnds == \A p \in Migrators : pc[p] = "locking" ~> pc[p] \in Ended \cup {"orphaned"}
=============================================================================
