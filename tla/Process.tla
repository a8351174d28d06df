------------------------------ MODULE Process -------------------------------
(***************************************************************************)
(* What the jobs of a process share: the point it is at, the error of its  *)
(* job, the context that a signal cancels, and the sessions of its         *)
(* database (db.Open and the pool of database/sql).                        *)
(***************************************************************************)
EXTENDS Config, Integers, FiniteSets

CONSTANTS
    Ids,     \* numbers of certificates and of registrations
    Sessions \* the sessions the pool may have at the same time on MySQL

ASSUME ProcessAssumption == None \notin Sessions /\ IsFiniteSet(Sessions)

VARIABLES
    pc,        \* the point of the process
    job,       \* the job it is at, or was at last
    err,       \* whether the job has failed
    cancelled, \* the context of the process is done
    limit,     \* sessions that may be open (SetMaxOpenConns)
    pool,      \* pool[s]: "closed", "idle" or "used"
    checks     \* checks[s]: whether s enforces foreign keys

process == <<job, cancelled, limit>>
database == <<pool, checks>>

Open == {s \in Sessions : pool[s] # "closed"}

\* What a request for a session gets: an idle one before a new one.
Obtainable(s) ==
    \/ pool[s] = "idle"
    \/ /\ pool[s] = "closed" /\ Cardinality(Open) < limit
       /\ \A other \in Sessions : pool[other] # "idle"

\* A new session enforces foreign keys.
Obtain(s, use) ==
    /\ Obtainable(s)
    /\ pool' = [pool EXCEPT ![s] = use]
    /\ checks' = [checks EXCEPT ![s] = pool[s] = "closed" \/ checks[s]]

\* A call of the store gets a session, runs its statements and puts it back.
Query == ~cancelled /\ \E s \in Sessions : Obtain(s, "idle")

\* It fails when the context is done, or for an error of the database; the driver
\* may close the session.  Without a session to be had it waits.
QueryFails ==
    /\ \/ cancelled /\ UNCHANGED database
       \/ \E s \in Sessions : Obtain(s, "idle") \/ (Obtainable(s) /\ UNCHANGED database)
       \/ \E s \in Sessions :
             /\ Obtainable(s) /\ pool' = [pool EXCEPT ![s] = "closed"] /\ UNCHANGED checks

\* An idle session of MySQL reaches its age, or the server ends it.
Expire(s) ==
    /\ limit > 1 /\ pool[s] = "idle"
    /\ pool' = [pool EXCEPT ![s] = "closed"]
    /\ UNCHANGED <<pc, err, process, checks>>

\* The job goes on to point p, or has failed and goes to p.
Continue(p) == pc' = p /\ UNCHANGED <<err, process>>
Fail(p) == pc' = p /\ err' = TRUE /\ UNCHANGED process
=============================================================================
