------------------------------ MODULE Collect -------------------------------
(***************************************************************************)
(* A process that collects (run of cmd/bsmiweb/main.go): it reads its      *)
(* environment, opens its database, refuses one that is not migrated, and  *)
(* runs one job, or as the cron daemon one after the other (CronDaemon has *)
(* the schedule), until it is signalled.  The web server of the same       *)
(* database saves registrations meanwhile.  The job recent is that of      *)
(* RegistrationSync; commands that collect nothing are left out.           *)
(***************************************************************************)
EXTENDS ImportJob, EcJob

VARIABLES
    env,     \* the environment; Unread once it was read
    command, \* the job of the command line, or "cron"
    config   \* the database to open

vars == <<pc, err, process, database, import, ec, env, command, config>>

CONSTANT Unread

Imports == {"import", "import-certificates", "import-authorizations"}
Jobs == Imports \cup Sources

\* The step at which a job begins.
FirstStep(j) ==
    CASE j \in {"import", "import-certificates"} -> "files"
      [] j = "import-authorizations" -> "feed"
      [] j \in Sources -> "search"

ImportPoints == {"files", "acquire", "disable", "write", "restore", "release", "feed", "replace"}
EcPoints == {"search", "details", "registrations", "fetch", "save", "pause"}

-----------------------------------------------------------------------------
Init ==
    /\ env \in Environments /\ command \in Jobs \cup {"cron"} /\ config = None
    /\ pc = "load" /\ job = None /\ err = FALSE /\ cancelled = FALSE
    /\ limit = 0
    /\ pool = [s \in Sessions |-> "closed"] /\ checks = [s \in Sessions |-> TRUE]
    /\ read = <<>> /\ certs = <<>> /\ feed = {} /\ conn = None
    /\ table = [id \in Ids |-> Former] /\ stored = {}
    /\ page = 1 /\ pages = 1 /\ details = 0 /\ last = FALSE
    /\ found = {} /\ todo = {} /\ absent = {} /\ missed = FALSE
    /\ saved = {}

Load ==
    /\ pc = "load"
    /\ config' = FromEnv(env)
    /\ env' = Unread
    /\ IF config' = None THEN Fail("exit") ELSE Continue("open")
    /\ UNCHANGED <<database, import, ec, command>>

\* db.Open ends with a ping on a first session.
OpenDatabase ==
    /\ pc = "open"
    /\ limit' = IF config.driver = "sqlite" THEN 1 ELSE Cardinality(Sessions)
    /\ \E s \in Sessions : pool' = [pool EXCEPT ![s] = "idle"]
    /\ config' = None \* not used again
    /\ pc' = "version"
    /\ UNCHANGED <<err, job, cancelled, checks, import, ec, env, command>>

OpenFails == pc = "open" /\ Fail("exit") /\ UNCHANGED <<database, import, ec, env, command, config>>

\* And NewClient, which may fail.
CheckVersion ==
    /\ pc = "version" /\ Query
    /\ Continue("ready") \/ Fail("exit")
    /\ UNCHANGED <<import, ec, env, command, config>>

RefuseVersion ==
    /\ pc = "version" /\ QueryFails
    /\ Fail("exit")
    /\ UNCHANGED <<import, ec, env, command, config>>

Start(j) ==
    /\ pc = "ready" /\ (command = "cron" => ~cancelled) /\ command \in {j, "cron"}
    /\ job' = j /\ pc' = FirstStep(j) /\ err' = FALSE
    /\ saved' \in (IF j \in Sources THEN SUBSET Ids ELSE {{}})
    /\ UNCHANGED <<cancelled, limit, database, import, page, pages, details, last, found, todo,
                   absent, missed, env, command, config>>

\* The daemon reports the error of a job; any other command ends with it.  What
\* the job had in its variables is gone, and its rows are those of a former job.
Finish ==
    /\ pc = "end"
    /\ read' = <<>> /\ certs' = <<>> /\ table' = [id \in Ids |-> Former]
    /\ feed' = {} /\ stored' = {}
    /\ page' = 1 /\ pages' = 1 /\ details' = 0 /\ last' = FALSE
    /\ found' = {} /\ todo' = {} /\ absent' = {} /\ missed' = FALSE /\ saved' = {}
    /\ Continue(IF command = "cron" THEN "ready" ELSE "exit")
    /\ UNCHANGED <<database, conn, env, command, config>>

Stop ==
    /\ pc = "ready" /\ command = "cron" /\ cancelled
    /\ Continue("exit")
    /\ UNCHANGED <<database, import, ec, env, command, config>>

\* SIGTERM, once the handler is installed.
Cancel ==
    /\ pc \notin {"load", "open", "exit"} /\ ~cancelled
    /\ cancelled' = TRUE
    /\ UNCHANGED <<pc, job, err, limit, database, import, ec, env, command, config>>

\* A visitor of the web server asks for a registration that is not in the store.
Visit(id) ==
    /\ pc \in EcPoints /\ saved' = saved \cup {id} /\ id \notin saved
    /\ UNCHANGED <<pc, err, process, database, import, page, pages, details, last,
                   found, todo, absent, missed, env, command, config>>

JobStep ==
    \/ ImportStep /\ UNCHANGED <<ec, env, command, config>>
    \/ EcStep /\ UNCHANGED <<import, env, command, config>>

Step ==
    \/ Load \/ OpenDatabase \/ OpenFails \/ CheckVersion \/ RefuseVersion
    \/ \E j \in Jobs : Start(j)
    \/ JobStep \/ Finish \/ Stop

Environment ==
    \/ Cancel
    \/ \E id \in Ids : Visit(id)
    \/ \E s \in Sessions : Expire(s) /\ UNCHANGED <<import, ec, env, command, config>>

\* The process is gone.
Gone == pc = "exit" /\ UNCHANGED vars

Next == Step \/ Environment \/ Gone

\* Requests and statements come to an end: the HTTP client has a timeout of two
\* minutes, and the database answers or breaks the connection.
Fairness == WF_vars(Step)

Spec == Init /\ [][Next]_vars /\ Fairness
-----------------------------------------------------------------------------
ProcessTypeOK ==
    /\ pc \in {"load", "open", "version", "ready", "end", "exit"} \cup ImportPoints \cup EcPoints
    /\ err \in BOOLEAN /\ cancelled \in BOOLEAN
    /\ conn \in Sessions \cup {None}
    /\ conn # None <=> pc \in {"disable", "write", "restore", "release"}

DatabaseTypeOK ==
    /\ pool \in [Sessions -> {"closed", "idle", "used"}] /\ checks \in [Sessions -> BOOLEAN]
    /\ limit \in 0..Cardinality(Sessions) /\ Cardinality(Open) <= limit

EcTypeOK ==
    /\ page \in 1..MaxPages /\ pages \in 0..MaxPages + 1 /\ details \in 0..MaxDetails
    /\ last \in BOOLEAN /\ missed \in BOOLEAN
    /\ found \subseteq Ids /\ todo \subseteq Ids /\ absent \subseteq Ids /\ saved \subseteq Ids
    /\ pc \in {"fetch", "save", "pause"} => todo # {}

FeedTypeOK == feed \subseteq Ids /\ stored \subseteq Ids

TypeOK == ProcessTypeOK /\ DatabaseTypeOK /\ EcTypeOK /\ FeedTypeOK

\* "Production keeps its database": a process of production never falls back to
\* the file for development, and settings for it come before a DATABASE_URL that
\* is there as well, explicit ones first (config.go:44-53, 96-101); half of the
\* explicit settings are refused, not passed over.
ProductionKeepsItsDatabase ==
    [][pc = "load" /\ pc' = "open" =>
          /\ env.BSMI_DRIVER # "" \/ env.BSMI_DSN # "" =>
                config' = [driver |-> env.BSMI_DRIVER, dsn |-> "BSMI_DSN"]
          /\ env.NODE_ENV = "production" =>
                /\ config'.dsn # "dev.db"
                /\ env.MYSQL_HOST # "" => config'.dsn # "DATABASE_URL"]_vars

\* "The three certificate datasets retain their precedence" (README.md:96-97): the
\* rows to be written are, for every certificate, the first in the three files
\* taken together, whatever rows are repeated in a file or have no number.
FirstRowsWin ==
    pc = "acquire" =>
        LET Before(p, q) == p[1] < q[1] \/ (p[1] = q[1] /\ p[2] < q[2])
            Places(id) == {p \in (1..3) \X (1..MaxRows) :
                              p[2] \in DOMAIN read[p[1]] /\ read[p[1]][p[2]] = id}
        IN /\ Cardinality(Seen(certs)) = Len(certs)
           /\ \A id \in Ids :
                 IF Places(id) = {} THEN id \notin Seen(certs)
                 ELSE \E p \in Places(id) :
                         /\ \A q \in Places(id) : p = q \/ Before(p, q)
                         /\ Row(id, p[1], p[2]) \in Range(certs)

\* The certificates change only in a job that has read all three files, each with
\* a number in it, and has met no error on the way; and then every certificate that
\* any of the files names gets a row of these files: a file that fails or is empty
\* after the others were read is neither passed over nor noted and left for later,
\* as the failures of a crawl or of the recent job are (import.go:71-101).
ImportsAreWhole ==
    [][table' # table /\ pc # "end" =>
          /\ ~err /\ Len(read) = 3
          /\ \A file \in Range(read) :
                /\ HasIds(file)
                /\ \A id \in Ids \cap Range(file) : \E f \in 1..3 : \E i \in DOMAIN read[f] :
                      read[f][i] = id /\ table'[id] = Row(id, f, i)]_vars

\* "foreign key checks are disabled and restored on the same session, including
\* every failure path" (store.go:200-201): no session on which they are off is in
\* the pool for another statement, as long as the process is not being stopped.
ChecksAreRestored ==
    \A s \in Sessions : pool[s] = "idle" /\ ~checks[s] => cancelled

\* A job without an error has done its work: the certificates it has read
\* and a feed of authorizations that is not empty are in the tables, and every
\* registration found was saved, by anyone, or is unknown to BSMI.  One failure
\* among many is not forgotten (jobs.go:97-117, import.go:71-120, store.go:218-224).
\* That the rows are those of all three files is FirstRowsWin and ImportsAreWhole.
SuccessMeansDone ==
    pc = "end" /\ ~err =>
        /\ job \in {"import", "import-certificates"} => certs # <<>> /\ table = Imported
        /\ job \in {"import", "import-authorizations"} => stored = feed /\ stored # {}
        /\ job \in Sources => found \subseteq saved \cup absent

\* A job always comes to its end, whatever its sites announce and whatever fails,
\* and on SQLite with the one session there is (db.go:52): nothing waits for a
\* session that it holds itself.
JobsEnd == pc \in ImportPoints \cup EcPoints ~> pc = "end"
=============================================================================
