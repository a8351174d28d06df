------------------------------- MODULE Config -------------------------------
(***************************************************************************)
(* The database that a process runs on (internal/config/config.go).        *)
(*                                                                         *)
(* FromEnv is a decision table over the environment.  A connection string  *)
(* is named here for the setting it comes from; user, password and port,   *)
(* which are passed on, and the addresses of HTTP and Sentry are left out. *)
(***************************************************************************)
CONSTANT None \* no database, no session, no job

\* The settings that decide, each with a value of every kind the code tells apart.
Environments ==
    [BSMI_DRIVER : {"", "mysql", "sqlite", "postgres"}, BSMI_DSN : {"", "dsn"},
     NODE_ENV : {"", "production"}, TZ : {"", "Asia/Taipei", "Nowhere"},
     MYSQL_HOST : {"", "host"}, MYSQL_DATABASE : {"", "name"},
     DATABASE_URL : {"", "file:name", "mysql://host/name", "mysql://host",
                     "mysql://host/name?option", "postgres://host/name"}]

Database(driver, dsn) == [driver |-> driver, dsn |-> dsn]

Explicit(env) == env.BSMI_DRIVER # "" \/ env.BSMI_DSN # ""

FromExplicit(env) ==
    IF env.BSMI_DSN # "" /\ env.BSMI_DRIVER \in {"mysql", "sqlite"}
    THEN Database(env.BSMI_DRIVER, "BSMI_DSN") ELSE None

\* Mutant of Adapter: DATABASE_URL comes first everywhere.
AdapterWithoutURL(env) == env.MYSQL_HOST # "" /\ env.DATABASE_URL = ""

\* The settings of the Prisma adapter, before DATABASE_URL only in production.
Adapter(env) ==
    env.MYSQL_HOST # "" /\ (env.NODE_ENV = "production" \/ env.DATABASE_URL = "")

FromAdapter(env) ==
    IF env.MYSQL_DATABASE # "" THEN Database("mysql", "MYSQL_HOST") ELSE None

\* Without a DATABASE_URL there is a file for development.
FromURL(env) ==
    CASE env.DATABASE_URL = "mysql://host/name" -> Database("mysql", "DATABASE_URL")
      [] env.DATABASE_URL = "file:name" -> Database("sqlite", "DATABASE_URL")
      [] env.DATABASE_URL = "" /\ env.NODE_ENV # "production" -> Database("sqlite", "dev.db")
      [] OTHER -> None

\* The database of an environment, None where it is refused.
FromEnv(env) ==
    CASE env.TZ = "Nowhere" -> None
      [] env.TZ # "Nowhere" /\ Explicit(env) -> FromExplicit(env)
      [] env.TZ # "Nowhere" /\ ~Explicit(env) /\ Adapter(env) -> FromAdapter(env)
      [] OTHER -> FromURL(env)
=============================================================================
