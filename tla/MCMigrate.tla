------------------------------ MODULE MCMigrate ------------------------------
(* Migrate on the databases the program may meet: fresh ones, those of every *)
(* Prisma version, interrupted, resolved by hand either way, changed by hand *)
(* or with a history that is not to be trusted, and that of a newer release. *)
EXTENDS Migrate

Row(k) == [name |-> k, checksum |-> TRUE, finished |-> TRUE, rolledBack |-> FALSE]
Unfinished(k) == [Row(k) EXCEPT !.finished = FALSE]
RolledBack(k) == [Unfinished(k) EXCEPT !.rolledBack = TRUE]
Rows(v) == [i \in 1..v |-> Row(i)]

Database(l, i, h) == [level |-> l, partial |-> i, drift |-> {}, history |-> h]
Drifted(l, part, h) == [Database(l, 0, h) EXCEPT !.drift = {part}]

\* Prisma was interrupted in migration k, after some of its statements or all.
Interrupted(k, h) ==
    {Database(k - 1, i, h) : i \in 0..(Statements[k] - 1)} \cup {Database(k, 0, h)}

MySQLDatabases ==
    {Database(0, 0, <<>>), Database(Version + 1, 0, <<>>)}
    \cup {Database(v, 0, Rows(v)) : v \in 1..3}
    \cup UNION {Interrupted(k, Append(Rows(k - 1), Unfinished(k))) : k \in 1..3}
    \cup UNION {Interrupted(k, Append(Rows(k - 1), RolledBack(k))) : k \in 1..3}
    \cup UNION {Interrupted(k, Rows(k)) : k \in 1..2}
    \cup {Drifted(2, part, Rows(2)) : part \in Parts}
    \cup {Database(2, 0, h) : h \in {<<>>, <<Row(2)>>, <<Row(1), Row(0)>>, Append(Rows(2), Row(1)),
                                    <<[Row(1) EXCEPT !.checksum = FALSE], Row(2)>>}}

SQLiteDatabases ==
    {Database(0, 0, <<>>), Database(2, 0, <<>>), Database(2, 0, Rows(2)),
     Database(Version + 1, 0, <<>>)}
    \cup {Drifted(2, part, <<>>) : part \in Parts}
=============================================================================
